---------------------------- MODULE ChannelProofs ---------------------------
(***************************************************************************)
(* What goes between processes, and between a process and its devices:     *)
(* UNIX domain sockets pair for any threads, sockets and names and buffers *)
(* of any size, and the queue of a thread holds whole messages; the        *)
(* display, the line discipline, the file descriptors and the frame buffer *)
(* show what they should for every sequence of terminals, every size of    *)
(* buffer, every file and chunk and every mode of the graphics card.  Each *)
(* of the last four repeats one step along a text or a vector: module      *)
(* Recursion has the facts about such a repetition.                        *)
(***************************************************************************)
EXTENDS UnixSocket, MessageQueue, Screen, LineHistory, FileIo, Graphics, Recursion,
        SequenceTheorems

-----------------------------------------------------------------------------
(* UNIX domain sockets: the inductive invariant *)

SockTypeOK ==
    /\ status \in [Sockets -> {"unused", "open", "freed"}]
    /\ owner \in [Sockets -> SockThreads \cup {none}]
    /\ last_thread \in [Sockets -> SockThreads \cup {none}]
    /\ name \in [Sockets -> SockNames \cup {none}]
    /\ listening \subseteq Sockets
    /\ connection \in [Sockets -> Sockets \cup {none}]
    /\ disconnected \subseteq Sockets
    /\ buffer_in \in [Sockets -> Seq(SockData)]
    /\ accept_queue \in [Sockets -> Seq(Sockets)]
    /\ call \in [SockThreads ->
                    [in : {"user", "accept", "connect", "send", "recv", "ended"},
                     sock : Sockets \cup {none}, byte : SockData \cup {none}]]
    /\ sleeping \subseteq SockThreads

\* A thread in a call keeps its socket open, and only loops that can halt sleep.
CallsOwnSockets ==
    /\ \A t \in SockThreads :
          call[t].in \in {"accept", "connect", "send", "recv"} =>
              /\ call[t].sock \in Sockets
              /\ status[call[t].sock] = "open"
              /\ owner[call[t].sock] = t
    /\ \A t \in SockThreads : call[t].in = "send" => call[t].byte \in SockData
    /\ \A t \in sleeping : call[t].in \in {"accept", "send", "recv"}

\* get_socket and the creation of a socket note the one thread that has it.
OwnersNoted ==
    \A s \in Sockets : status[s] = "open" =>
        owner[s] \in SockThreads /\ last_thread[s] = owner[s]

AbandonedAreFreed ==
    \A t \in SockThreads :
        call[t].in = "ended" /\ call[t].sock # none => status[call[t].sock] = "freed"

NewAreUnconnected ==
    \A s \in Sockets : status[s] = "unused" => connection[s] = none

\* The sockets whose threads are in connect.
Connecting == {call[t].sock : t \in {u \in SockThreads : call[u].in = "connect"}}

\* A socket in an accept queue waits there, unconnected, or was abandoned, and
\* it is in one queue, once.
QueuesHoldConnectors ==
    \A a \in Sockets : \A i \in DOMAIN accept_queue[a] :
        LET s == accept_queue[a][i]
        IN  s \in Abandoned \/ (s \in Connecting /\ connection[s] = none)

QueuedOnce ==
    \A a, b \in Sockets : \A i \in DOMAIN accept_queue[a], j \in DOMAIN accept_queue[b] :
        accept_queue[a][i] = accept_queue[b][j] => a = b /\ i = j

BuffersBounded == \A s \in Sockets : Len(buffer_in[s]) <= SockBufferSize

\* SleepersHaveCause, call by call.
SleepCause(t) ==
    LET s == call[t].sock
    IN  /\ call[t].in = "recv" => buffer_in[s] = <<>> \/ s \in disconnected
        /\ call[t].in = "send" =>
              \/ connection[s] = none
              \/ Len(buffer_in[connection[s]]) = SockBufferSize
        /\ call[t].in = "accept" => accept_queue[s] = <<>> \/ ~CanCreate(t)

SleepCauses == \A t \in sleeping : SleepCause(t)

SockInv ==
    /\ SockTypeOK /\ CallsOwnSockets /\ OwnersNoted /\ AbandonedAreFreed
    /\ NewAreUnconnected /\ QueuesHoldConnectors /\ QueuedOnce /\ BuffersBounded
    /\ SocketsPaired /\ SleepCauses

-----------------------------------------------------------------------------
(* UNIX domain sockets: the actions *)

LEMMA SockInitInv == SockInit => SockInv
<1> SUFFICES ASSUME SockInit PROVE SockInv
  OBVIOUS
<1> USE SocketAssumption DEF SockInit, InUserMode
<1>1. SockTypeOK
  BY DEF SockTypeOK
<1>2. CallsOwnSockets
  BY DEF CallsOwnSockets
<1>3. OwnersNoted /\ AbandonedAreFreed /\ NewAreUnconnected
  BY DEF OwnersNoted, AbandonedAreFreed, NewAreUnconnected
<1>4. QueuesHoldConnectors /\ QueuedOnce
  BY DEF QueuesHoldConnectors, QueuedOnce
<1>5. BuffersBounded
  BY DEF BuffersBounded
<1>6. SocketsPaired /\ SleepCauses
  BY DEF SocketsPaired, SleepCauses, SocketList
<1> QED
  BY <1>1, <1>2, <1>3, <1>4, <1>5, <1>6 DEF SockInv

\* The steps of a thread: a call, a pass of a loop, or its end.
LEMMA SockCases ==
    ASSUME SockNext
    PROVE  \E t \in SockThreads :
              \/ SyscallSocket(t)
              \/ \E s \in Owned(t), n \in SockNames : Bind(t, s, n) \/ Connect(t, s, n)
              \/ \E s \in Owned(t) : Listen(t, s) \/ Accept(t, s) \/ SocketClose(t, s)
              \/ \E s \in Owned(t) : Recv(t, s) \/ SocketRead(t, s)
              \/ \E s \in Owned(t), b \in SockData : Send(t, s, b) \/ SocketWrite(t, s, b)
              \/ Connected(t) \/ Again(t) \/ End(t)
  BY DEF SockNext

\* A socket that a thread creates was unused.
LEMMA NewIsUnused ==
    ASSUME SockTypeOK, Unused # {}
    PROVE  NewSocket \in Sockets /\ status[NewSocket] = "unused"
  BY DEF NewSocket, Unused

\* The outcomes of a pass of each loop.
Accepts(t, s) ==
    /\ accept_queue[s] # <<>> /\ Unused # {} /\ CanCreate(t)
    /\ accept_queue' = [accept_queue EXCEPT ![s] = Tail(accept_queue[s])]
    /\ status' = [status EXCEPT ![NewSocket] = "open"]
    /\ owner' = [owner EXCEPT ![NewSocket] = t]
    /\ last_thread' = [last_thread EXCEPT ![s] = t, ![NewSocket] = t]
    /\ connection' = [connection EXCEPT ![NewSocket] = Head(accept_queue[s]),
                                        ![Head(accept_queue[s])] = NewSocket]
    /\ call' = [call EXCEPT ![t] = InUserMode]
    /\ UNCHANGED sleeping

Sleeps(t, in, s, b) ==
    /\ call' = [call EXCEPT ![t] = [in |-> in, sock |-> s, byte |-> b]]
    /\ sleeping' = sleeping \cup {t}

AcceptSleeps(t, s) ==
    /\ accept_queue[s] = <<>> \/ ~CanCreate(t)
    /\ \/ UNCHANGED accept_queue
       \/ /\ accept_queue[s] # <<>>
          /\ accept_queue' = [accept_queue EXCEPT ![s] = Tail(accept_queue[s])]
    /\ last_thread' = [last_thread EXCEPT ![s] = t]
    /\ Sleeps(t, "accept", s, none)
    /\ UNCHANGED <<status, owner, connection>>

Returns(t) == call' = [call EXCEPT ![t] = InUserMode]

Sends(t, s, b) ==
    /\ connection[s] # none
    /\ Len(buffer_in[connection[s]]) < SockBufferSize
    /\ buffer_in' = [buffer_in EXCEPT ![connection[s]] =
                        Append(buffer_in[connection[s]], b)]
    /\ sleeping' = Resumed(last_thread[connection[s]], "recv")
    /\ Returns(t)

SendSleeps(t, s, b) ==
    /\ connection[s] # none
    /\ ~(Len(buffer_in[connection[s]]) < SockBufferSize)
    /\ UNCHANGED buffer_in
    /\ Sleeps(t, "send", s, b)

Receives(t, s) ==
    /\ buffer_in[s] # <<>>
    /\ buffer_in' = [buffer_in EXCEPT ![s] = Tail(buffer_in[s])]
    /\ sleeping' = Resumed(last_thread[connection[s]], "send")
    /\ Returns(t)

RecvSleeps(t, s) ==
    /\ buffer_in[s] = <<>> /\ s \notin disconnected
    /\ UNCHANGED buffer_in
    /\ Sleeps(t, "recv", s, none)

ReturnsOnly(t) == Returns(t) /\ UNCHANGED <<buffer_in, sleeping>>

LEMMA AcceptOutcomes ==
    ASSUME SockTypeOK, NEW t \in SockThreads, NEW s \in Sockets, AcceptPass(t, s)
    PROVE  Accepts(t, s) \/ AcceptSleeps(t, s)
<1>1. CASE accept_queue[s] # <<>> /\ CanCreate(t)
  BY <1>1 DEF AcceptPass, Accepts, Create, Return, CanCreate
<1>2. CASE ~(accept_queue[s] # <<>> /\ CanCreate(t))
  <2>1. CASE accept_queue[s] = <<>>
    <3>1. accept_queue' = accept_queue
      BY <1>2, <2>1 DEF AcceptPass, SockTypeOK
    <3> QED
      BY <1>2, <2>1, <3>1 DEF AcceptPass, AcceptSleeps, Sleeps, Called, FallAsleepIn, Enter
  <2>2. CASE accept_queue[s] # <<>>
    BY <1>2, <2>2 DEF AcceptPass, AcceptSleeps, Sleeps, Called, FallAsleepIn, Enter
  <2> QED
    BY <2>1, <2>2
<1> QED
  BY <1>1, <1>2

LEMMA SendOutcomes ==
    ASSUME NEW t, NEW s, NEW b, SendPass(t, s, b)
    PROVE  (connection[s] = none /\ ReturnsOnly(t)) \/ Sends(t, s, b) \/ SendSleeps(t, s, b)
<1>1. CASE connection[s] = none
  BY <1>1 DEF SendPass, ReturnsOnly, Returns, Return
<1>2. CASE connection[s] # none /\ Len(buffer_in[connection[s]]) < SockBufferSize
  BY <1>2 DEF SendPass, Sends, Returns, Return
<1>3. CASE connection[s] # none /\ ~(Len(buffer_in[connection[s]]) < SockBufferSize)
  BY <1>3 DEF SendPass, SendSleeps, Sleeps, FallAsleepIn, Enter
<1> QED
  BY <1>1, <1>2, <1>3

LEMMA RecvOutcomes ==
    ASSUME NEW t, NEW s, RecvPass(t, s)
    PROVE  ReturnsOnly(t) \/ Receives(t, s) \/ RecvSleeps(t, s)
<1>1. CASE s \in disconnected
  BY <1>1 DEF RecvPass, ReturnsOnly, Returns, Return
<1>2. CASE s \notin disconnected /\ buffer_in[s] # <<>>
  BY <1>2 DEF RecvPass, Receives, Returns, Return
<1>3. CASE s \notin disconnected /\ buffer_in[s] = <<>>
  BY <1>3 DEF RecvPass, RecvSleeps, Sleeps, FallAsleepIn, Enter
<1> QED
  BY <1>1, <1>2, <1>3

CallType ==
    [in : {"user", "accept", "connect", "send", "recv", "ended"},
     sock : Sockets \cup {none}, byte : SockData \cup {none}]

LEMMA CallTypes ==
    ASSUME SockTypeOK, NEW t \in SockThreads
    PROVE  /\ Returns(t) => call' \in [SockThreads -> CallType]
           /\ \A in \in {"accept", "send", "recv"}, s \in Sockets, b \in SockData \cup {none} :
                 Sleeps(t, in, s, b) =>
                    call' \in [SockThreads -> CallType] /\ sleeping' \subseteq SockThreads
<1>1. call \in [SockThreads -> CallType] /\ sleeping \subseteq SockThreads
  BY DEF SockTypeOK, CallType
<1>2. ASSUME NEW c \in CallType
      PROVE  [call EXCEPT ![t] = c] \in [SockThreads -> CallType]
  BY <1>1, <1>2
<1>3. InUserMode \in CallType
  BY DEF InUserMode, CallType
<1>4. ASSUME NEW in \in {"accept", "send", "recv"}, NEW s \in Sockets,
             NEW b \in SockData \cup {none}
      PROVE  [in |-> in, sock |-> s, byte |-> b] \in CallType
  BY DEF CallType
<1>5. Returns(t) => call' \in [SockThreads -> CallType]
  BY <1>2, <1>3 DEF Returns
<1>6. ASSUME NEW in \in {"accept", "send", "recv"}, NEW s \in Sockets,
             NEW b \in SockData \cup {none}, Sleeps(t, in, s, b)
      PROVE  call' \in [SockThreads -> CallType] /\ sleeping' \subseteq SockThreads
  BY <1>1, <1>2, <1>4, <1>6 DEF Sleeps
<1> QED
  BY <1>5, <1>6

LEMMA ResumedIsSubset ==
    ASSUME NEW t, NEW in
    PROVE  Resumed(t, in) \subseteq sleeping
  BY DEF Resumed

LEMMA AcceptType ==
    ASSUME SockTypeOK, NEW t \in SockThreads, NEW s \in Sockets, AcceptPass(t, s),
           UNCHANGED <<name, listening, disconnected, buffer_in>>
    PROVE  SockTypeOK'
<1>1. CASE Accepts(t, s)
  <2>1. NewSocket \in Sockets
    BY <1>1, NewIsUnused DEF Accepts
  <2>2. Head(accept_queue[s]) \in Sockets /\ Tail(accept_queue[s]) \in Seq(Sockets)
    BY <1>1 DEF Accepts, SockTypeOK
  <2>3. call' \in [SockThreads -> CallType]
    BY <1>1, CallTypes DEF Accepts, Returns
  <2> QED
    BY <1>1, <2>1, <2>2, <2>3 DEF Accepts, SockTypeOK, CallType
<1>2. CASE AcceptSleeps(t, s)
  <2>1. accept_queue[s] # <<>> => Tail(accept_queue[s]) \in Seq(Sockets)
    BY DEF SockTypeOK
  <2>2. call' \in [SockThreads -> CallType] /\ sleeping' \subseteq SockThreads
    BY <1>2, CallTypes DEF AcceptSleeps
  <2>3. accept_queue' \in [Sockets -> Seq(Sockets)]
    BY <1>2, <2>1 DEF AcceptSleeps, SockTypeOK
  <2> QED
    BY <1>2, <2>2, <2>3 DEF AcceptSleeps, SockTypeOK, CallType
<1> QED
  BY <1>1, <1>2, AcceptOutcomes

LEMMA SendType ==
    ASSUME SockTypeOK, NEW t \in SockThreads, NEW s \in Sockets, NEW b \in SockData,
           SendPass(t, s, b)
    PROVE  /\ buffer_in' \in [Sockets -> Seq(SockData)]
           /\ call' \in [SockThreads -> CallType]
           /\ sleeping' \subseteq SockThreads
<1>1. CASE ReturnsOnly(t)
  BY <1>1, CallTypes DEF ReturnsOnly, SockTypeOK
<1>2. CASE Sends(t, s, b)
  BY <1>2, CallTypes, ResumedIsSubset DEF Sends, SockTypeOK
<1>3. CASE SendSleeps(t, s, b)
  BY <1>3, CallTypes DEF SendSleeps, SockTypeOK
<1> QED
  BY <1>1, <1>2, <1>3, SendOutcomes

LEMMA RecvType ==
    ASSUME SockTypeOK, NEW t \in SockThreads, NEW s \in Sockets, RecvPass(t, s)
    PROVE  /\ buffer_in' \in [Sockets -> Seq(SockData)]
           /\ call' \in [SockThreads -> CallType]
           /\ sleeping' \subseteq SockThreads
<1>1. CASE ReturnsOnly(t)
  BY <1>1, CallTypes DEF ReturnsOnly, SockTypeOK
<1>2. CASE Receives(t, s)
  BY <1>2, CallTypes, ResumedIsSubset DEF Receives, SockTypeOK
<1>3. CASE RecvSleeps(t, s)
  BY <1>3, CallTypes DEF RecvSleeps, SockTypeOK
<1> QED
  BY <1>1, <1>2, <1>3, RecvOutcomes

LEMMA SockTypeStep ==
    ASSUME SockInv, SockNext
    PROVE  SockTypeOK'
<1> USE DEF SockTypeOK, CallType
<1>0. SockTypeOK /\ CallsOwnSockets
  BY DEF SockInv
<1> PICK t \in SockThreads :
              \/ SyscallSocket(t)
              \/ \E s \in Owned(t), n \in SockNames : Bind(t, s, n) \/ Connect(t, s, n)
              \/ \E s \in Owned(t) : Listen(t, s) \/ Accept(t, s) \/ SocketClose(t, s)
              \/ \E s \in Owned(t) : Recv(t, s) \/ SocketRead(t, s)
              \/ \E s \in Owned(t), b \in SockData : Send(t, s, b) \/ SocketWrite(t, s, b)
              \/ Connected(t) \/ Again(t) \/ End(t)
  BY SockCases
<1> Owned(t) \subseteq Sockets
  BY DEF Owned, SocketList
<1>1. CASE SyscallSocket(t)
  <2>1. NewSocket \in Sockets
    BY <1>0, <1>1, NewIsUnused DEF SyscallSocket, CanCreate
  <2> QED
    BY <1>0, <1>1, <2>1 DEF SyscallSocket, Create
<1>2. ASSUME NEW s \in Owned(t), NEW n \in SockNames, Bind(t, s, n)
      PROVE  SockTypeOK'
  BY <1>0, <1>2 DEF Bind, Called
<1>3. ASSUME NEW s \in Owned(t), NEW n \in SockNames, Connect(t, s, n)
      PROVE  SockTypeOK'
  BY <1>0, <1>3, ResumedIsSubset DEF Connect, Called, Enter, SocketList
<1>4. ASSUME NEW s \in Owned(t), Listen(t, s)
      PROVE  SockTypeOK'
  BY <1>0, <1>4 DEF Listen, Called
<1>5. ASSUME NEW s \in Owned(t), Accept(t, s)
      PROVE  SockTypeOK'
  BY <1>0, <1>5, AcceptType DEF Accept
<1>6. ASSUME NEW s \in Owned(t), SocketClose(t, s)
      PROVE  SockTypeOK'
  BY <1>0, <1>6 DEF SocketClose, Freed, SocketList
<1>7. ASSUME NEW s \in Owned(t), Recv(t, s) \/ SocketRead(t, s)
      PROVE  SockTypeOK'
  <2>1. RecvPass(t, s)
    BY <1>7 DEF Recv, SocketRead
  <2>2. last_thread' \in [Sockets -> SockThreads \cup {none}]
    BY <1>0, <1>7 DEF Recv, SocketRead, Called
  <2> QED
    BY <1>0, <1>7, <2>1, <2>2, RecvType DEF Recv, SocketRead
<1>8. ASSUME NEW s \in Owned(t), NEW b \in SockData, Send(t, s, b) \/ SocketWrite(t, s, b)
      PROVE  SockTypeOK'
  <2>1. SendPass(t, s, b)
    BY <1>8 DEF Send, SocketWrite
  <2>2. last_thread' \in [Sockets -> SockThreads \cup {none}]
    BY <1>0, <1>8 DEF Send, SocketWrite, Called
  <2> QED
    BY <1>0, <1>8, <2>1, <2>2, SendType DEF Send, SocketWrite
<1>9. CASE Connected(t)
  BY <1>0, <1>9 DEF Connected, Return, InUserMode
<1>10. CASE Again(t)
  <2> DEFINE c == call[t]
  <2>1. CASE c.in = "accept" /\ AcceptPass(t, c.sock) /\ UNCHANGED buffer_in
    BY <1>0, <1>10, <2>1, AcceptType DEF Again, CallsOwnSockets
  <2>2. CASE c.in = "send" /\ SendPass(t, c.sock, c.byte)
               /\ UNCHANGED <<status, owner, last_thread, connection, accept_queue>>
    BY <1>0, <1>10, <2>2, SendType DEF Again, CallsOwnSockets
  <2>3. CASE c.in = "recv" /\ RecvPass(t, c.sock)
               /\ UNCHANGED <<status, owner, last_thread, connection, accept_queue>>
    BY <1>0, <1>10, <2>3, RecvType DEF Again, CallsOwnSockets
  <2> QED
    BY <1>10, <2>1, <2>2, <2>3 DEF Again
<1>11. CASE End(t)
  BY <1>0, <1>11 DEF End, Freed, Enter, SocketList
<1> QED
  BY <1>1, <1>2, <1>3, <1>4, <1>5, <1>6, <1>7, <1>8, <1>9, <1>10, <1>11

\* What the calls have in common, for the parts of the invariant.
Active(t) == t \notin sleeping /\ call[t].in \in {"user", "accept", "send", "recv"}

Touches(t, s) == last_thread' = last_thread \/ last_thread' = [last_thread EXCEPT ![s] = t]

NoteStep(t, s) ==
    /\ Touches(t, s)
    /\ UNCHANGED <<status, owner, connection, disconnected, buffer_in, accept_queue, call,
                   sleeping>>

AcceptStep(t, s) ==
    Active(t) /\ AcceptPass(t, s) /\ UNCHANGED <<disconnected, buffer_in>>

TransferStep(t, s) ==
    /\ Active(t)
    /\ Touches(t, s)
    /\ RecvPass(t, s) \/ \E b \in SockData : SendPass(t, s, b)
    /\ UNCHANGED <<status, owner, connection, disconnected, accept_queue>>

LEMMA UserIsActive ==
    ASSUME SockInv, NEW t \in SockThreads, InUser(t)
    PROVE  Active(t)
  BY DEF SockInv, CallsOwnSockets, InUser, InUserMode, Active

LEMMA SockSteps ==
    ASSUME SockInv, SockNext
    PROVE  \E t \in SockThreads :
              \/ SyscallSocket(t) \/ Connected(t) \/ End(t)
              \/ \E s \in Owned(t) :
                    \/ NoteStep(t, s) \/ AcceptStep(t, s) \/ TransferStep(t, s)
                    \/ SocketClose(t, s)
                    \/ \E n \in SockNames : Connect(t, s, n)
<1> DEFINE Goal(t) ==
              \/ SyscallSocket(t) \/ Connected(t) \/ End(t)
              \/ \E s \in Owned(t) :
                    \/ NoteStep(t, s) \/ AcceptStep(t, s) \/ TransferStep(t, s)
                    \/ SocketClose(t, s)
                    \/ \E n \in SockNames : Connect(t, s, n)
<1> PICK t \in SockThreads :
              \/ SyscallSocket(t)
              \/ \E s \in Owned(t), n \in SockNames : Bind(t, s, n) \/ Connect(t, s, n)
              \/ \E s \in Owned(t) : Listen(t, s) \/ Accept(t, s) \/ SocketClose(t, s)
              \/ \E s \in Owned(t) : Recv(t, s) \/ SocketRead(t, s)
              \/ \E s \in Owned(t), b \in SockData : Send(t, s, b) \/ SocketWrite(t, s, b)
              \/ Connected(t) \/ Again(t) \/ End(t)
  BY SockCases
<1>1. ASSUME NEW s \in Owned(t), NEW n \in SockNames, Bind(t, s, n)
      PROVE  NoteStep(t, s)
  BY <1>1 DEF Bind, NoteStep, Touches, Called
<1>2. ASSUME NEW s \in Owned(t), Listen(t, s)
      PROVE  NoteStep(t, s)
  BY <1>2 DEF Listen, NoteStep, Touches, Called
<1>3. ASSUME NEW s \in Owned(t), Accept(t, s)
      PROVE  AcceptStep(t, s)
  BY <1>3, UserIsActive DEF Accept, AcceptStep
<1>4. ASSUME NEW s \in Owned(t), Recv(t, s) \/ SocketRead(t, s)
      PROVE  TransferStep(t, s)
  BY <1>4, UserIsActive DEF Recv, SocketRead, TransferStep, Touches, Called
<1>5. ASSUME NEW s \in Owned(t), NEW b \in SockData, Send(t, s, b) \/ SocketWrite(t, s, b)
      PROVE  TransferStep(t, s)
  BY <1>5, UserIsActive DEF Send, SocketWrite, TransferStep, Touches, Called
<1>6. CASE Again(t)
  <2> DEFINE c == call[t]
  <2>1. c.in \in {"accept", "send", "recv"} /\ t \notin sleeping
    BY <1>6 DEF Again
  <2>2. Active(t)
    BY <2>1 DEF Active
  <2>3. c.sock \in Owned(t)
    BY <2>1 DEF SockInv, CallsOwnSockets, Owned, SocketList
  <2>4. c.in = "send" => c.byte \in SockData
    BY DEF SockInv, CallsOwnSockets
  <2>5. AcceptStep(t, c.sock) \/ TransferStep(t, c.sock)
    BY <1>6, <2>2, <2>4 DEF Again, AcceptStep, TransferStep, Touches
  <2> QED
    BY <2>3, <2>5
<1> QED
  BY <1>1, <1>2, <1>3, <1>4, <1>5, <1>6

LEMMA OwnedFacts ==
    ASSUME SockInv, NEW t \in SockThreads, NEW s \in Owned(t)
    PROVE  s \in Sockets /\ status[s] = "open" /\ owner[s] = t /\ last_thread[s] = t
  BY DEF Owned, SocketList, SockInv, OwnersNoted

\* A bind, a listen, and the return from a connect.
LEMMA NoteInv ==
    ASSUME SockInv, SockTypeOK', NEW t \in SockThreads, NEW s \in Owned(t), NoteStep(t, s)
    PROVE  SockInv'
<1> s \in Sockets /\ owner[s] = t
  BY OwnedFacts
<1> USE DEF NoteStep
<1>1. CallsOwnSockets' /\ AbandonedAreFreed' /\ NewAreUnconnected' /\ BuffersBounded'
  BY DEF SockInv, CallsOwnSockets, AbandonedAreFreed, NewAreUnconnected, BuffersBounded
<1>2. OwnersNoted'
  BY DEF SockInv, SockTypeOK, OwnersNoted, Touches
<1>3. QueuesHoldConnectors' /\ QueuedOnce'
  BY DEF SockInv, QueuesHoldConnectors, QueuedOnce, Abandoned, Connecting
<1>4. SocketsPaired'
  BY DEF SockInv, SocketsPaired, Abandoned, SocketList
<1>5. SleepCauses'
  BY DEF SockInv, SleepCauses, SleepCause, CanCreate, Owned, SocketList, Unused
<1> QED
  BY <1>1, <1>2, <1>3, <1>4, <1>5 DEF SockInv

LEMMA ConnectedInv ==
    ASSUME SockInv, SockTypeOK', NEW t \in SockThreads, Connected(t)
    PROVE  SockInv'
<1> USE DEF Connected, Return, InUserMode
<1>0. /\ call' = [call EXCEPT ![t] = InUserMode]
      /\ call[t].in = "connect" /\ t \notin sleeping
      /\ UNCHANGED <<status, owner, last_thread, connection, disconnected, buffer_in,
                     accept_queue, sleeping>>
  BY DEF SockInv, CallsOwnSockets
<1>1. CallsOwnSockets' /\ AbandonedAreFreed'
  BY <1>0 DEF SockInv, SockTypeOK, CallsOwnSockets, AbandonedAreFreed
<1>2. OwnersNoted' /\ NewAreUnconnected' /\ BuffersBounded' /\ QueuedOnce'
  BY <1>0 DEF SockInv, OwnersNoted, NewAreUnconnected, BuffersBounded, QueuedOnce
<1>3. Abandoned' = Abandoned
  BY <1>0 DEF SockInv, SockTypeOK, Abandoned
<1>4. QueuesHoldConnectors'
  <2> SUFFICES ASSUME NEW a \in Sockets, NEW i \in DOMAIN accept_queue[a],
                      accept_queue[a][i] \notin Abandoned
               PROVE  accept_queue[a][i] \in Connecting' /\ connection[accept_queue[a][i]] = none
    BY <1>0, <1>3 DEF QueuesHoldConnectors
  <2> DEFINE s == accept_queue[a][i]
  <2>1. s \in Connecting /\ connection[s] = none
    BY DEF SockInv, QueuesHoldConnectors
  <2>2. PICK u \in SockThreads : call[u].in = "connect" /\ call[u].sock = s
    BY <2>1 DEF Connecting
  <2>3. u # t
    BY <2>1, <2>2
  <2>4. call'[u] = call[u]
    BY <1>0, <2>3 DEF SockInv, SockTypeOK
  <2> QED
    BY <2>1, <2>2, <2>4 DEF Connecting
<1>5. SocketsPaired'
  BY <1>0, <1>3 DEF SockInv, SocketsPaired, SocketList
<1>6. SleepCauses'
  <2> SUFFICES ASSUME NEW u \in sleeping
               PROVE  SleepCause(u)'
    BY <1>0 DEF SleepCauses
  <2>1. u # t /\ SleepCause(u)
    BY <1>0 DEF SockInv, SleepCauses
  <2>2. call'[u] = call[u]
    BY <1>0, <2>1 DEF SockInv, SockTypeOK
  <2> QED
    BY <1>0, <2>1, <2>2 DEF SleepCause, CanCreate, Owned, SocketList, Unused
<1> QED
  BY <1>1, <1>2, <1>4, <1>5, <1>6 DEF SockInv

\* syscall_socket.
LEMMA SyscallSocketInv ==
    ASSUME SockInv, SockTypeOK', NEW t \in SockThreads, SyscallSocket(t)
    PROVE  SockInv'
<1> DEFINE new == NewSocket
<1>0. /\ new \in Sockets /\ status[new] = "unused" /\ new # none
      /\ status' = [status EXCEPT ![new] = "open"]
      /\ owner' = [owner EXCEPT ![new] = t]
      /\ last_thread' = [last_thread EXCEPT ![new] = t]
      /\ UNCHANGED <<connection, disconnected, buffer_in, accept_queue, call, sleeping>>
  BY NewIsUnused, SocketAssumption DEF SockInv, SyscallSocket, CanCreate, Create
<1> HIDE DEF new
<1>1. CallsOwnSockets'
  BY <1>0 DEF SockInv, SockTypeOK, CallsOwnSockets
<1>2. OwnersNoted' /\ AbandonedAreFreed' /\ NewAreUnconnected'
  BY <1>0 DEF SockInv, SockTypeOK, OwnersNoted, AbandonedAreFreed, NewAreUnconnected
<1>3. QueuesHoldConnectors' /\ QueuedOnce' /\ BuffersBounded'
  BY <1>0 DEF SockInv, QueuesHoldConnectors, QueuedOnce, BuffersBounded, Abandoned, Connecting
<1>4. SocketsPaired'
  BY <1>0 DEF SockInv, SockTypeOK, SocketsPaired, Abandoned, SocketList, NewAreUnconnected
<1>5. SleepCauses'
  <2> SUFFICES ASSUME NEW u \in sleeping
               PROVE  SleepCause(u)'
    BY <1>0 DEF SleepCauses
  <2>1. SleepCause(u) /\ u \in SockThreads
    BY DEF SockInv, SleepCauses, SockTypeOK
  <2>2. CASE u = t
    BY <1>0, <2>2 DEF SockInv, CallsOwnSockets, SyscallSocket, InUser, InUserMode
  <2>3. CASE u # t
    <3>1. Owned(u)' = Owned(u)
      BY <1>0, <2>3 DEF SockInv, SockTypeOK, Owned, SocketList
    <3>2. Unused' \subseteq Unused
      BY <1>0 DEF SockInv, SockTypeOK, Unused
    <3>3. CanCreate(u)' => CanCreate(u)
      BY <3>1, <3>2 DEF CanCreate
    <3> QED
      BY <1>0, <2>1, <3>3 DEF SleepCause
  <2> QED
    BY <2>2, <2>3
<1> QED
  BY <1>1, <1>2, <1>3, <1>4, <1>5 DEF SockInv

\* unixsocket_connect.
LEMMA ConnectInv ==
    ASSUME SockInv, SockTypeOK', NEW t \in SockThreads, NEW s \in Owned(t),
           NEW n \in SockNames, Connect(t, s, n)
    PROVE  SockInv'
<1>0. /\ s \in Sockets /\ status[s] = "open" /\ owner[s] = t /\ last_thread[s] = t
      /\ call[t].in = "user" /\ t \notin sleeping /\ connection[s] = none
  BY OwnedFacts, UserIsActive DEF Connect, InUser, InUserMode, Active
<1>1. PICK a \in SocketList :
          /\ accept_queue' = [accept_queue EXCEPT ![a] = Append(accept_queue[a], s)]
          /\ sleeping' = Resumed(IF a = s THEN t ELSE last_thread[a], "accept")
  BY DEF Connect
<1>2. /\ call' = [call EXCEPT ![t] = [in |-> "connect", sock |-> s, byte |-> none]]
      /\ last_thread' = [last_thread EXCEPT ![s] = t]
      /\ UNCHANGED <<status, owner, connection, disconnected, buffer_in>>
  BY DEF Connect, Enter, Called
<1>3. /\ a \in Sockets /\ status[a] = "open"
      /\ sleeping' = Resumed(owner[a], "accept")
  BY <1>0, <1>1 DEF SocketList, SockInv, OwnersNoted
<1>4. sleeping' \subseteq sleeping
  BY <1>3, ResumedIsSubset
<1>5. CallsOwnSockets' /\ AbandonedAreFreed'
  BY <1>0, <1>2, <1>4 DEF SockInv, SockTypeOK, CallsOwnSockets, AbandonedAreFreed
<1>6. OwnersNoted' /\ NewAreUnconnected' /\ BuffersBounded'
  BY <1>0, <1>2 DEF SockInv, SockTypeOK, OwnersNoted, NewAreUnconnected, BuffersBounded
<1>7. Abandoned' = Abandoned
  BY <1>0, <1>2 DEF SockInv, SockTypeOK, Abandoned
<1>8. SocketsPaired'
  BY <1>2, <1>7 DEF SockInv, SocketsPaired, SocketList
<1>9. \A u \in SockThreads : u # t => call'[u] = call[u]
  BY <1>2 DEF SockInv, SockTypeOK
<1>10. s \notin Connecting \cup Abandoned
  <2>1. s \notin Connecting
    BY <1>0 DEF SockInv, CallsOwnSockets, Connecting
  <2>2. s \notin Abandoned
    BY <1>0, SocketAssumption DEF SockInv, AbandonedAreFreed, Abandoned
  <2> QED
    BY <2>1, <2>2
<1>11. \A b \in Sockets : \A i \in DOMAIN accept_queue[b] : accept_queue[b][i] # s
  BY <1>10 DEF SockInv, QueuesHoldConnectors
<1>12. \A b \in Sockets : \A i \in DOMAIN accept_queue'[b] :
          \/ i \in DOMAIN accept_queue[b] /\ accept_queue'[b][i] = accept_queue[b][i]
          \/ b = a /\ i = Len(accept_queue[a]) + 1 /\ accept_queue'[b][i] = s
  <2> SUFFICES ASSUME NEW b \in Sockets, NEW i \in DOMAIN accept_queue'[b]
               PROVE  \/ i \in DOMAIN accept_queue[b] /\ accept_queue'[b][i] = accept_queue[b][i]
                      \/ b = a /\ i = Len(accept_queue[a]) + 1 /\ accept_queue'[b][i] = s
    OBVIOUS
  <2>1. accept_queue[b] \in Seq(Sockets)
    BY DEF SockInv, SockTypeOK
  <2>2. CASE b = a
    BY <1>1, <1>3, <2>1, <2>2 DEF SockInv, SockTypeOK
  <2>3. CASE b # a
    BY <1>1, <2>3 DEF SockInv, SockTypeOK
  <2> QED
    BY <2>2, <2>3
<1>13. QueuesHoldConnectors'
  <2> SUFFICES ASSUME NEW b \in Sockets, NEW i \in DOMAIN accept_queue'[b],
                      accept_queue'[b][i] \notin Abandoned
               PROVE  /\ accept_queue'[b][i] \in Connecting'
                      /\ connection[accept_queue'[b][i]] = none
    BY <1>2, <1>7 DEF QueuesHoldConnectors
  <2>1. CASE i \in DOMAIN accept_queue[b] /\ accept_queue'[b][i] = accept_queue[b][i]
    <3> DEFINE q == accept_queue[b][i]
    <3>1. q \in Connecting /\ connection[q] = none
      BY <2>1 DEF SockInv, QueuesHoldConnectors
    <3>2. q \in Connecting'
      BY <1>0, <1>9, <3>1 DEF Connecting
    <3> QED
      BY <2>1, <3>1, <3>2
  <2>2. CASE accept_queue'[b][i] = s
    BY <1>0, <1>2, <2>2 DEF Connecting, SockInv, SockTypeOK
  <2> QED
    BY <1>12, <2>1, <2>2
<1>14. QueuedOnce'
  BY <1>11, <1>12 DEF SockInv, QueuedOnce
<1>15. SleepCauses'
  <2> SUFFICES ASSUME NEW u \in sleeping'
               PROVE  SleepCause(u)'
    BY DEF SleepCauses
  <2>1. u \in sleeping /\ u \in SockThreads /\ u # t /\ SleepCause(u)
    BY <1>0, <1>4 DEF SockInv, SockTypeOK, SleepCauses
  <2>2. call'[u] = call[u]
    BY <1>9, <2>1
  <2>3. call[u].in = "accept" => call[u].sock \in Sockets /\ call[u].sock # a
    <3> SUFFICES ASSUME call[u].in = "accept", call[u].sock = a
                 PROVE  FALSE
      BY <2>1 DEF SockInv, CallsOwnSockets
    <3>1. owner[a] = u /\ u # none
      BY <2>1, SocketAssumption DEF SockInv, CallsOwnSockets
    <3>2. sleeping' = sleeping \ {u}
      BY <1>3, <2>1, <3>1 DEF Resumed
    <3> QED
      BY <3>2
  <2>4. call[u].in = "accept" => accept_queue'[call[u].sock] = accept_queue[call[u].sock]
    BY <1>1, <2>3 DEF SockInv, SockTypeOK
  <2>5. CanCreate(u)' = CanCreate(u)
    BY <1>2 DEF CanCreate, Owned, SocketList, Unused
  <2> QED
    BY <1>2, <2>1, <2>2, <2>4, <2>5 DEF SleepCause
<1> QED
  BY <1>5, <1>6, <1>8, <1>13, <1>14, <1>15 DEF SockInv

\* A socket that is freed was abandoned, and one whose thread is in connect is
\* open and is nobody else's.
LEMMA SocketFacts ==
    ASSUME SockInv
    PROVE  /\ \A x \in Abandoned : x = none \/ status[x] = "freed"
           /\ \A x \in Connecting : x \in Sockets /\ status[x] = "open"
           /\ \A x \in Connecting, u \in sleeping : call[u].sock # x
<1>1. \A x \in Abandoned : x = none \/ status[x] = "freed"
  BY DEF SockInv, AbandonedAreFreed, Abandoned
<1>2. \A x \in Connecting : x \in Sockets /\ status[x] = "open"
  BY DEF SockInv, CallsOwnSockets, Connecting
<1>3. ASSUME NEW x \in Connecting, NEW u \in sleeping, call[u].sock = x
      PROVE  FALSE
  <2>1. u \in SockThreads /\ call[u].in \in {"accept", "send", "recv"} /\ owner[x] = u
    BY <1>3 DEF SockInv, SockTypeOK, CallsOwnSockets
  <2>2. PICK w \in SockThreads : call[w].in = "connect" /\ call[w].sock = x
    BY DEF Connecting
  <2>3. owner[x] = w
    BY <2>2 DEF SockInv, CallsOwnSockets
  <2> QED
    BY <2>1, <2>2, <2>3
<1> QED
  BY <1>1, <1>2, <1>3

LEMMA SleeperFacts ==
    ASSUME SockInv, NEW u \in sleeping
    PROVE  /\ u \in SockThreads /\ call[u].in \in {"accept", "send", "recv"}
           /\ call[u].sock \in Sockets /\ status[call[u].sock] = "open"
           /\ owner[call[u].sock] = u /\ SleepCause(u)
  BY DEF SockInv, SockTypeOK, CallsOwnSockets, SleepCauses

\* accept takes the first of its queue.
LEMMA AcceptsInv ==
    ASSUME SockInv, SockTypeOK', NEW t \in SockThreads, NEW s \in Owned(t), Active(t),
           Accepts(t, s), UNCHANGED <<disconnected, buffer_in>>
    PROVE  SockInv'
<1> DEFINE new == NewSocket
           end == Head(accept_queue[s])
<1>0. /\ s \in Sockets /\ status[s] = "open" /\ owner[s] = t /\ last_thread[s] = t
      /\ t \notin sleeping /\ call[t].in \in {"user", "accept", "send", "recv"}
  BY OwnedFacts DEF Active
<1>1. /\ new \in Sockets /\ status[new] = "unused" /\ new # none /\ new # s
      /\ connection[new] = none
  BY <1>0, NewIsUnused, SocketAssumption DEF SockInv, Accepts, NewAreUnconnected
<1>2. /\ accept_queue[s] # <<>>
      /\ accept_queue' = [accept_queue EXCEPT ![s] = Tail(accept_queue[s])]
      /\ status' = [status EXCEPT ![new] = "open"]
      /\ owner' = [owner EXCEPT ![new] = t]
      /\ last_thread' = [last_thread EXCEPT ![s] = t, ![new] = t]
      /\ connection' = [connection EXCEPT ![new] = end, ![end] = new]
      /\ call' = [call EXCEPT ![t] = InUserMode]
      /\ UNCHANGED <<sleeping, disconnected, buffer_in>>
  BY DEF Accepts
<1>3. accept_queue[s] \in Seq(Sockets) /\ 1 \in DOMAIN accept_queue[s]
      /\ end = accept_queue[s][1] /\ end \in Sockets
  BY <1>0, <1>2 DEF SockInv, SockTypeOK
<1>4. end \in Abandoned \/ (end \in Connecting /\ connection[end] = none)
  BY <1>0, <1>3 DEF SockInv, QueuesHoldConnectors
<1> HIDE DEF new, end
<1>5. end # none /\ status[end] \in {"open", "freed"} /\ end # new
  BY <1>1, <1>3, <1>4, SocketFacts, SocketAssumption
<1>6. /\ status'[new] = "open" /\ \A x \in Sockets \ {new} : status'[x] = status[x]
      /\ owner'[new] = t /\ \A x \in Sockets \ {new} : owner'[x] = owner[x]
      /\ last_thread'[new] = t /\ \A x \in Sockets \ {new} : last_thread'[x] = last_thread[x]
      /\ connection'[new] = end /\ connection'[end] = new
      /\ \A x \in Sockets \ {new, end} : connection'[x] = connection[x]
  BY <1>0, <1>1, <1>2, <1>3, <1>5 DEF SockInv, SockTypeOK
<1>7. call'[t] = InUserMode /\ \A u \in SockThreads \ {t} : call'[u] = call[u]
  BY <1>2 DEF SockInv, SockTypeOK
<1>8. Abandoned' = Abandoned /\ Connecting' = Connecting
  BY <1>0, <1>7 DEF Abandoned, Connecting, InUserMode
<1>9. CallsOwnSockets'
  BY <1>0, <1>1, <1>2, <1>6, <1>7 DEF SockInv, CallsOwnSockets, InUserMode
<1>10. OwnersNoted'
  BY <1>6 DEF SockInv, OwnersNoted
<1>11. AbandonedAreFreed'
  <2> SUFFICES ASSUME NEW u \in SockThreads, call'[u].in = "ended", call'[u].sock # none
               PROVE  status'[call'[u].sock] = "freed"
    BY DEF AbandonedAreFreed
  <2>1. u # t /\ call'[u] = call[u]
    BY <1>7 DEF InUserMode
  <2>2. call[u].sock \in Sockets /\ status[call[u].sock] = "freed"
    BY <2>1 DEF SockInv, SockTypeOK, AbandonedAreFreed
  <2> QED
    BY <1>1, <1>6, <2>1, <2>2
<1>12. NewAreUnconnected'
  BY <1>1, <1>5, <1>6 DEF SockInv, NewAreUnconnected
<1>13. BuffersBounded'
  BY <1>2 DEF SockInv, BuffersBounded
<1>14. \A b \in Sockets : \A i \in DOMAIN accept_queue'[b] :
          \/ b # s /\ i \in DOMAIN accept_queue[b]
             /\ accept_queue'[b][i] = accept_queue[b][i]
          \/ b = s /\ i \in Nat \ {0} /\ i + 1 \in DOMAIN accept_queue[b]
             /\ accept_queue'[b][i] = accept_queue[b][i + 1]
  <2> SUFFICES ASSUME NEW b \in Sockets, NEW i \in DOMAIN accept_queue'[b]
               PROVE  \/ b # s /\ i \in DOMAIN accept_queue[b]
                         /\ accept_queue'[b][i] = accept_queue[b][i]
                      \/ b = s /\ i \in Nat \ {0} /\ i + 1 \in DOMAIN accept_queue[b]
                         /\ accept_queue'[b][i] = accept_queue[b][i + 1]
    OBVIOUS
  <2>1. CASE b = s
    BY <1>0, <1>2, <1>3, <2>1, SMTT(20) DEF SockInv, SockTypeOK
  <2>2. CASE b # s
    BY <1>2, <2>2 DEF SockInv, SockTypeOK
  <2> QED
    BY <2>1, <2>2
<1>15. \A b \in Sockets : \A i \in DOMAIN accept_queue'[b] :
          \E j \in DOMAIN accept_queue[b] : accept_queue'[b][i] = accept_queue[b][j] /\ (b = s => j # 1)
  BY <1>14
<1>16. QueuesHoldConnectors'
  <2> SUFFICES ASSUME NEW b \in Sockets, NEW i \in DOMAIN accept_queue'[b]
               PROVE  \/ accept_queue'[b][i] \in Abandoned
                      \/ accept_queue'[b][i] \in Connecting /\ connection'[accept_queue'[b][i]] = none
    BY <1>8 DEF QueuesHoldConnectors
  <2>1. PICK j \in DOMAIN accept_queue[b] :
           accept_queue'[b][i] = accept_queue[b][j] /\ (b = s => j # 1)
    BY <1>15
  <2> DEFINE x == accept_queue[b][j]
  <2>2. x \in Abandoned \/ (x \in Connecting /\ connection[x] = none)
    BY DEF SockInv, QueuesHoldConnectors
  <2>3. x # end
    BY <1>0, <1>3, <2>1 DEF SockInv, QueuedOnce
  <2>4. x \in Connecting => x \in Sockets \ {new, end}
    BY <1>1, <2>3, SocketFacts
  <2> QED
    BY <1>6, <2>1, <2>2, <2>4
<1>17. QueuedOnce'
  <2> SUFFICES ASSUME NEW b \in Sockets, NEW c \in Sockets,
                      NEW i \in DOMAIN accept_queue'[b], NEW j \in DOMAIN accept_queue'[c],
                      accept_queue'[b][i] = accept_queue'[c][j]
               PROVE  b = c /\ i = j
    BY DEF QueuedOnce
  <2> QED
    BY <1>14 DEF SockInv, QueuedOnce
<1>18. SocketsPaired'
  <2> SUFFICES ASSUME NEW y \in Sockets, status'[y] = "open",
                      connection'[y] \notin Abandoned \cup {none}
               PROVE  /\ status'[connection'[y]] = "open"
                      /\ connection'[connection'[y]] = y
    BY <1>8 DEF SocketsPaired, SocketList
  <2>1. CASE y = new
    BY <1>4, <1>5, <1>6, <2>1, <1>3, SocketFacts
  <2>2. CASE y = end
    BY <1>6, <2>2
  <2>3. CASE y \notin {new, end}
    <3>1. status[y] = "open" /\ connection'[y] = connection[y] /\ connection[y] \in Sockets
      BY <1>6, <2>3 DEF SockInv, SockTypeOK
    <3>2. status[connection[y]] = "open" /\ connection[connection[y]] = y
      BY <3>1 DEF SockInv, SocketsPaired, SocketList
    <3>3. connection[y] # new /\ connection[y] # end
      BY <1>1, <1>4, <3>1, <3>2, SocketAssumption, SocketFacts
    <3> QED
      BY <1>6, <3>1, <3>2, <3>3
  <2> QED
    BY <2>1, <2>2, <2>3
<1>19. SleepCauses'
  <2> SUFFICES ASSUME NEW u \in sleeping
               PROVE  SleepCause(u)'
    BY <1>2 DEF SleepCauses
  <2> DEFINE x == call[u].sock
  <2>1. /\ u # t /\ u \in SockThreads /\ x \in Sockets /\ status[x] = "open" /\ owner[x] = u
        /\ SleepCause(u)
    BY <1>0, SleeperFacts
  <2>2. x # new /\ x # s
    BY <1>0, <1>1, <2>1
  <2>3. x # end
    BY <1>4, <2>1, SocketFacts, SocketAssumption
  <2>4. call'[u] = call[u] /\ connection'[x] = connection[x]
        /\ accept_queue'[x] = accept_queue[x]
    BY <1>2, <1>6, <1>7, <2>1, <2>2, <2>3 DEF SockInv, SockTypeOK
  <2>5. CanCreate(u)' => CanCreate(u)
    <3>1. Owned(u)' = Owned(u)
      BY <1>1, <1>6, <2>1 DEF Owned, SocketList
    <3>2. Unused' \subseteq Unused
      BY <1>6 DEF Unused
    <3> QED
      BY <3>1, <3>2 DEF CanCreate
  <2> QED
    BY <1>2, <2>1, <2>4, <2>5 DEF SleepCause
<1> QED
  BY <1>9, <1>10, <1>11, <1>12, <1>13, <1>16, <1>17, <1>18, <1>19 DEF SockInv

\* accept halts, and forgets the first of its queue when it has no descriptor.
LEMMA AcceptSleepsInv ==
    ASSUME SockInv, SockTypeOK', NEW t \in SockThreads, NEW s \in Owned(t), Active(t),
           AcceptSleeps(t, s), UNCHANGED <<disconnected, buffer_in>>
    PROVE  SockInv'
<1>0. /\ s \in Sockets /\ status[s] = "open" /\ owner[s] = t /\ last_thread[s] = t
      /\ t \notin sleeping /\ call[t].in \in {"user", "accept", "send", "recv"}
  BY OwnedFacts DEF Active
<1>1. /\ last_thread' = [last_thread EXCEPT ![s] = t]
      /\ call' = [call EXCEPT ![t] = [in |-> "accept", sock |-> s, byte |-> none]]
      /\ sleeping' = sleeping \cup {t}
      /\ UNCHANGED <<status, owner, connection, disconnected, buffer_in>>
  BY DEF AcceptSleeps, Sleeps
<1>2. /\ call'[t] = [in |-> "accept", sock |-> s, byte |-> none]
      /\ \A u \in SockThreads \ {t} : call'[u] = call[u]
  BY <1>1 DEF SockInv, SockTypeOK
<1>3. Abandoned' = Abandoned /\ Connecting' = Connecting
  BY <1>0, <1>2 DEF Abandoned, Connecting
<1>4. CallsOwnSockets'
  BY <1>0, <1>1, <1>2 DEF SockInv, CallsOwnSockets, SockTypeOK
<1>5. AbandonedAreFreed'
  BY <1>0, <1>1, <1>2 DEF SockInv, AbandonedAreFreed
<1>6. OwnersNoted' /\ NewAreUnconnected' /\ BuffersBounded'
  BY <1>0, <1>1 DEF SockInv, SockTypeOK, OwnersNoted, NewAreUnconnected, BuffersBounded
<1>7. SocketsPaired'
  BY <1>1, <1>3 DEF SockInv, SocketsPaired, SocketList
<1>8. \A b \in Sockets \ {s} : accept_queue'[b] = accept_queue[b]
  BY DEF AcceptSleeps, SockInv, SockTypeOK
<1>9. \/ accept_queue' = accept_queue
      \/ /\ accept_queue[s] \in Seq(Sockets) /\ accept_queue[s] # <<>>
         /\ accept_queue'[s] = Tail(accept_queue[s])
  BY <1>0 DEF AcceptSleeps, SockInv, SockTypeOK
<1>10. \/ accept_queue' = accept_queue
       \/ \A i \in DOMAIN accept_queue'[s] :
             /\ i \in Nat \ {0} /\ i + 1 \in DOMAIN accept_queue[s]
             /\ accept_queue'[s][i] = accept_queue[s][i + 1]
  <2>1. CASE accept_queue[s] \in Seq(Sockets) /\ accept_queue[s] # <<>>
             /\ accept_queue'[s] = Tail(accept_queue[s])
    BY <2>1
  <2> QED
    BY <1>9, <2>1
<1>11. QueuesHoldConnectors'
  <2> SUFFICES ASSUME NEW b \in Sockets, NEW i \in DOMAIN accept_queue'[b]
               PROVE  \/ accept_queue'[b][i] \in Abandoned
                      \/ accept_queue'[b][i] \in Connecting /\ connection[accept_queue'[b][i]] = none
    BY <1>1, <1>3 DEF QueuesHoldConnectors
  <2>1. \E j \in DOMAIN accept_queue[b] : accept_queue'[b][i] = accept_queue[b][j]
    BY <1>8, <1>10
  <2> QED
    BY <2>1 DEF SockInv, QueuesHoldConnectors
<1>12. QueuedOnce'
  <2> SUFFICES ASSUME NEW b \in Sockets, NEW c \in Sockets,
                      NEW i \in DOMAIN accept_queue'[b], NEW j \in DOMAIN accept_queue'[c],
                      accept_queue'[b][i] = accept_queue'[c][j]
               PROVE  b = c /\ i = j
    BY DEF QueuedOnce
  <2>1. CASE accept_queue' = accept_queue
    BY <2>1 DEF SockInv, QueuedOnce
  <2>2. CASE \A k \in DOMAIN accept_queue'[s] :
                /\ k \in Nat \ {0} /\ k + 1 \in DOMAIN accept_queue[s]
                /\ accept_queue'[s][k] = accept_queue[s][k + 1]
    BY <1>0, <1>8, <2>2 DEF SockInv, QueuedOnce
  <2> QED
    BY <1>10, <2>1, <2>2
<1>13. SleepCauses'
  <2> SUFFICES ASSUME NEW u \in sleeping'
               PROVE  SleepCause(u)'
    BY DEF SleepCauses
  <2>0. CanCreate(u)' = CanCreate(u)
    BY <1>1 DEF CanCreate, Owned, SocketList, Unused
  <2>1. CASE u = t
    <3>1. accept_queue'[s] = <<>> \/ ~CanCreate(t)
      BY DEF AcceptSleeps
    <3> QED
      BY <1>2, <2>0, <2>1, <3>1 DEF SleepCause
  <2>2. CASE u # t
    <3>1. /\ u \in SockThreads /\ call[u].sock \in Sockets \ {s} /\ SleepCause(u)
      BY <1>0, <1>1, <2>2, SleeperFacts
    <3> QED
      BY <1>1, <1>2, <1>8, <2>0, <2>2, <3>1 DEF SleepCause
  <2> QED
    BY <2>1, <2>2
<1> QED
  BY <1>4, <1>5, <1>6, <1>7, <1>11, <1>12, <1>13 DEF SockInv

\* send and recv: a pass that returns, one that moves a byte and one that halts.
LEMMA TransferInv ==
    ASSUME SockInv, SockTypeOK', NEW t \in SockThreads, NEW s \in Owned(t),
           TransferStep(t, s)
    PROVE  SockInv'
<1>0. /\ s \in Sockets /\ status[s] = "open" /\ owner[s] = t /\ last_thread[s] = t
      /\ t \notin sleeping /\ call[t].in \in {"user", "accept", "send", "recv"}
  BY OwnedFacts DEF TransferStep, Active
<1>1. /\ last_thread' = last_thread
      /\ UNCHANGED <<status, owner, connection, disconnected, accept_queue>>
  BY <1>0 DEF TransferStep, Touches, SockInv, SockTypeOK
<1>2. PICK b \in SockData \cup {none} :
         \/ ReturnsOnly(t)
         \/ b \in SockData /\ (Sends(t, s, b) \/ SendSleeps(t, s, b))
         \/ Receives(t, s) \/ RecvSleeps(t, s)
  BY SendOutcomes, RecvOutcomes DEF TransferStep
<1>3. \/ call'[t] = InUserMode /\ sleeping' \subseteq sleeping
      \/ /\ UNCHANGED buffer_in /\ sleeping' = sleeping \cup {t}
         /\ \/ /\ b \in SockData /\ call'[t] = [in |-> "send", sock |-> s, byte |-> b]
               /\ connection[s] # none
               /\ ~(Len(buffer_in[connection[s]]) < SockBufferSize)
            \/ /\ call'[t] = [in |-> "recv", sock |-> s, byte |-> none]
               /\ buffer_in[s] = <<>>
  BY <1>2, ResumedIsSubset
     DEF ReturnsOnly, Sends, SendSleeps, Receives, RecvSleeps, Returns, Sleeps,
         SockInv, SockTypeOK
<1>4. \A u \in SockThreads \ {t} : call'[u] = call[u]
  BY <1>2 DEF ReturnsOnly, Sends, SendSleeps, Receives, RecvSleeps, Returns, Sleeps,
              SockInv, SockTypeOK
<1>5. Abandoned' = Abandoned /\ Connecting' = Connecting
  BY <1>0, <1>3, <1>4 DEF Abandoned, Connecting, InUserMode
<1>6. CallsOwnSockets'
  <2>1. ASSUME NEW u \in SockThreads, call'[u].in \in {"accept", "connect", "send", "recv"}
        PROVE  /\ call'[u].sock \in Sockets /\ status[call'[u].sock] = "open"
               /\ owner[call'[u].sock] = u
               /\ call'[u].in = "send" => call'[u].byte \in SockData
    <3>1. CASE u = t
      BY <1>0, <1>3, <2>1, <3>1 DEF InUserMode
    <3>2. CASE u # t
      BY <1>4, <2>1, <3>2 DEF SockInv, CallsOwnSockets
    <3> QED
      BY <3>1, <3>2
  <2>2. ASSUME NEW u \in sleeping'
        PROVE  call'[u].in \in {"accept", "send", "recv"}
    <3>1. CASE u = t
      BY <1>0, <1>3, <2>2, <3>1
    <3>2. CASE u # t
      BY <1>3, <1>4, <2>2, <3>2, SleeperFacts
    <3> QED
      BY <3>1, <3>2
  <2> QED
    BY <1>1, <2>1, <2>2 DEF CallsOwnSockets
<1>7. AbandonedAreFreed'
  BY <1>0, <1>1, <1>3, <1>4 DEF SockInv, AbandonedAreFreed, InUserMode
<1>8. OwnersNoted' /\ NewAreUnconnected' /\ QueuesHoldConnectors' /\ QueuedOnce'
  BY <1>1, <1>5
     DEF SockInv, OwnersNoted, NewAreUnconnected, QueuesHoldConnectors, QueuedOnce
<1>9. SocketsPaired'
  BY <1>1, <1>5 DEF SockInv, SocketsPaired, SocketList
<1>10. BuffersBounded'
  <2> SUFFICES ASSUME NEW x \in Sockets
               PROVE  Len(buffer_in'[x]) <= SockBufferSize
    BY DEF BuffersBounded
  <2>0. buffer_in[x] \in Seq(SockData) /\ Len(buffer_in[x]) <= SockBufferSize
    BY DEF SockInv, SockTypeOK, BuffersBounded
  <2>1. CASE buffer_in' = buffer_in
    BY <2>0, <2>1
  <2>2. CASE b \in SockData /\ Sends(t, s, b)
    <3>1. x # connection[s] => buffer_in'[x] = buffer_in[x]
      BY <2>2 DEF Sends, SockInv, SockTypeOK
    <3>2. x = connection[s] => buffer_in'[x] = Append(buffer_in[x], b)
                               /\ Len(buffer_in[x]) < SockBufferSize
      BY <2>2 DEF Sends, SockInv, SockTypeOK
    <3> QED
      BY <2>0, <2>2, <3>1, <3>2, SocketAssumption
  <2>3. CASE Receives(t, s)
    <3>1. x # s => buffer_in'[x] = buffer_in[x]
      BY <2>3 DEF Receives, SockInv, SockTypeOK
    <3>2. x = s => buffer_in'[x] = Tail(buffer_in[x]) /\ buffer_in[x] # <<>>
      BY <2>3 DEF Receives, SockInv, SockTypeOK
    <3>3. CASE x = s
      <4>1. Len(buffer_in[x]) \in Nat /\ Len(Tail(buffer_in[x])) = Len(buffer_in[x]) - 1
        BY <2>0, <3>2, <3>3
      <4>2. Len(buffer_in[x]) - 1 <= SockBufferSize
        BY <2>0, <4>1, SocketAssumption
      <4>3. buffer_in'[x] = Tail(buffer_in[x])
        BY <3>2, <3>3
      <4> QED
        BY <4>1, <4>2, <4>3
    <3> QED
      BY <2>0, <3>1, <3>3
  <2> QED
    BY <1>2, <2>1, <2>2, <2>3 DEF ReturnsOnly, SendSleeps, RecvSleeps
<1>11. SleepCauses'
  <2> SUFFICES ASSUME NEW u \in sleeping'
               PROVE  SleepCause(u)'
    BY DEF SleepCauses
  <2>0. CanCreate(u)' = CanCreate(u)
    BY <1>1 DEF CanCreate, Owned, SocketList, Unused
  <2>1. CASE u = t
    <3>1. connection[s] # none => Len(buffer_in[connection[s]]) \in Nat
                               /\ Len(buffer_in[connection[s]]) <= SockBufferSize
      BY <1>0 DEF SockInv, SockTypeOK, BuffersBounded
    <3> QED
      BY <1>0, <1>1, <1>3, <2>1, <3>1, SocketAssumption DEF SleepCause
  <2>2. CASE u # t
    <3> DEFINE x == call[u].sock
    <3>1. u \in sleeping /\ call'[u] = call[u]
      BY <1>3, <1>4, <2>2 DEF SockInv, SockTypeOK
    <3>2. /\ u \in SockThreads /\ x \in Sockets \ {s} /\ status[x] = "open"
          /\ owner[x] = u /\ last_thread[x] = u /\ SleepCause(u)
          /\ call[u].in \in {"accept", "send", "recv"}
      BY <1>0, <2>2, <3>1, SleeperFacts DEF SockInv, OwnersNoted
    <3>3. CASE buffer_in' = buffer_in
      BY <1>1, <2>0, <3>1, <3>2, <3>3 DEF SleepCause
    <3>4. CASE b \in SockData /\ Sends(t, s, b)
      <4> DEFINE p == connection[s]
      <4>1. p \in Sockets /\ \A y \in Sockets : y # p => buffer_in'[y] = buffer_in[y]
        BY <1>0, <3>4 DEF Sends, SockInv, SockTypeOK
      <4>2. CASE call[u].in = "recv"
        <5>1. x # p
          <6> SUFFICES ASSUME x = p PROVE FALSE
            OBVIOUS
          <6>1. sleeping' = sleeping \ {u}
            BY <3>1, <3>2, <3>4, <4>2, SocketAssumption DEF Sends, Resumed
          <6> QED
            BY <6>1
        <5> QED
          BY <1>1, <3>1, <3>2, <4>1, <4>2, <5>1 DEF SleepCause
      <4>3. CASE call[u].in = "send"
        <5>1. connection[x] # none => connection[x] # p
          <6> SUFFICES ASSUME connection[x] # none, connection[x] = p PROVE FALSE
            OBVIOUS
          <6>1. Len(buffer_in[p]) = SockBufferSize
            BY <3>2, <4>3 DEF SleepCause
          <6> QED
            BY <3>4, <6>1, SocketAssumption DEF Sends
        <5> QED
          BY <1>1, <3>1, <3>2, <4>1, <4>3, <5>1 DEF SleepCause, SockInv, SockTypeOK
      <4>4. CASE call[u].in = "accept"
        BY <1>1, <2>0, <3>1, <3>2, <4>4 DEF SleepCause
      <4> QED
        BY <3>2, <4>2, <4>3, <4>4
    <3>5. CASE Receives(t, s)
      <4>1. \A y \in Sockets : y # s => buffer_in'[y] = buffer_in[y]
        BY <1>0, <3>5 DEF Receives, SockInv, SockTypeOK
      <4>2. CASE call[u].in = "recv"
        BY <1>1, <3>1, <3>2, <4>1, <4>2 DEF SleepCause
      <4>3. CASE call[u].in = "send"
        <5>1. connection[x] # s
          <6> SUFFICES ASSUME connection[x] = s PROVE FALSE
            OBVIOUS
          <6>1. s \notin Abandoned \cup {none}
            BY <1>0, SocketFacts, SocketAssumption
          <6>2. connection[s] = x
            BY <3>2, <6>1 DEF SockInv, SocketsPaired, SocketList
          <6>3. sleeping' = sleeping \ {u}
            BY <3>1, <3>2, <3>5, <4>3, <6>2, SocketAssumption DEF Receives, Resumed
          <6> QED
            BY <6>3
        <5> QED
          BY <1>1, <3>1, <3>2, <4>1, <4>3, <5>1 DEF SleepCause, SockInv, SockTypeOK
      <4>4. CASE call[u].in = "accept"
        BY <1>1, <2>0, <3>1, <3>2, <4>4 DEF SleepCause
      <4> QED
        BY <3>2, <4>2, <4>3, <4>4
    <3> QED
      BY <1>2, <3>3, <3>4, <3>5 DEF ReturnsOnly, SendSleeps, RecvSleeps
  <2> QED
    BY <2>1, <2>2
<1> QED
  BY <1>6, <1>7, <1>8, <1>9, <1>10, <1>11 DEF SockInv

\* close and the end of a process: the sockets closing are freed.
Frees(t, closing) ==
    /\ \A s \in closing : status'[s] = "freed"
    /\ \A s \in Sockets \ closing : status'[s] = status[s]
    /\ \A s \in Sockets : connection'[s] = IF connection[s] \in closing THEN none
                                           ELSE connection[s]
    /\ disconnected \subseteq disconnected'
    /\ UNCHANGED <<owner, last_thread, buffer_in, accept_queue>>

LEMMA FreesInv ==
    ASSUME SockInv, SockTypeOK', NEW t \in SockThreads, NEW closing \in SUBSET Owned(t),
           Frees(t, closing),
           \A u \in SockThreads \ {t} : call'[u] = call[u],
           sleeping' \subseteq sleeping \ {t},
           \/ call'[t].in = "user" /\ call[t].in = "user"
           \/ /\ call'[t].in = "ended" /\ call[t].in # "ended" /\ closing = Owned(t)
              /\ call'[t].sock = IF call[t].in = "connect" THEN call[t].sock ELSE none
    PROVE  SockInv'
<1>0. \A s \in closing : s \in Sockets /\ status[s] = "open" /\ owner[s] = t
  BY OwnedFacts
<1>1. /\ \A s \in Sockets : status'[s] \in {status[s], "freed"}
      /\ \A s \in Sockets : owner[s] # t => status'[s] = status[s]
      /\ \A s \in Sockets : status[s] = "freed" => status'[s] = "freed"
      /\ UNCHANGED <<owner, last_thread, buffer_in, accept_queue>>
  BY <1>0 DEF Frees
<1>2. /\ \A s \in Sockets : connection'[s] \in {connection[s], none}
      /\ \A s \in Sockets : connection'[s] \notin closing
  BY <1>0, SocketAssumption DEF Frees
<1>3. CallsOwnSockets'
  <2>1. ASSUME NEW u \in SockThreads, call'[u].in \in {"accept", "connect", "send", "recv"}
        PROVE  /\ call'[u].sock \in Sockets /\ status'[call'[u].sock] = "open"
               /\ owner[call'[u].sock] = u
               /\ call'[u].in = "send" => call'[u].byte \in SockData
    BY <1>0, <1>1, <2>1 DEF SockInv, CallsOwnSockets
  <2>2. ASSUME NEW u \in sleeping'
        PROVE  call'[u].in \in {"accept", "send", "recv"}
    BY <2>2, SleeperFacts
  <2> QED
    BY <1>1, <2>1, <2>2 DEF CallsOwnSockets
<1>4. OwnersNoted' /\ BuffersBounded' /\ QueuedOnce'
  BY <1>1 DEF SockInv, SockTypeOK, OwnersNoted, BuffersBounded, QueuedOnce
<1>5. AbandonedAreFreed'
  <2> SUFFICES ASSUME NEW u \in SockThreads, call'[u].in = "ended", call'[u].sock # none
               PROVE  status'[call'[u].sock] = "freed"
    BY DEF AbandonedAreFreed
  <2>1. CASE u # t
    <3>1. call[u].sock \in Sockets /\ status[call[u].sock] = "freed"
      BY <2>1 DEF SockInv, SockTypeOK, AbandonedAreFreed
    <3> QED
      BY <1>1, <2>1, <3>1
  <2>2. CASE u = t
    <3>1. call[t].in = "connect" /\ call'[t].sock = call[t].sock /\ closing = Owned(t)
      BY <2>2
    <3>2. call[t].sock \in Owned(t)
      BY <3>1 DEF SockInv, CallsOwnSockets, Owned, SocketList
    <3> QED
      BY <2>2, <3>1, <3>2 DEF Frees
  <2> QED
    BY <2>1, <2>2
<1>6. NewAreUnconnected'
  BY <1>1, <1>2 DEF SockInv, NewAreUnconnected
<1>7. Abandoned \subseteq Abandoned' /\ \A x \in Connecting : x \in Connecting' \cup Abandoned'
  <2>1. ASSUME NEW u \in SockThreads, call[u].in = "ended"
        PROVE  call[u].sock \in Abandoned'
    <3>1. u # t /\ call'[u] = call[u]
      BY <2>1
    <3> QED
      BY <2>1, <3>1 DEF Abandoned
  <2>2. ASSUME NEW u \in SockThreads, call[u].in = "connect"
        PROVE  call[u].sock \in Connecting' \cup Abandoned'
    <3>1. CASE u = t
      BY <2>2, <3>1 DEF Abandoned
    <3>2. CASE u # t
      BY <2>2, <3>2 DEF Connecting
    <3> QED
      BY <3>1, <3>2
  <2> QED
    BY <2>1, <2>2 DEF Abandoned, Connecting
<1>8. QueuesHoldConnectors'
  <2> SUFFICES ASSUME NEW b \in Sockets, NEW i \in DOMAIN accept_queue[b]
               PROVE  \/ accept_queue[b][i] \in Abandoned'
                      \/ accept_queue[b][i] \in Connecting' /\ connection'[accept_queue[b][i]] = none
    BY <1>1 DEF QueuesHoldConnectors
  <2> DEFINE x == accept_queue[b][i]
  <2>1. x \in Abandoned \/ (x \in Connecting /\ connection[x] = none)
    BY DEF SockInv, QueuesHoldConnectors
  <2>2. x \in Connecting => x \in Sockets
    BY SocketFacts
  <2> QED
    BY <1>2, <1>7, <2>1, <2>2
<1>9. SocketsPaired'
  <2> SUFFICES ASSUME NEW y \in Sockets, status'[y] = "open",
                      connection'[y] \notin Abandoned' \cup {none}
               PROVE  /\ status'[connection'[y]] = "open"
                      /\ connection'[connection'[y]] = y
    BY DEF SocketsPaired, SocketList
  <2>1. /\ status[y] = "open" /\ y \notin closing /\ connection'[y] = connection[y]
        /\ connection[y] \in Sockets \ closing
    BY <1>1, <1>2 DEF Frees, SockInv, SockTypeOK
  <2>2. status[connection[y]] = "open" /\ connection[connection[y]] = y
    BY <1>7, <2>1 DEF SockInv, SocketsPaired, SocketList
  <2> QED
    BY <2>1, <2>2 DEF Frees
<1>10. SleepCauses'
  <2> SUFFICES ASSUME NEW u \in sleeping'
               PROVE  SleepCause(u)'
    BY DEF SleepCauses
  <2> DEFINE x == call[u].sock
  <2>1. /\ u \in SockThreads /\ u # t /\ x \in Sockets /\ call'[u] = call[u] /\ SleepCause(u)
    BY SleeperFacts
  <2>2. CanCreate(u)' => CanCreate(u)
    <3>1. Owned(u)' = Owned(u)
      BY <1>0, <1>1, <2>1 DEF Owned, SocketList
    <3>2. Unused' \subseteq Unused
      BY <1>1 DEF Unused
    <3> QED
      BY <3>1, <3>2 DEF CanCreate
  <2> QED
    BY <1>1, <1>2, <2>1, <2>2 DEF SleepCause, Frees
<1> QED
  BY <1>3, <1>4, <1>5, <1>6, <1>8, <1>9, <1>10 DEF SockInv

LEMMA CloseInv ==
    ASSUME SockInv, SockTypeOK', NEW t \in SockThreads, NEW s \in Owned(t), SocketClose(t, s)
    PROVE  SockInv'
<1>1. Frees(t, {s})
  BY OwnedFacts DEF SocketClose, Freed, Frees
<1>2. call[t].in = "user" /\ UNCHANGED <<call, sleeping>> /\ t \notin sleeping
  BY UserIsActive DEF SocketClose, InUser, InUserMode, Active
<1> QED
  BY <1>1, <1>2, FreesInv

LEMMA EndInv ==
    ASSUME SockInv, SockTypeOK', NEW t \in SockThreads, End(t)
    PROVE  SockInv'
<1>1. Frees(t, Owned(t))
  BY OwnedFacts DEF End, Freed, Frees
<1>2. /\ call' = [call EXCEPT ![t] =
                     [in |-> "ended", byte |-> none,
                      sock |-> IF call[t].in = "connect" THEN call[t].sock ELSE none]]
      /\ call[t].in # "ended" /\ sleeping' = sleeping \ {t}
  BY DEF End, Enter
<1>3. /\ call'[t].in = "ended"
      /\ call'[t].sock = IF call[t].in = "connect" THEN call[t].sock ELSE none
      /\ \A u \in SockThreads \ {t} : call'[u] = call[u]
  BY <1>2 DEF SockInv, SockTypeOK
<1> QED
  BY <1>1, <1>2, <1>3, FreesInv

-----------------------------------------------------------------------------
(* UNIX domain sockets: the theorems *)

LEMMA SockStep ==
    ASSUME SockInv, [SockNext]_sockVars
    PROVE  SockInv'
<1>1. CASE SockNext
  <2>1. SockTypeOK'
    BY <1>1, SockTypeStep
  <2>2. PICK t \in SockThreads :
              \/ SyscallSocket(t) \/ Connected(t) \/ End(t)
              \/ \E s \in Owned(t) :
                    \/ NoteStep(t, s) \/ AcceptStep(t, s) \/ TransferStep(t, s)
                    \/ SocketClose(t, s)
                    \/ \E n \in SockNames : Connect(t, s, n)
    BY <1>1, SockSteps
  <2>3. CASE SyscallSocket(t) \/ Connected(t) \/ End(t)
    BY <2>1, <2>3, SyscallSocketInv, ConnectedInv, EndInv
  <2>4. ASSUME NEW s \in Owned(t), NoteStep(t, s) \/ TransferStep(t, s) \/ SocketClose(t, s)
        PROVE  SockInv'
    BY <2>1, <2>4, NoteInv, TransferInv, CloseInv
  <2>5. ASSUME NEW s \in Owned(t), AcceptStep(t, s)
        PROVE  SockInv'
    <3>1. s \in Sockets
      BY OwnedFacts
    <3>2. Accepts(t, s) \/ AcceptSleeps(t, s)
      BY <2>5, <3>1, AcceptOutcomes DEF AcceptStep, SockInv
    <3> QED
      BY <2>1, <2>5, <3>2, AcceptsInv, AcceptSleepsInv DEF AcceptStep
  <2>6. ASSUME NEW s \in Owned(t), NEW n \in SockNames, Connect(t, s, n)
        PROVE  SockInv'
    BY <2>1, <2>6, ConnectInv
  <2> QED
    BY <2>2, <2>3, <2>4, <2>5, <2>6
<1>2. CASE UNCHANGED sockVars
  <2> USE <1>2 DEF sockVars
  <2>1. SockTypeOK' /\ CallsOwnSockets' /\ OwnersNoted'
    BY DEF SockInv, SockTypeOK, CallsOwnSockets, OwnersNoted
  <2>2. AbandonedAreFreed' /\ NewAreUnconnected' /\ QueuedOnce' /\ BuffersBounded'
    BY DEF SockInv, AbandonedAreFreed, NewAreUnconnected, QueuedOnce, BuffersBounded
  <2>3. QueuesHoldConnectors'
    BY DEF SockInv, QueuesHoldConnectors, Abandoned, Connecting
  <2>4. SocketsPaired'
    BY DEF SockInv, SocketsPaired, SocketList, Abandoned
  <2>5. SleepCauses'
    BY DEF SockInv, SleepCauses, SleepCause, CanCreate, Owned, SocketList, Unused
  <2> QED
    BY <2>1, <2>2, <2>3, <2>4, <2>5 DEF SockInv
<1> QED
  BY <1>1, <1>2

\* The sockets of processes that run any calls in any order, and of processes
\* that are killed anywhere in them, stay in the inductive invariant.
THEOREM SocketsHoldInvariant == SockSpec => []SockInv
<1>1. SockInit => SockInv
  BY SockInitInv
<1>2. SockInv /\ [SockNext]_sockVars => SockInv'
  BY SockStep
<1> QED
  BY <1>1, <1>2, PTL DEF SockSpec

\* Connections come in pairs: whatever accept, close and the end of a process
\* do, and in whatever order, no call follows a pointer to a socket that was
\* freed, unless its own accept took an abandoned one from the queue.
THEOREM SocketsArePaired == SockSpec => []SocketsPaired
<1>1. SockInv => SocketsPaired
  BY DEF SockInv
<1> QED
  BY <1>1, SocketsHoldInvariant, PTL

\* No wake-up of accept, send or recv is lost.
THEOREM SocketSleepersHaveCause == SockSpec => []SleepersHaveCause
<1>1. ASSUME SockInv PROVE SleepersHaveCause
  <2> SUFFICES ASSUME NEW t \in sleeping
               PROVE  LET s == call[t].sock
                      IN  CASE call[t].in = "recv" ->
                                  buffer_in[s] = <<>> \/ s \in disconnected
                            [] call[t].in = "send" ->
                                  \/ connection[s] = none
                                  \/ Len(buffer_in[connection[s]]) = SockBufferSize
                            [] call[t].in = "accept" ->
                                  accept_queue[s] = <<>> \/ ~CanCreate(t)
    BY DEF SleepersHaveCause
  <2>1. call[t].in \in {"accept", "send", "recv"} /\ SleepCause(t)
    BY <1>1, SleeperFacts
  <2>2. CASE call[t].in = "recv"
    BY <2>1, <2>2 DEF SleepCause
  <2>3. CASE call[t].in = "send"
    BY <2>1, <2>3 DEF SleepCause
  <2>4. CASE call[t].in = "accept"
    BY <2>1, <2>4 DEF SleepCause
  <2> QED
    BY <2>1, <2>2, <2>3, <2>4
<1> QED
  BY <1>1, SocketsHoldInvariant, PTL

-----------------------------------------------------------------------------
(* The message queue *)

Byte == Nat \X Nat

MsgTypeOK ==
    /\ message_queue \in Seq(Byte)
    /\ messages \in Nat
    /\ accepted \in Seq(Nat)
    /\ received \in Seq(Byte)

\* The queue has room for whole messages and holds nothing else.
WholeQueued ==
    \E q \in 0 .. QueueLength : Len(message_queue) = MessageSize * q

MsgInv == MsgTypeOK /\ WholeQueued /\ MessagesWhole

LEMMA MessageProducts ==
    /\ MessageSize * 0 = 0 /\ QueueBytes \in Nat
    /\ \A a \in Nat : MessageSize * a \in Nat /\ MessageSize * (a + 1) = MessageSize * a + MessageSize
    /\ \A a, b \in Nat : a < b => MessageSize * a + MessageSize <= MessageSize * b
    /\ \A a \in Nat : (MessageSize * a) \div MessageSize = a
<1> MessageSize \in Nat \ {0} /\ QueueLength \in Nat
  BY MessageAssumption
<1>1. ASSUME NEW a \in Nat
      PROVE  MessageSize * a \in Nat /\ MessageSize * (a + 1) = MessageSize * a + MessageSize
  OBVIOUS
<1>2. ASSUME NEW a \in Nat, NEW b \in Nat, a < b
      PROVE  MessageSize * a + MessageSize <= MessageSize * b
  <2>1. PICK d \in Nat : b = a + 1 + d
    <3>1. b - a - 1 \in Nat /\ b = a + 1 + (b - a - 1)
      BY <1>2
    <3> QED
      BY <3>1
  <2>2. MessageSize * b = MessageSize * a + MessageSize + MessageSize * d
    BY <2>1
  <2>3. MessageSize * d \in Nat
    OBVIOUS
  <2> QED
    BY <2>2, <2>3
<1>3. ASSUME NEW a \in Nat
      PROVE  (MessageSize * a) \div MessageSize = a
  OBVIOUS
<1> QED
  BY <1>1, <1>2, <1>3 DEF QueueBytes

LEMMA JoinedBytes ==
    /\ \A r, s, t \in Seq(Byte) : (r \o s) \o t = r \o (s \o t)
    /\ \A s \in Seq(Byte), n \in Nat :
          n <= Len(s) => SubSeq(s, 1, n) \o SubSeq(s, n + 1, Len(s)) = s
<1>1. \A r, s, t \in Seq(Byte) : (r \o s) \o t = r \o (s \o t)
  BY ConcatAssociative
<1>2. ASSUME NEW s \in Seq(Byte), NEW n \in Nat, n <= Len(s)
      PROVE  SubSeq(s, 1, n) \o SubSeq(s, n + 1, Len(s)) = s
  <2>1. /\ 1 \in 1 .. Len(s) + 1 /\ n \in 1 - 1 .. Len(s) /\ Len(s) \in n .. Len(s)
        /\ SubSeq(s, 1, Len(s)) = s
    BY <1>2
  <2> QED
    BY <2>1, ConcatAdjacentSubSeq
<1> QED
  BY <1>1, <1>2

\* A message that is sent is stored whole, or not at all when the queue is full.
LEMMA SendOutcome ==
    ASSUME MsgInv, MessageSend
    PROVE  \/ UNCHANGED <<message_queue, accepted, received>>
           \/ /\ message_queue' = message_queue \o Bytes(messages + 1)
              /\ accepted' = Append(accepted, messages + 1)
              /\ received' = received
              /\ \E q \in 0 .. QueueLength - 1 : Len(message_queue) = MessageSize * q
<1> DEFINE m == messages + 1
           free == QueueBytes - Len(message_queue)
           n == IF free < MessageSize THEN free ELSE MessageSize
<1>1. /\ message_queue' = message_queue \o SubSeq(Bytes(m), 1, n)
      /\ accepted' = IF free > 0 THEN Append(accepted, m) ELSE accepted
      /\ received' = received
  BY DEF MessageSend
<1>2. PICK q \in 0 .. QueueLength : Len(message_queue) = MessageSize * q
  BY DEF MsgInv, WholeQueued
<1>3. Bytes(m) \in Seq(Byte) /\ Len(Bytes(m)) = MessageSize
  BY MessageAssumption DEF Bytes, Byte, MsgInv, MsgTypeOK
<1>4. message_queue \in Seq(Byte) /\ accepted \in Seq(Nat)
  BY DEF MsgInv, MsgTypeOK
<1>5. CASE q = QueueLength
  <2>1. free = 0 /\ n = 0
    BY <1>2, <1>5, MessageProducts, MessageAssumption DEF QueueBytes
  <2>2. SubSeq(Bytes(m), 1, n) = <<>>
    BY <1>3, <2>1
  <2>3. message_queue' = message_queue
    BY <1>1, <1>4, <2>2, ConcatEmptySeq
  <2>4. accepted' = accepted
    BY <1>1, <2>1
  <2> QED
    BY <1>1, <2>3, <2>4
<1>6. CASE q < QueueLength
  <2>1. MessageSize * q + MessageSize <= QueueBytes /\ MessageSize * q \in Nat
    BY <1>6, MessageProducts, MessageAssumption DEF QueueBytes
  <2>2. n = MessageSize /\ free > 0
    BY <1>2, <2>1, MessageAssumption, MessageProducts
  <2>3. SubSeq(Bytes(m), 1, n) = Bytes(m)
    BY <1>3, <2>2
  <2>4. q \in 0 .. QueueLength - 1
    BY <1>6, MessageAssumption
  <2> QED
    BY <1>1, <1>2, <2>2, <2>3, <2>4
<1>7. q = QueueLength \/ q < QueueLength
  BY <1>2, MessageAssumption
<1> QED
  BY <1>5, <1>6, <1>7

LEMMA MessageSendInv ==
    ASSUME MsgInv, MessageSend
    PROVE  MsgInv'
<1> DEFINE m == messages + 1
<1>0. /\ message_queue \in Seq(Byte) /\ accepted \in Seq(Nat) /\ received \in Seq(Byte)
      /\ m \in Nat /\ messages' = m
  BY DEF MsgInv, MsgTypeOK, MessageSend
<1>1. CASE UNCHANGED <<message_queue, accepted, received>>
  BY <1>0, <1>1 DEF MsgInv, MsgTypeOK, WholeQueued, MessagesWhole
<1>2. ASSUME NEW q \in 0 .. QueueLength - 1, Len(message_queue) = MessageSize * q,
             message_queue' = message_queue \o Bytes(m),
             accepted' = Append(accepted, m), received' = received
      PROVE  MsgInv'
  <2>1. /\ Bytes(m) \in Seq(Byte) /\ Len(Bytes(m)) = MessageSize
        /\ \A i \in 1 .. MessageSize : Bytes(m)[i] = <<m, i>>
    BY <1>0, MessageAssumption DEF Bytes, Byte
  <2>2. MsgTypeOK'
    BY <1>0, <1>2, <2>1 DEF MsgTypeOK
  <2>3. WholeQueued'
    <3>1. Len(message_queue') = MessageSize * q + MessageSize
      BY <1>0, <1>2, <2>1, ConcatProperties
    <3>3. MessageSize * (q + 1) = MessageSize * q + MessageSize
      BY MessageProducts
    <3>2. q + 1 \in 0 .. QueueLength
      BY <1>2, MessageAssumption
    <3> QED
      BY <3>1, <3>2, <3>3 DEF WholeQueued
  <2>4. MessagesWhole'
    <3> DEFINE bytes == received \o message_queue
               more == received' \o message_queue'
               len == Len(accepted)
    <3>1. /\ bytes \in Seq(Byte) /\ Len(bytes) = MessageSize * len
          /\ \A k \in DOMAIN accepted, i \in 1 .. MessageSize :
                bytes[MessageSize * (k - 1) + i] = <<accepted[k], i>>
      <4>1. bytes \in Seq(Byte)
        BY <1>0, ConcatProperties
      <4> QED
        BY <4>1 DEF MsgInv, MessagesWhole
    <3>2. more = bytes \o Bytes(m)
      BY <1>0, <1>2, <2>1, JoinedBytes
    <3> HIDE DEF bytes, more
    <3>3. len \in Nat /\ accepted' \in Seq(Nat) /\ Len(accepted') = len + 1
      BY <1>0, <1>2
    <3>4. Len(more) = MessageSize * Len(accepted')
      <4>1. Len(more) = MessageSize * len + MessageSize
        BY <2>1, <3>1, <3>2, ConcatProperties
      <4>2. MessageSize * (len + 1) = MessageSize * len + MessageSize
        BY <3>3, MessageProducts
      <4> QED
        BY <3>3, <4>1, <4>2
    <3>5. ASSUME NEW k \in DOMAIN accepted', NEW i \in 1 .. MessageSize
          PROVE  more[MessageSize * (k - 1) + i] = <<accepted'[k], i>>
      <4>1. CASE k <= len
        <5>1. k \in 1 .. len /\ k - 1 \in Nat /\ accepted'[k] = accepted[k]
          BY <1>0, <1>2, <3>3, <4>1
        <5>2. MessageSize * (k - 1) + MessageSize <= MessageSize * len
              /\ MessageSize * (k - 1) \in Nat
          <6>1. len \in Nat /\ k - 1 \in Nat /\ k - 1 < len
            BY <3>3, <5>1
          <6> HIDE DEF len
          <6> QED
            BY <6>1, MessageProducts
        <5>3. MessageSize * (k - 1) + i \in 1 .. Len(bytes)
          BY <3>1, <5>2, MessageAssumption
        <5>4. more[MessageSize * (k - 1) + i] = bytes[MessageSize * (k - 1) + i]
          BY <2>1, <3>1, <3>2, <5>3, ConcatProperties
        <5> QED
          BY <3>1, <5>1, <5>4
      <4>2. CASE k = len + 1
        <5>1. MessageSize * (k - 1) + i = Len(bytes) + i
          BY <3>1, <3>3, <4>2
        <5>2. more[Len(bytes) + i] = Bytes(m)[i]
          BY <2>1, <3>1, <3>2, MessageAssumption
        <5>3. accepted'[k] = m
          BY <1>0, <1>2, <4>2
        <5> QED
          BY <2>1, <5>1, <5>2, <5>3
      <4> QED
        BY <3>3, <4>1, <4>2
    <3> QED
      BY <3>4, <3>5 DEF MessagesWhole, more
  <2> QED
    BY <2>2, <2>3, <2>4 DEF MsgInv
<1> QED
  BY <1>1, <1>2, SendOutcome

\* message_get_next moves the first message to the receiver.
LEMMA MessageGetInv ==
    ASSUME MsgInv, MessageGetNext
    PROVE  MsgInv'
<1>1. PICK q \in 0 .. QueueLength : Len(message_queue) = MessageSize * q
  BY DEF MsgInv, WholeQueued
<1>2. QueueCount = q
  BY <1>1, MessageProducts, MessageAssumption DEF QueueCount
<1>3. CASE q = 0
  <2>1. UNCHANGED <<message_queue, messages, accepted, received>>
    BY <1>2, <1>3 DEF MessageGetNext
  <2> QED
    BY <2>1 DEF MsgInv, MsgTypeOK, WholeQueued, MessagesWhole
<1>4. CASE q > 0
  <2>1. /\ received' = received \o SubSeq(message_queue, 1, MessageSize)
        /\ message_queue' = SubSeq(message_queue, MessageSize + 1, Len(message_queue))
        /\ UNCHANGED <<messages, accepted>>
    BY <1>2, <1>4 DEF MessageGetNext
  <2>2. message_queue \in Seq(Byte) /\ received \in Seq(Byte) /\ accepted \in Seq(Nat)
    BY DEF MsgInv, MsgTypeOK
  <2>3. q - 1 \in 0 .. QueueLength /\ MessageSize * q = MessageSize * (q - 1) + MessageSize
        /\ MessageSize * (q - 1) \in Nat
    <3>1. q - 1 \in Nat /\ q = (q - 1) + 1 /\ q - 1 <= QueueLength
      BY <1>4, MessageAssumption
    <3> QED
      BY <3>1, MessageProducts, MessageAssumption
  <2>4. MessageSize <= Len(message_queue) /\ Len(message_queue) \in Nat
    BY <1>1, <2>2, <2>3, MessageAssumption
  <2> DEFINE head == SubSeq(message_queue, 1, MessageSize)
  <2>5. /\ head \in Seq(Byte) /\ Len(head) = MessageSize
        /\ \A i \in 1 .. MessageSize : head[i] = message_queue[i]
    BY <2>2, <2>4, MessageAssumption
  <2>6. /\ message_queue' \in Seq(Byte)
        /\ Len(message_queue') = Len(message_queue) - MessageSize
        /\ \A i \in 1 .. Len(message_queue) - MessageSize :
              message_queue'[i] = message_queue[i + MessageSize]
    BY <2>1, <2>2, <2>4, MessageAssumption
  <2> HIDE DEF head
  <2>7. received' = received \o head
    BY <2>1 DEF head
  <2>8. received' \o message_queue' = received \o message_queue
    <3> DEFINE rest == message_queue'
    <3>1. message_queue = head \o rest
      BY <2>1, <2>2, <2>4, JoinedBytes, MessageAssumption DEF head
    <3>2. (received \o head) \o rest = received \o (head \o rest)
      BY <2>2, <2>5, <2>6, JoinedBytes
    <3> QED
      BY <2>7, <3>1, <3>2
  <2>9. MsgTypeOK'
    BY <2>1, <2>2, <2>5, <2>6, <2>7, SMTT(20) DEF MsgInv, MsgTypeOK
  <2>10. WholeQueued'
    BY <1>1, <2>3, <2>6, MessageAssumption DEF WholeQueued
  <2>11. MessagesWhole'
    BY <2>1, <2>8 DEF MsgInv, MessagesWhole
  <2> QED
    BY <2>9, <2>10, <2>11 DEF MsgInv
<1> QED
  BY <1>3, <1>4, MessageAssumption

\* A message is delivered whole or not at all, and in order: the queue's size
\* is a multiple of a message, so what does not fit is never part of one.
THEOREM MessagesAreWhole == MsgSpec => []MessagesWhole
<1>1. ASSUME MsgInit PROVE MsgInv
  <2> USE <1>1 DEF MsgInit
  <2>1. MsgTypeOK
    BY DEF MsgTypeOK
  <2>2. WholeQueued
    BY MessageProducts, MessageAssumption DEF WholeQueued
  <2>3. MessagesWhole
    <3>1. received \o message_queue = <<>>
      OBVIOUS
    <3> QED
      BY <3>1, MessageProducts DEF MessagesWhole
  <2> QED
    BY <2>1, <2>2, <2>3 DEF MsgInv
<1>2. ASSUME MsgInv, [MsgNext]_msgVars PROVE MsgInv'
  <2>1. CASE UNCHANGED msgVars
    BY <1>2, <2>1 DEF msgVars, MsgInv, MsgTypeOK, WholeQueued, MessagesWhole
  <2>2. ASSUME NEW command \in 0 .. 2, ManageMessage(command)
        PROVE  MsgInv'
    <3>1. CASE command = 0
      <4>1. UNCHANGED <<message_queue, messages, accepted, received>>
        BY <2>2, <3>1 DEF ManageMessage
      <4> QED
        BY <1>2, <4>1 DEF MsgInv, MsgTypeOK, WholeQueued, MessagesWhole
    <3>2. CASE command = 1
      BY <1>2, <2>2, <3>2, MessageSendInv DEF ManageMessage
    <3>3. CASE command = 2
      BY <1>2, <2>2, <3>3, MessageGetInv DEF ManageMessage
    <3> QED
      BY <3>1, <3>2, <3>3
  <2> QED
    BY <1>2, <2>1, <2>2 DEF MsgNext
<1>3. MsgInv => MessagesWhole
  BY DEF MsgInv
<1> QED
  BY <1>1, <1>2, <1>3, PTL DEF MsgSpec

-----------------------------------------------------------------------------
(***************************************************************************)
(* The line discipline and its echo.                                       *)
(***************************************************************************)

LEMMA TtyFacts ==
    /\ TtySize \in Nat \ {0} /\ LineSize \in Nat \ {0, 1, 2} /\ ReadSizes \subseteq Nat
    /\ TypedChunks \subseteq Seq(Nat) /\ PrintedChunks \subseteq Seq(Nat)
    /\ \A t \in Terms : t.verase \in Nat
BY TtyAssumption

\* Sequences of bytes that fit a buffer.
Held == {q \in Seq(Nat) : Len(q) <= TtySize}

LEMMA QueuedFacts ==
    ASSUME NEW q \in Held, NEW s \in Seq(Nat)
    PROVE  /\ Queued(q, s) \in Held
           /\ Len(q) + Len(s) <= TtySize => Queued(q, s) = q \o s
<1>1. /\ q \in Seq(Nat) /\ Len(q) \in Nat /\ Len(q) <= TtySize /\ Len(s) \in Nat
      /\ TtySize \in Nat
  BY TtyFacts DEF Held
<1>2. PICK a \in Nat, b \in Nat : a = Len(s) /\ b = TtySize - Len(q)
  BY <1>1
<1>3. PICK m \in Nat : m = Min({a, b}) /\ m <= a /\ m <= b /\ (a <= b => m = a)
  <2>1. \E x \in {a, b} : \A y \in {a, b} : x <= y
    BY <1>2
  <2>2. PICK m : m = Min({a, b})
    OBVIOUS
  <2>3. m \in {a, b} /\ \A y \in {a, b} : m <= y
    BY <2>1, <2>2 DEF Min
  <2> QED BY <1>2, <2>2, <2>3
<1>4. PICK t : t = SubSeq(s, 1, m)
  OBVIOUS
<1>5. t \in Seq(Nat) /\ Len(t) = m
  <2>1. \A i \in 1 .. m : s[i] \in Nat
    BY <1>2, <1>3, ElementOfSeq
  <2>2. 1 \in Int /\ m \in Int
    BY <1>3
  <2>3. SubSeq(s, 1, m) \in Seq(Nat) /\ Len(SubSeq(s, 1, m)) = IF 1 <= m THEN m - 1 + 1 ELSE 0
    BY <2>1, <2>2, SubSeqProperties
  <2>4. (IF 1 <= m THEN m - 1 + 1 ELSE 0) = m
    BY <1>3
  <2> QED BY <1>4, <2>3, <2>4
<1>6. Queued(q, s) = q \o t
  BY <1>2, <1>3, <1>4 DEF Queued
<1>7. q \o t \in Seq(Nat) /\ Len(q \o t) = Len(q) + m
  BY <1>1, <1>5, ConcatProperties
<1>8. a <= b => t = s
  BY <1>2, <1>3, <1>4, SubSeqFull
<1>9. q \o t \in Held
  <2>1. Len(q) + m <= TtySize
    BY <1>1, <1>2, <1>3
  <2> QED BY <1>7, <2>1 DEF Held
<1>10. Len(q) + Len(s) <= TtySize => Queued(q, s) = q \o s
  <2>1. Len(q) + Len(s) <= TtySize => a <= b
    BY <1>1, <1>2
  <2> QED BY <1>6, <1>8, <2>1
<1> QED BY <1>6, <1>9, <1>10

\* The screen

Screens == [past : Seq(Nat), row : Seq(Nat)]

LEMMA NoBytes == <<>> \in Seq(Nat) /\ Len(<<>>) = 0
BY EmptySeq

LEMMA ShownType ==
    ASSUME NEW screen \in Screens, NEW c \in Nat
    PROVE  Shown(screen, c) \in Screens
<1>1. screen.past \in Seq(Nat) /\ screen.row \in Seq(Nat)
  BY DEF Screens
<1>2. CASE c = NL
  <2>1. PICK all : all = screen.past \o screen.row \o <<NL>>
    OBVIOUS
  <2>2. all \in Seq(Nat)
    <3>1. <<NL>> \in Seq(Nat)
      BY DEF NL
    <3> QED BY <1>1, <2>1, <3>1, ConcatProperties
  <2>3. Shown(screen, c) = IF screen.row = <<>> THEN screen ELSE [past |-> all, row |-> <<>>]
    BY <1>2, <2>1 DEF Shown, NL, BS, CR
  <2> QED BY <2>2, <2>3, NoBytes DEF Screens
<1>3. CASE c = BS
  <2>1. PICK longer, shorter : /\ longer = Append(screen.past, BS)
                               /\ shorter = SubSeq(screen.row, 1, Len(screen.row) - 1)
    OBVIOUS
  <2>2. longer \in Seq(Nat)
    BY <1>1, <2>1 DEF BS
  <2>3. screen.row # <<>> => shorter \in Seq(Nat)
    BY <1>1, <2>1
  <2>4. Shown(screen, c) = IF screen.row = <<>> THEN [screen EXCEPT !.past = longer]
                           ELSE [screen EXCEPT !.row = shorter]
    BY <1>3, <2>1 DEF Shown, NL, BS, CR
  <2> QED BY <2>2, <2>3, <2>4 DEF Screens
<1>4. CASE c # NL /\ c # BS
  <2>1. PICK longer \in Seq(Nat) : longer = Append(screen.row, c)
    BY <1>1, AppendProperties
  <2>2. Shown(screen, c) = IF c = CR THEN screen ELSE [screen EXCEPT !.row = longer]
    BY <1>4, <2>1 DEF Shown
  <2> QED BY <2>1, <2>2 DEF Screens
<1> QED BY <1>2, <1>3, <1>4

\* The clauses of OnScreen are well defined.
LEMMA ScreenRuns ==
    ASSUME NEW s \in Seq(Nat)
    PROVE  \E g : /\ g[0] = [past |-> <<>>, row |-> <<>>]
                  /\ \A i \in 1 .. Len(s) : g[i] = Shown(g[i - 1], s[i])
                  /\ \A i \in 0 .. Len(s) : g[i] \in Screens
                  /\ OnScreen(s) = g[Len(s)]
<1> DEFINE start == [past |-> <<>>, row |-> <<>>]
           Clauses(f) == f = [i \in 0 .. Len(s) |-> IF i = 0 THEN start ELSE Shown(f[i - 1], s[i])]
           Done == CHOOSE f : Clauses(f)
<1>1. PICK n \in Nat : n = Len(s)
  OBVIOUS
<1>2. PICK first : first \in Screens /\ first = start
  BY NoBytes DEF Screens
<1>3. \A i \in 1 .. n : s[i] \in Nat
  BY <1>1
<1>4. PICK step : step = [x \in Screens \X (1 .. n) |-> Shown(x[1], s[x[2]])]
  OBVIOUS
<1>5. step \in [Screens \X (1 .. n) -> Screens]
  BY <1>3, <1>4, ShownType
<1>6. n \in Nat
  BY <1>1
<1>7. \E f \in [0 .. n -> Screens] : IsRun(f, n, first, step)
  BY <1>2, <1>5, <1>6, StepsExist
<1>8. PICK f \in [0 .. n -> Screens] :
        f[0] = first /\ \A i \in 1 .. n : f[i] = step[<<f[i - 1], i>>]
  BY <1>7 DEF IsRun
<1> HIDE DEF start
<1>9. Clauses(f)
  <2>1. ASSUME NEW i \in 0 .. n, i # 0 PROVE f[i] = Shown(f[i - 1], s[i])
    <3>1. i \in 1 .. n /\ i - 1 \in 0 .. n
      BY <1>6, <2>1
    <3>2. f[i - 1] \in Screens
      BY <1>8, <3>1
    <3> QED BY <1>4, <1>8, <3>1, <3>2
  <2>2. f[0] = start
    BY <1>2, <1>8
  <2> QED BY <1>1, <1>8, <2>1, <2>2
<1>10. Clauses(Done)
  <2> HIDE DEF Clauses
  <2> QED BY <1>9, Zenon
<1>11. PICK g : g = Done /\ Clauses(g)
  BY <1>10
<1>12. OnScreen(s) = Done[Len(s)]
  BY Zenon DEF OnScreen, Done, Clauses, start
<1> HIDE DEF Done
<1>13. g[0] = start
  <2>1. 0 \in 0 .. Len(s)
    BY <1>1
  <2> QED BY <1>11, <2>1
<1>14. ASSUME NEW i \in 1 .. n PROVE g[i] = Shown(g[i - 1], s[i])
  <2>1. i \in 0 .. n /\ i # 0
    BY <1>6
  <2> QED BY <1>1, <1>11, <2>1
<1>15. \A i \in 0 .. n : g[i] \in Screens
  <2> HIDE DEF Clauses
  <2>1. g[0] \in Screens
    BY <1>2, <1>13
  <2>2. \A i \in 1 .. n : g[i - 1] \in Screens => g[i] \in Screens
    BY <1>3, <1>14, ShownType
  <2> QED BY <1>6, <2>1, <2>2, RunsStay
<1> QED BY <1>1, <1>11, <1>12, <1>13, <1>14, <1>15 DEF start

LEMMA OnScreenType == ASSUME NEW s \in Seq(Nat) PROVE OnScreen(s) \in Screens
<1>1. PICK g : /\ \A i \in 0 .. Len(s) : g[i] \in Screens
               /\ OnScreen(s) = g[Len(s)]
  BY ScreenRuns
<1>2. Len(s) \in 0 .. Len(s)
  OBVIOUS
<1> QED BY <1>1, <1>2

LEMMA OnScreenEmpty == OnScreen(<<>>) = [past |-> <<>>, row |-> <<>>]
<1>1. PICK s \in Seq(Nat) : s = <<>> /\ Len(s) = 0
  BY NoBytes
<1>2. PICK g : /\ g[0] = [past |-> <<>>, row |-> <<>>]
               /\ OnScreen(s) = g[Len(s)]
  BY ScreenRuns
<1> QED BY <1>1, <1>2

\* One more byte.
LEMMA OnScreenAppend ==
    ASSUME NEW s \in Seq(Nat), NEW c \in Nat
    PROVE  OnScreen(Append(s, c)) = Shown(OnScreen(s), c)
<1>1. PICK t, n : t = Append(s, c) /\ n = Len(s)
  OBVIOUS
<1>2. /\ t \in Seq(Nat) /\ n \in Nat /\ Len(t) = n + 1 /\ t[n + 1] = c
      /\ \A i \in 1 .. n : t[i] = s[i]
  BY <1>1, AppendProperties
<1>3. PICK g : /\ g[0] = [past |-> <<>>, row |-> <<>>]
               /\ \A i \in 1 .. n : g[i] = Shown(g[i - 1], s[i])
               /\ OnScreen(s) = g[n]
  BY <1>1, ScreenRuns
<1>4. PICK h : /\ h[0] = [past |-> <<>>, row |-> <<>>]
               /\ \A i \in 1 .. n + 1 : h[i] = Shown(h[i - 1], t[i])
               /\ OnScreen(t) = h[n + 1]
  <2>1. \E h : /\ h[0] = [past |-> <<>>, row |-> <<>>]
               /\ \A i \in 1 .. Len(t) : h[i] = Shown(h[i - 1], t[i])
               /\ OnScreen(t) = h[Len(t)]
    BY <1>2, ScreenRuns
  <2> QED BY <1>2, <2>1
<1>5. h[n] = g[n]
  <2>1. PICK Good : Good = [i \in 0 .. n |-> {g[i]}]
    OBVIOUS
  <2>2. h[0] \in Good[0]
    BY <1>2, <1>3, <1>4, <2>1
  <2>3. ASSUME NEW i \in 1 .. n, h[i - 1] \in Good[i - 1] PROVE h[i] \in Good[i]
    <3>1. i \in 0 .. n /\ i - 1 \in 0 .. n /\ i \in 1 .. n + 1
      BY <1>2
    <3>2. h[i - 1] = g[i - 1]
      BY <2>1, <2>3, <3>1
    <3>3. h[i] = g[i]
      BY <1>2, <1>3, <1>4, <3>1, <3>2
    <3> QED BY <2>1, <3>1, <3>3
  <2>4. h[n] \in Good[n]
    BY <1>2, <2>2, <2>3, RunsFollow
  <2>5. n \in 0 .. n
    BY <1>2
  <2> QED BY <2>1, <2>4, <2>5
<1>6. h[n + 1] = Shown(h[n], c)
  <2>1. n + 1 \in 1 .. n + 1 /\ (n + 1) - 1 = n
    BY <1>2
  <2> QED BY <1>2, <1>4, <2>1
<1> QED BY <1>1, <1>3, <1>4, <1>5, <1>6

\* One character

Signals == {"SIGINT", "SIGTSTP", "SIGQUIT"}

\* The states of a call of master_write.
Works == [line : Seq(Nat), input : Held, echo : Held, raised : Seq(Signals), written : Int]

LEMMA OneByte ==
    ASSUME NEW a \in Nat
    PROVE  <<a>> \in Seq(Nat) /\ Len(<<a>>) = 1
OBVIOUS

LEMMA OverrideType ==
    ASSUME term.verase \in Nat, NEW c0 \in Nat
    PROVE  Override(c0) \in Nat
<1>1. PICK c \in Nat : c = IF "ISTRIP" \in term.iflag THEN c0 % 128 ELSE c0
  OBVIOUS
<1>2. PICK d \in Nat : d = CASE c = CR /\ "IGNCR" \in term.iflag -> c
                             [] c = NL /\ "INLCR" \in term.iflag -> CR
                             [] c = CR /\ {"ICRNL", "IGNCR"} \cap term.iflag = {"ICRNL"} -> NL
                             [] OTHER -> c
  BY DEF CR, NL
<1>3. Override(c0) = IF d = BS THEN term.verase ELSE d
  BY <1>1, <1>2 DEF Override
<1> QED BY <1>2, <1>3

LEMMA EscapeType ==
    ASSUME NEW c \in Nat
    PROVE  Escape(c) \in Seq(Nat) /\ Len(Escape(c)) = 2
           /\ Escape(c) = <<CARET, (64 + c) % 128>> /\ (64 + c) % 128 \in Nat /\ CARET \in Nat
BY DEF Escape, CARET

LEMMA EchoType ==
    ASSUME NEW c \in Nat
    PROVE  EchoOf(c) \in Seq(Nat)
<1>1. EchoOf(c) \in {Escape(c), <<c>>, <<>>}
  BY DEF EchoOf
<1> QED BY <1>1, EscapeType, OneByte, NoBytes

LEMMA SignalType == ASSUME NEW c PROVE SignalOf(c) \in Seq(Signals)
<1>1. SignalOf(c) \in {<<"SIGINT">>, <<"SIGTSTP">>, <<"SIGQUIT">>, <<>>}
  BY DEF SignalOf, VINTR, VSUSP, VQUIT
<1>2. /\ <<"SIGINT">> \in Seq(Signals) /\ <<"SIGTSTP">> \in Seq(Signals)
      /\ <<"SIGQUIT">> \in Seq(Signals)
  BY DEF Signals
<1>3. <<>> \in Seq(Signals)
  BY EmptySeq
<1> QED BY <1>1, <1>2, <1>3

LEMMA EraseType ==
    ASSUME NEW w \in Works
    PROVE  Erase(w) \in Works
<1>1. PICK line, echo : line = SubSeq(w.line, 1, Len(w.line) - 1)
                        /\ echo = Queued(w.echo, <<BS, SP, BS>>)
  OBVIOUS
<1>2. w.line # <<>> => line \in Seq(Nat)
  <2>1. PICK s \in Seq(Nat) : s = w.line
    BY DEF Works
  <2>2. s # <<>> => SubSeq(s, 1, Len(s) - 1) \in Seq(Nat)
    OBVIOUS
  <2> QED BY <1>1, <2>1, <2>2
<1>3. echo \in Held
  <2>1. <<BS, SP, BS>> \in Seq(Nat)
    BY DEF BS, SP
  <2>2. w.echo \in Held
    BY DEF Works
  <2> QED BY <1>1, <2>1, <2>2, QueuedFacts
<1>4. Erase(w) = IF w.line = <<>> THEN w ELSE [w EXCEPT !.line = line, !.echo = echo]
  BY <1>1 DEF Erase
<1> QED BY <1>2, <1>3, <1>4 DEF Works

LEMMA EndLineType ==
    ASSUME NEW w \in Works
    PROVE  EndLine(w) \in Works
<1>1. w.input \in Held /\ w.line \in Seq(Nat) /\ w.echo \in Held
  BY DEF Works
<1>2. PICK input, echo, n : /\ input = Queued(Queued(w.input, w.line), <<NL>>)
                            /\ n = Len(input) - Len(w.input)
                            /\ echo = IF "ECHO" \in term.lflag THEN Queued(w.echo, <<CR>>)
                                      ELSE w.echo
  OBVIOUS
<1>3. <<NL>> \in Seq(Nat) /\ <<CR>> \in Seq(Nat)
  BY DEF NL, CR
<1>4. input \in Held
  <2>1. PICK q : q = Queued(w.input, w.line) /\ q \in Held
    BY <1>1, QueuedFacts
  <2> QED BY <1>2, <1>3, <2>1, QueuedFacts
<1>5. echo \in Held
  BY <1>1, <1>2, <1>3, QueuedFacts
<1>6. n \in Int
  BY <1>1, <1>2, <1>4 DEF Held
<1>7. EndLine(w) = IF w.line = <<>> THEN w
                   ELSE [w EXCEPT !.line = <<>>, !.input = input, !.written = n, !.echo = echo]
  BY <1>2 DEF EndLine
<1> QED BY <1>4, <1>5, <1>6, <1>7, NoBytes DEF Works

LEMMA ExtendType ==
    ASSUME NEW w \in Works, NEW c \in Nat
    PROVE  Extend(w, c) \in Works
<1>1. PICK s : s = IF Escaped(c) THEN Escape(c) ELSE <<c>>
  OBVIOUS
<1>2. s \in Seq(Nat)
  BY <1>1, EscapeType, OneByte
<1>3. PICK line : line = w.line \o s
  OBVIOUS
<1>4. line \in Seq(Nat)
  BY <1>2, <1>3, ConcatProperties DEF Works
<1>5. Extend(w, c) \in {w, [w EXCEPT !.line = line]}
  BY <1>1, <1>3 DEF Extend
<1> QED BY <1>4, <1>5 DEF Works

LEMMA CanonicalType ==
    ASSUME NEW w0 \in Works, NEW c \in Nat
    PROVE  Canonical(w0, c) \in Works
<1>1. PICK w : w = IF Len(w0.line) >= LineSize - 1 THEN [w0 EXCEPT !.line = <<>>] ELSE w0
  OBVIOUS
<1>2. w \in Works
  BY <1>1, NoBytes DEF Works
<1>3. Canonical(w0, c) \in {Erase(w), EndLine(w), Extend(w, c)}
  BY <1>1 DEF Canonical
<1> QED BY <1>2, <1>3, EraseType, EndLineType, ExtendType

LEMMA RawType ==
    ASSUME NEW w \in Works, NEW c \in Nat
    PROVE  Raw(w, c) \in Works
<1>1. PICK input, n : input = Queued(w.input, <<c>>) /\ n = w.written + Len(input) - Len(w.input)
  OBVIOUS
<1>2. input \in Held
  BY <1>1, QueuedFacts, OneByte DEF Works
<1>3. n \in Int
  <2>1. w.input \in Seq(Nat) /\ w.written \in Int /\ input \in Seq(Nat)
    BY <1>2 DEF Works, Held
  <2>2. PICK a \in Int, b \in Nat, k \in Nat :
          a = w.written /\ b = Len(input) /\ k = Len(w.input)
    BY <2>1
  <2>3. n = a + (b - k)
    BY <1>1, <2>2
  <2> QED BY <2>2, <2>3
<1>4. Raw(w, c) = [w EXCEPT !.input = input, !.written = n]
  BY <1>1 DEF Raw
<1> QED BY <1>2, <1>3, <1>4 DEF Works

\* The call after the echo and the signal of a character.
Noticed(w0, c) == [w0 EXCEPT !.echo = Queued(@, EchoOf(c)), !.raised = @ \o SignalOf(c)]

LEMMA NoticedType ==
    ASSUME NEW w0 \in Works, NEW c \in Nat
    PROVE  /\ Noticed(w0, c) \in Works
           /\ Noticed(w0, c).line = w0.line /\ Noticed(w0, c).input = w0.input
           /\ Noticed(w0, c).echo = Queued(w0.echo, EchoOf(c))
<1>1. PICK echo, raised_ : echo = Queued(w0.echo, EchoOf(c)) /\ raised_ = w0.raised \o SignalOf(c)
  OBVIOUS
<1>2. echo \in Held
  BY <1>1, QueuedFacts, EchoType DEF Works
<1>3. raised_ \in Seq(Signals)
  BY <1>1, SignalType, ConcatProperties DEF Works
<1>4. Noticed(w0, c) = [w0 EXCEPT !.echo = echo, !.raised = raised_]
  BY <1>1 DEF Noticed
<1> QED BY <1>1, <1>2, <1>3, <1>4 DEF Works

LEMMA TypeCharacterType ==
    ASSUME term.verase \in Nat, NEW w0 \in Works, NEW c0 \in Nat
    PROVE  TypeCharacter(w0, c0) \in Works
<1>1. PICK c \in Nat : c = Override(c0)
  BY OverrideType
<1>2. PICK w \in Works : w = Noticed(w0, c)
  BY NoticedType
<1>3. TypeCharacter(w0, c0) \in {w0, Canonical(w, c), Raw(w, c)}
  BY <1>1, <1>2 DEF TypeCharacter, Noticed
<1> QED BY <1>2, <1>3, CanonicalType, RawType

\* A character of a call that has room for all, with the default settings

\* The bytes a of echo and x of input and line after n characters of a call that began
\* with a line of len bytes.
Within(a, x, n, len) == a <= 3 * n /\ x <= len + 2 * n

\* The room of a call of total characters that began with lb bytes of input: nothing
\* overflows.
Ample(lb, len, total) ==
    /\ len + 2 * total < LineSize - 1
    /\ lb + len + 2 * total <= TtySize
    /\ 3 * total <= TtySize

LEMMA WithinNext ==
    ASSUME NEW a \in Nat, NEW x \in Nat, NEW n \in Nat, NEW len \in Nat, Within(a, x, n, len),
           NEW b \in Nat, NEW y \in Nat, b <= a + 3, y <= x + 2
    PROVE  Within(b, y, n + 1, len)
BY DEF Within

LEMMA WithinRoom ==
    ASSUME NEW a \in Nat, NEW x \in Nat, NEW n \in Nat, NEW len \in Nat, Within(a, x, n, len),
           NEW lb \in Nat, NEW total \in Nat, n + 1 <= total, Ample(lb, len, total)
    PROVE  a + 3 <= TtySize /\ x + 2 < LineSize - 1 /\ lb + x + 2 <= TtySize
BY TtyFacts DEF Within, Ample

\* A screen with these lines and this row.
Seen(p, r) == [past |-> p, row |-> r]

\* After n characters of a call that began with input base, a line of len bytes and the
\* screen of the bytes e, which showed g: what the call has added to the input and the line
\* is on the screen.
Account(w, n, base, e, g, len) ==
    \E added \in Seq(Nat) :
        /\ w.input = base \o added
        /\ Within(Len(w.echo), Len(added) + Len(w.line), n, len)
        /\ OnScreen(e \o w.echo) = Seen(g \o added, w.line)

\* Joining three sequences.
AreJoined(p, q, r) == p \o (q \o r) = (p \o q) \o r

LEMMA Joined ==
    ASSUME NEW p \in Seq(Nat), NEW q \in Seq(Nat), NEW r \in Seq(Nat)
    PROVE  AreJoined(p, q, r)
<1>1. PICK c, d, a, b : c = p \o q /\ d = q \o r /\ a = p \o d /\ b = c \o r
  OBVIOUS
<1>2. PICK i, j, k : i = Len(p) /\ j = Len(q) /\ k = Len(r)
  OBVIOUS
<1>3. i \in Nat /\ j \in Nat /\ k \in Nat
  BY <1>2
<1>4. /\ c \in Seq(Nat) /\ Len(c) = i + j
      /\ \A n \in 1 .. i + j : c[n] = IF n <= i THEN p[n] ELSE q[n - i]
  BY <1>1, <1>2, ConcatProperties
<1>5. /\ d \in Seq(Nat) /\ Len(d) = j + k
      /\ \A n \in 1 .. j + k : d[n] = IF n <= j THEN q[n] ELSE r[n - j]
  BY <1>1, <1>2, ConcatProperties
<1>6. /\ a \in Seq(Nat) /\ Len(a) = i + (j + k)
      /\ \A n \in 1 .. i + (j + k) : a[n] = IF n <= i THEN p[n] ELSE d[n - i]
  BY <1>1, <1>2, <1>5, ConcatProperties
<1>7. /\ b \in Seq(Nat) /\ Len(b) = (i + j) + k
      /\ \A n \in 1 .. (i + j) + k : b[n] = IF n <= i + j THEN c[n] ELSE r[n - (i + j)]
  BY <1>1, <1>2, <1>4, ConcatProperties
<1>8. ASSUME NEW n \in 1 .. Len(a) PROVE a[n] = b[n]
  <2>1. n \in 1 .. i + (j + k) /\ n \in 1 .. (i + j) + k
    BY <1>3, <1>6
  <2>2. CASE n <= i
    <3>1. n \in 1 .. i + j /\ n <= i + j
      BY <1>3, <2>1, <2>2
    <3> QED BY <1>4, <1>6, <1>7, <2>1, <2>2, <3>1
  <2>3. CASE ~ (n <= i)
    <3>1. n - i \in 1 .. j + k /\ a[n] = d[n - i]
      BY <1>3, <1>6, <2>1, <2>3
    <3>2. CASE n <= i + j
      <4>1. n - i <= j /\ n \in 1 .. i + j
        BY <1>3, <2>1, <2>3, <3>2
      <4> QED BY <1>4, <1>5, <1>7, <2>1, <2>3, <3>1, <3>2, <4>1
    <3>3. CASE ~ (n <= i + j)
      <4>1. ~ (n - i <= j) /\ (n - i) - j = n - (i + j)
        BY <1>3, <2>1, <3>3
      <4> QED BY <1>5, <1>7, <2>1, <3>1, <3>3, <4>1
    <3> QED BY <3>2, <3>3
  <2> QED BY <2>2, <2>3
<1>9. a = b
  <2>1. Len(a) = Len(b)
    BY <1>3, <1>6, <1>7
  <2> QED BY <1>6, <1>7, <1>8, <2>1, SeqEqual
<1> QED BY <1>1, <1>9 DEF AreJoined

\* One more byte of echo.
Echoes(e, q, a) ==
    /\ q \o <<a>> \in Seq(Nat) /\ Len(q \o <<a>>) = Len(q) + 1
    /\ OnScreen(e \o (q \o <<a>>)) = Shown(OnScreen(e \o q), a)

LEMMA EchoOne ==
    ASSUME NEW e \in Seq(Nat), NEW q \in Seq(Nat), NEW a \in Nat
    PROVE  Echoes(e, q, a)
<1>1. q \o <<a>> \in Seq(Nat) /\ Len(q \o <<a>>) = Len(q) + 1
  BY OneByte, ConcatProperties
<1>2. e \o (q \o <<a>>) = (e \o q) \o <<a>>
  <2>1. AreJoined(e, q, <<a>>)
    BY OneByte, Joined
  <2> QED BY <2>1 DEF AreJoined
<1>3. PICK s \in Seq(Nat) : s = e \o q
  BY ConcatProperties
<1>4. Append(s, a) = s \o <<a>>
  BY AppendIsConcat
<1>5. OnScreen(Append(s, a)) = Shown(OnScreen(s), a)
  BY OnScreenAppend
<1> QED BY <1>1, <1>2, <1>3, <1>4, <1>5 DEF Echoes

AreTwo(q, a, b) ==
    q \o <<a, b>> = (q \o <<a>>) \o <<b>> /\ Len(<<a, b>>) = 2 /\ <<a, b>> \in Seq(Nat)

LEMMA TwoBytes ==
    ASSUME NEW q \in Seq(Nat), NEW a \in Nat, NEW b \in Nat
    PROVE  AreTwo(q, a, b)
<1>1. <<a>> \o <<b>> = <<a, b>>
  <2>1. PICK s, t : s = <<a>> \o <<b>> /\ t = <<a, b>>
    OBVIOUS
  <2>2. PICK x, y : x = <<a>> /\ y = <<b>>
    OBVIOUS
  <2>3. /\ x \in Seq(Nat) /\ y \in Seq(Nat) /\ Len(x) = 1 /\ Len(y) = 1
        /\ x[1] = a /\ y[1] = b
    BY <2>2
  <2>4. s \in Seq(Nat) /\ Len(s) = 2 /\ s[1] = a /\ s[2] = b
    BY <2>1, <2>2, <2>3, ConcatProperties
  <2>5. t \in Seq(Nat) /\ Len(t) = 2 /\ t[1] = a /\ t[2] = b
    BY <2>1
  <2>6. \A i \in 1 .. Len(s) : s[i] = t[i]
    BY <2>4, <2>5
  <2>7. s = t
    BY <2>4, <2>5, <2>6, SeqEqual
  <2> QED BY <2>1, <2>7
<1>2. q \o (<<a>> \o <<b>>) = (q \o <<a>>) \o <<b>>
  <2>1. AreJoined(q, <<a>>, <<b>>)
    BY OneByte, Joined
  <2> QED BY <2>1 DEF AreJoined
<1>3. Len(<<a, b>>) = 2 /\ <<a, b>> \in Seq(Nat)
  OBVIOUS
<1> QED BY <1>1, <1>2, <1>3 DEF AreTwo

AreThree(q, a, b, c) ==
    /\ q \o <<a, b, c>> = ((q \o <<a>>) \o <<b>>) \o <<c>>
    /\ Len(<<a, b, c>>) = 3 /\ <<a, b, c>> \in Seq(Nat)

LEMMA ThreeBytes ==
    ASSUME NEW q \in Seq(Nat), NEW a \in Nat, NEW b \in Nat, NEW c \in Nat
    PROVE  AreThree(q, a, b, c)
<1>1. <<a, b>> \o <<c>> = <<a, b, c>>
  <2>1. PICK s, t : s = <<a, b>> \o <<c>> /\ t = <<a, b, c>>
    OBVIOUS
  <2>2. PICK x, y : x = <<a, b>> /\ y = <<c>>
    OBVIOUS
  <2>3. /\ x \in Seq(Nat) /\ y \in Seq(Nat) /\ Len(x) = 2 /\ Len(y) = 1
        /\ x[1] = a /\ x[2] = b /\ y[1] = c
    BY <2>2
  <2>4. s \in Seq(Nat) /\ Len(s) = 3 /\ s[1] = a /\ s[2] = b /\ s[3] = c
    BY <2>1, <2>2, <2>3, ConcatProperties
  <2>5. t \in Seq(Nat) /\ Len(t) = 3 /\ t[1] = a /\ t[2] = b /\ t[3] = c
    BY <2>1
  <2>6. \A i \in 1 .. Len(s) : s[i] = t[i]
    BY <2>4, <2>5
  <2>7. s = t
    BY <2>4, <2>5, <2>6, SeqEqual
  <2> QED BY <2>1, <2>7
<1>2. AreTwo(q, a, b)
  BY TwoBytes
<1>3. PICK t \in Seq(Nat) : t = <<a, b>>
  BY <1>2 DEF AreTwo
<1>4. q \o (t \o <<c>>) = (q \o t) \o <<c>>
  <2>1. AreJoined(q, t, <<c>>)
    BY <1>3, OneByte, Joined
  <2> QED BY <2>1 DEF AreJoined
<1>5. q \o t = (q \o <<a>>) \o <<b>>
  BY <1>3, <1>2 DEF AreTwo
<1>6. Len(<<a, b, c>>) = 3 /\ <<a, b, c>> \in Seq(Nat)
  OBVIOUS
<1> QED BY <1>1, <1>3, <1>4, <1>5, <1>6 DEF AreThree

\* A character that is echoed as itself.
LEMMA ShownPlain ==
    ASSUME NEW p, NEW r \in Seq(Nat), NEW c \in Nat, c \notin {NL, BS, CR}
    PROVE  Shown(Seen(p, r), c) = Seen(p, r \o <<c>>)
<1>1. Append(r, c) = r \o <<c>>
  BY AppendIsConcat
<1>2. Shown([past |-> p, row |-> r], c) = [past |-> p, row |-> Append(r, c)]
  BY DEF Shown
<1> QED BY <1>1, <1>2 DEF Seen

\* Taking back the last one.
LEMMA FrontOfAppend ==
    ASSUME NEW r \in Seq(Nat), NEW c \in Nat
    PROVE  /\ r \o <<c>> \in Seq(Nat) /\ r \o <<c>> # <<>>
           /\ SubSeq(r \o <<c>>, 1, Len(r \o <<c>>) - 1) = r
<1>1. PICK t : t = r \o <<c>> /\ t = Append(r, c)
  BY AppendIsConcat
<1>2. t \in Seq(Nat) /\ t # <<>> /\ Len(t) = Len(r) + 1 /\ Len(r) \in Nat
  BY <1>1, AppendProperties
<1>3. SubSeq(t, 1, Len(t) - 1) = r
  <2>1. Len(t) - 1 = Len(r)
    BY <1>2
  <2>2. CASE Len(r) = 0
    <3>1. SubSeq(t, 1, 0) = <<>>
      BY SubSeqEmpty
    <3>2. r = <<>>
      BY <2>2, EmptySeq
    <3> QED BY <2>1, <2>2, <3>1, <3>2
  <2>3. CASE Len(r) # 0
    <3>1. 1 \in 1 .. Len(r) /\ Len(r) \in 1 .. Len(r)
      BY <1>2, <2>3
    <3>2. SubSeq(r \o <<c>>, 1, Len(r)) = SubSeq(r, 1, Len(r))
      BY <3>1, OneByte, SubSeqOfConcat1
    <3>3. SubSeq(r, 1, Len(r)) = r
      BY SubSeqFull
    <3> QED BY <1>1, <2>1, <3>2, <3>3
  <2> QED BY <2>2, <2>3
<1> QED BY <1>1, <1>2, <1>3

\* A backspace where there is something to take back.
LEMMA ShownBack ==
    ASSUME NEW p, NEW r \in Seq(Nat), NEW c \in Nat
    PROVE  Shown(Seen(p, r \o <<c>>), BS) = Seen(p, r)
<1>1. PICK row : row = r \o <<c>> /\ row # <<>> /\ SubSeq(row, 1, Len(row) - 1) = r
  BY FrontOfAppend
<1>2. PICK shorter : shorter = SubSeq(row, 1, Len(row) - 1) /\ shorter = r
  BY <1>1
<1>3. PICK screen : screen = [past |-> p, row |-> row]
  OBVIOUS
<1>4. screen.row = row /\ screen.past = p
  BY <1>3
<1>5. Shown(screen, BS) = [screen EXCEPT !.row = shorter]
  BY <1>1, <1>2, <1>4 DEF Shown, NL, BS, CR
<1>6. [screen EXCEPT !.row = shorter] = [past |-> p, row |-> shorter]
  BY <1>3
<1> QED BY <1>1, <1>2, <1>3, <1>5, <1>6 DEF Seen

\* What an account says, number by number.
Numbers(w, n, base, e, g, len) ==
    \E added \in Seq(Nat), a \in Nat, x \in Nat :
        /\ w.input = base \o added
        /\ a = Len(w.echo) /\ x = Len(added) + Len(w.line)
        /\ Within(a, x, n, len)
        /\ OnScreen(e \o w.echo) = Seen(g \o added, w.line)

LEMMA AccountFacts ==
    ASSUME NEW base \in Seq(Nat), NEW e, NEW g, NEW len \in Nat, NEW n \in Nat,
           NEW w \in Works, Account(w, n, base, e, g, len)
    PROVE  Numbers(w, n, base, e, g, len)
<1>1. PICK added \in Seq(Nat) :
        /\ w.input = base \o added
        /\ Within(Len(w.echo), Len(added) + Len(w.line), n, len)
        /\ OnScreen(e \o w.echo) = Seen(g \o added, w.line)
  BY DEF Account
<1>2. w.echo \in Seq(Nat) /\ w.line \in Seq(Nat)
  BY DEF Works, Held
<1>3. PICK a \in Nat, x \in Nat : a = Len(w.echo) /\ x = Len(added) + Len(w.line)
  BY <1>1, <1>2
<1>4. Within(a, x, n, len)
  BY <1>1, <1>3
<1> QED BY <1>1, <1>3, <1>4 DEF Numbers

LEMMA AccountFrom ==
    ASSUME NEW base, NEW e, NEW g, NEW len, NEW n, NEW w, NEW added \in Seq(Nat),
           w.input = base \o added, Within(Len(w.echo), Len(added) + Len(w.line), n, len),
           OnScreen(e \o w.echo) = Seen(g \o added, w.line)
    PROVE  Account(w, n, base, e, g, len)
BY DEF Account

\* An erase takes back a character on the screen and in the line.
LEMMA EraseAccounts ==
    ASSUME NEW base \in Seq(Nat), NEW e \in Seq(Nat), NEW g \in Seq(Nat), NEW len \in Nat,
           NEW total \in Nat, NEW n \in Nat, n + 1 <= total, Ample(Len(base), len, total),
           NEW w \in Works, Account(w, n, base, e, g, len)
    PROVE  Account(Erase(w), n + 1, base, e, g, len)
<1>1. PICK added \in Seq(Nat), a \in Nat, x \in Nat :
        /\ w.input = base \o added
        /\ a = Len(w.echo) /\ x = Len(added) + Len(w.line)
        /\ Within(a, x, n, len)
        /\ OnScreen(e \o w.echo) = Seen(g \o added, w.line)
  <2>1. Numbers(w, n, base, e, g, len)
    BY AccountFacts
  <2> QED BY <2>1 DEF Numbers
<1>2. /\ w.line \in Seq(Nat) /\ Len(w.line) \in Nat /\ w.echo \in Seq(Nat) /\ w.echo \in Held
      /\ Len(w.echo) \in Nat
  BY DEF Works, Held
<1>3. Len(added) \in Nat /\ Len(base) \in Nat
  BY <1>1
<1>4. a + 3 <= TtySize
  BY <1>1, <1>3, WithinRoom
<1>5. CASE w.line = <<>>
  <2>1. Erase(w) = w
    BY <1>5 DEF Erase
  <2>2. Within(a, x, n + 1, len)
    <3>1. a <= a + 3 /\ x <= x + 2
      BY <1>1
    <3> QED BY <1>1, <3>1, WithinNext
  <2> QED BY <1>1, <2>1, <2>2 DEF Account
<1>6. CASE w.line # <<>>
  <2>1. PICK line \in Seq(Nat), c \in Nat : w.line = Append(line, c)
    BY <1>2, <1>6, SequenceEmptyOrAppend
  <2>2. w.line = line \o <<c>>
    BY <2>1, AppendIsConcat
  <2>3. /\ SubSeq(w.line, 1, Len(w.line) - 1) = line
        /\ Len(w.line) = Len(line) + 1 /\ Len(line) \in Nat
    BY <2>1, <2>2, FrontOfAppend, AppendProperties
  <2>4. PICK q0, q1, q2, q3 :
          q0 = w.echo /\ q1 = q0 \o <<BS>> /\ q2 = q1 \o <<SP>> /\ q3 = q2 \o <<BS>>
    OBVIOUS
  <2>5. BS \in Nat /\ SP \in Nat
    BY DEF BS, SP
  <2>6. q0 \in Seq(Nat) /\ Len(q0) \in Nat
    BY <1>2, <2>4
  <2>7. /\ q1 \in Seq(Nat) /\ Len(q1) = Len(q0) + 1
        /\ OnScreen(e \o q1) = Shown(OnScreen(e \o q0), BS)
    <3>1. Echoes(e, q0, BS)
      BY <2>5, <2>6, EchoOne
    <3> QED BY <2>4, <3>1 DEF Echoes
  <2>8. /\ q2 \in Seq(Nat) /\ Len(q2) = Len(q1) + 1
        /\ OnScreen(e \o q2) = Shown(OnScreen(e \o q1), SP)
    <3>1. Echoes(e, q1, SP)
      BY <2>5, <2>7, EchoOne
    <3> QED BY <2>4, <3>1 DEF Echoes
  <2>9. /\ q3 \in Seq(Nat) /\ Len(q3) = Len(q2) + 1
        /\ OnScreen(e \o q3) = Shown(OnScreen(e \o q2), BS)
    <3>1. Echoes(e, q2, BS)
      BY <2>5, <2>8, EchoOne
    <3> QED BY <2>4, <3>1 DEF Echoes
  <2>10. /\ q3 = w.echo \o <<BS, SP, BS>> /\ Len(<<BS, SP, BS>>) = 3
         /\ <<BS, SP, BS>> \in Seq(Nat)
    <3>1. PICK b \in Nat, s \in Nat : b = BS /\ s = SP
      BY <2>5
    <3>2. AreThree(q0, b, s, b)
      BY <2>6, ThreeBytes
    <3> QED BY <2>4, <3>1, <3>2 DEF AreThree
  <2>11. PICK past : past = g \o added
    OBVIOUS
  <2>12. OnScreen(e \o q1) = Seen(past, line)
    <3>1. Shown(Seen(past, line \o <<c>>), BS) = Seen(past, line)
      BY ShownBack
    <3> QED BY <1>1, <2>2, <2>4, <2>7, <2>11, <3>1
  <2>13. OnScreen(e \o q2) = Seen(past, line \o <<SP>>)
    <3>1. SP \notin {NL, BS, CR}
      BY DEF SP, NL, BS, CR
    <3>2. Shown(Seen(past, line), SP) = Seen(past, line \o <<SP>>)
      BY <2>5, <3>1, ShownPlain
    <3> QED BY <2>8, <2>12, <3>2
  <2>14. OnScreen(e \o q3) = Seen(past, line)
    <3>1. Shown(Seen(past, line \o <<SP>>), BS) = Seen(past, line)
      BY <2>5, ShownBack
    <3> QED BY <2>9, <2>13, <3>1
  <2>15. Queued(w.echo, <<BS, SP, BS>>) = q3
    <3>1. Len(w.echo) + Len(<<BS, SP, BS>>) <= TtySize
      BY <1>1, <1>4, <2>10
    <3> QED BY <1>2, <2>10, <3>1, QueuedFacts
  <2>16. Erase(w) = [w EXCEPT !.line = line, !.echo = q3]
    BY <1>6, <2>3, <2>15 DEF Erase
  <2>17. Erase(w).line = line /\ Erase(w).echo = q3 /\ Erase(w).input = w.input
    BY <2>16 DEF Works
  <2>18. Within(Len(q3), Len(added) + Len(line), n + 1, len)
    <3>1. PICK b \in Nat, y \in Nat : b = Len(q3) /\ y = Len(added) + Len(line)
      BY <1>3, <2>3, <2>9
    <3>2. b <= a + 3 /\ y <= x + 2
      BY <1>1, <1>3, <2>3, <2>4, <2>6, <2>7, <2>8, <2>9, <3>1
    <3> QED BY <1>1, <3>1, <3>2, WithinNext
  <2> QED BY <1>1, <2>11, <2>14, <2>17, <2>18, AccountFrom
<1> QED BY <1>5, <1>6

\* What a character is echoed as, and the line takes.
EchoedAs(c, s) ==
    s = (IF Escaped(c) THEN Escape(c) ELSE <<c>>) /\ EchoOf(c) = s

IsShort(s, a, b) ==
    /\ s = <<a>> \/ s = <<a, b>>
    /\ a \notin {NL, BS, CR} /\ b \notin {NL, BS, CR}
    /\ s \in Seq(Nat) /\ Len(s) \in Nat /\ Len(s) <= 2

\* A character that is neither the erase character nor a newline is echoed and joins the
\* line; s is what it is echoed as.
LEMMA ExtendAccounts ==
    ASSUME NEW base \in Seq(Nat), NEW e \in Seq(Nat), NEW g \in Seq(Nat), NEW len \in Nat,
           NEW total \in Nat, NEW n \in Nat, n + 1 <= total, Ample(Len(base), len, total),
           NEW w0 \in Works, Account(w0, n, base, e, g, len),
           NEW c \in Nat, NEW s, EchoedAs(c, s),
           NEW a \in Nat, NEW b \in Nat,
           IsShort(s, a, b)
    PROVE  Account(Extend(Noticed(w0, c), c), n + 1, base, e, g, len)
<1>1. PICK added \in Seq(Nat), a0 \in Nat, x0 \in Nat :
        /\ w0.input = base \o added
        /\ a0 = Len(w0.echo) /\ x0 = Len(added) + Len(w0.line)
        /\ Within(a0, x0, n, len)
        /\ OnScreen(e \o w0.echo) = Seen(g \o added, w0.line)
  <2>1. Numbers(w0, n, base, e, g, len)
    BY AccountFacts
  <2> QED BY <2>1 DEF Numbers
<1>2. /\ w0.line \in Seq(Nat) /\ Len(w0.line) \in Nat /\ w0.echo \in Seq(Nat) /\ w0.echo \in Held
      /\ Len(w0.echo) \in Nat
  BY DEF Works, Held
<1>3. Len(added) \in Nat /\ Len(base) \in Nat
  BY <1>1
<1>4. a0 + 3 <= TtySize /\ x0 + 2 < LineSize - 1
  BY <1>1, <1>3, WithinRoom
<1>5. PICK past, row, q : past = g \o added /\ row = w0.line \o s /\ q = w0.echo \o s
  OBVIOUS
<1>6. s \in Seq(Nat) /\ Len(s) \in Nat /\ Len(s) <= 2
  BY DEF IsShort
<1>7. OnScreen(e \o q) = Seen(past, row)
  <2>1. PICK qa, ra : qa = w0.echo \o <<a>> /\ ra = w0.line \o <<a>>
    OBVIOUS
  <2>2. Echoes(e, w0.echo, a)
    BY <1>2, EchoOne
  <2>3. qa \in Seq(Nat) /\ OnScreen(e \o qa) = Shown(OnScreen(e \o w0.echo), a)
    BY <2>1, <2>2 DEF Echoes
  <2>4. Shown(Seen(past, w0.line), a) = Seen(past, ra)
    BY <1>2, <2>1, ShownPlain DEF IsShort
  <2>5. OnScreen(e \o qa) = Seen(past, ra)
    BY <1>1, <1>5, <2>3, <2>4
  <2>6. CASE s = <<a>>
    BY <1>5, <2>1, <2>5, <2>6
  <2>7. CASE s = <<a, b>>
    <3>1. w0.echo \o <<a, b>> = qa \o <<b>>
      <4>1. AreTwo(w0.echo, a, b)
        BY <1>2, TwoBytes
      <4> QED BY <2>1, <4>1 DEF AreTwo
    <3>2. w0.line \o <<a, b>> = ra \o <<b>>
      <4>1. AreTwo(w0.line, a, b)
        BY <1>2, TwoBytes
      <4> QED BY <2>1, <4>1 DEF AreTwo
    <3>3. Echoes(e, qa, b)
      BY <2>3, EchoOne
    <3>4. ra \in Seq(Nat)
      BY <1>2, <2>1, OneByte, ConcatProperties
    <3>5. Shown(Seen(past, ra), b) = Seen(past, ra \o <<b>>)
      BY <3>4, ShownPlain DEF IsShort
    <3>6. OnScreen(e \o (qa \o <<b>>)) = Seen(past, ra \o <<b>>)
      BY <2>5, <3>3, <3>5 DEF Echoes
    <3> QED BY <1>5, <2>7, <3>1, <3>2, <3>6
  <2> QED BY <2>6, <2>7 DEF IsShort
<1>8. Len(q) = Len(w0.echo) + Len(s) /\ Len(row) = Len(w0.line) + Len(s)
  BY <1>2, <1>5, <1>6, ConcatProperties
<1>9. Queued(w0.echo, s) = q
  <2>1. Len(w0.echo) + Len(s) <= TtySize
    <3>1. PICK k \in Nat, size \in Nat : k = Len(s) /\ size = TtySize
      BY <1>6, TtyFacts
    <3>2. a0 + k <= size
      BY <1>4, <1>6, <3>1
    <3> QED BY <1>1, <3>1, <3>2
  <2> QED BY <1>2, <1>5, <1>6, <2>1, QueuedFacts
<1>10. PICK w \in Works : w = Noticed(w0, c) /\ w.line = w0.line /\ w.input = w0.input /\ w.echo = q
  <2>1. Noticed(w0, c) \in Works /\ Noticed(w0, c).line = w0.line
        /\ Noticed(w0, c).input = w0.input /\ Noticed(w0, c).echo = Queued(w0.echo, EchoOf(c))
    BY NoticedType
  <2> QED BY <1>9, <2>1 DEF EchoedAs
<1>11. Extend(w, c) = [w EXCEPT !.line = row]
  <2>1. Len(w.line) < LineSize - Len(s)
    <3>1. PICK k \in Nat, l \in Nat, d \in Nat, size \in Nat :
            k = Len(s) /\ l = Len(w0.line) /\ d = Len(added) /\ size = LineSize
      BY <1>2, <1>3, <1>6, TtyFacts
    <3>2. x0 = d + l /\ x0 + 2 < size - 1 /\ k <= 2
      BY <1>1, <1>4, <1>6, <3>1
    <3>3. l < size - k
      BY <3>2
    <3> QED BY <1>10, <3>1, <3>3
  <2> QED BY <1>5, <1>10, <2>1 DEF Extend, EchoedAs
<1>12. Extend(w, c).line = row /\ Extend(w, c).echo = q /\ Extend(w, c).input = w0.input
  BY <1>10, <1>11 DEF Works
<1>13. Within(Len(q), Len(added) + Len(row), n + 1, len)
  <2>1. PICK k \in Nat, l \in Nat, d \in Nat :
          k = Len(s) /\ l = Len(w0.line) /\ d = Len(added) /\ k <= 2
    BY <1>2, <1>3, <1>6
  <2>2. Len(q) = a0 + k /\ Len(row) = l + k /\ x0 = d + l
    BY <1>1, <1>8, <2>1
  <2>3. a0 + k \in Nat /\ d + (l + k) \in Nat /\ a0 + k <= a0 + 3 /\ d + (l + k) <= x0 + 2
    <3>1. k <= 2 /\ x0 = d + l
      BY <2>1, <2>2
    <3> QED BY <3>1
  <2>4. Within(a0 + k, d + (l + k), n + 1, len)
    BY <1>1, <2>3, WithinNext
  <2> QED BY <2>1, <2>2, <2>4
<1> QED BY <1>1, <1>5, <1>7, <1>10, <1>12, <1>13, AccountFrom

\* The end of a line goes to the readers and to the screen; that of an empty line to
\* neither.
LEMMA EndLineAccounts ==
    ASSUME NEW base \in Seq(Nat), NEW e \in Seq(Nat), NEW g \in Seq(Nat), NEW len \in Nat,
           NEW total \in Nat, NEW n \in Nat, n + 1 <= total, Ample(Len(base), len, total),
           NEW w0 \in Works, Account(w0, n, base, e, g, len),
           "ECHO" \in term.lflag, EchoOf(NL) = <<NL>>
    PROVE  Account(EndLine(Noticed(w0, NL)), n + 1, base, e, g, len)
<1>1. PICK added \in Seq(Nat), a0 \in Nat, x0 \in Nat :
        /\ w0.input = base \o added
        /\ a0 = Len(w0.echo) /\ x0 = Len(added) + Len(w0.line)
        /\ Within(a0, x0, n, len)
        /\ OnScreen(e \o w0.echo) = Seen(g \o added, w0.line)
  <2>1. Numbers(w0, n, base, e, g, len)
    BY AccountFacts
  <2> QED BY <2>1 DEF Numbers
<1> DEFINE past == g \o added
           line == w0.line
           q0   == w0.echo
           q1   == q0 \o <<NL>>
           q2   == q1 \o <<CR>>
<1>2. /\ past = g \o added
      /\ line = w0.line
      /\ q0 = w0.echo
      /\ q1 = q0 \o <<NL>>
      /\ q2 = q1 \o <<CR>>
  BY DEF past, line, q0, q1, q2
<1> HIDE DEF past, line, q0, q1, q2
<1>3. /\ line \in Seq(Nat) /\ Len(line) \in Nat /\ q0 \in Seq(Nat) /\ q0 \in Held
      /\ Len(q0) \in Nat /\ w0.input \in Held /\ w0.input \in Seq(Nat)
  <2>1. w0.line \in Seq(Nat) /\ w0.echo \in Held /\ w0.input \in Held
    BY DEF Works
  <2>2. w0.echo \in Seq(Nat) /\ w0.input \in Seq(Nat)
    BY <2>1 DEF Held
  <2>3. Len(w0.line) \in Nat /\ Len(w0.echo) \in Nat
    BY <2>1, <2>2
  <2> QED BY <1>2, <2>1, <2>2, <2>3
<1>4. Len(added) \in Nat /\ Len(base) \in Nat /\ Len(w0.input) = Len(base) + Len(added)
  BY <1>1, ConcatProperties
<1>5. a0 + 3 <= TtySize /\ Len(base) + x0 + 2 <= TtySize
  BY <1>1, <1>4, WithinRoom
<1>6. Len(w0.input) + Len(line) <= TtySize /\ Len(w0.input) + Len(line) + 1 <= TtySize
  <2>1. PICK d \in Nat, l \in Nat, lb \in Nat, size \in Nat :
          d = Len(added) /\ l = Len(line) /\ lb = Len(base) /\ size = TtySize
    BY <1>3, <1>4, TtyFacts
  <2>2. x0 = d + l /\ Len(w0.input) = lb + d /\ lb + x0 + 2 <= size
    BY <1>1, <1>2, <1>4, <1>5, <2>1
  <2>3. lb + d + l <= size /\ lb + d + l + 1 <= size
    <3>1. lb + (d + l) + 2 <= size
      BY <2>2
    <3> QED BY <2>1, <3>1
  <2>4. Len(w0.input) + Len(line) = lb + d + l
    BY <2>1, <2>2
  <2> QED BY <2>1, <2>3, <2>4
<1>7. NL \in Nat /\ CR \in Nat
  BY DEF NL, CR
<1>8. q1 \in Seq(Nat) /\ Len(q1) = Len(q0) + 1 /\ OnScreen(e \o q1) = Shown(Seen(past, line), NL)
  <2>1. Echoes(e, q0, NL)
    BY <1>3, <1>7, EchoOne
  <2> QED BY <1>1, <1>2, <2>1 DEF Echoes
<1>9. q2 \in Seq(Nat) /\ Len(q2) = Len(q1) + 1 /\ OnScreen(e \o q2) = Shown(OnScreen(e \o q1), CR)
  <2>1. Echoes(e, q1, CR)
    BY <1>7, <1>8, EchoOne
  <2> QED BY <1>2, <2>1 DEF Echoes
<1>10. Queued(q0, <<NL>>) = q1 /\ q1 \in Held
  <2>1. <<NL>> \in Seq(Nat) /\ Len(<<NL>>) = 1
    BY <1>7, OneByte
  <2>2. Len(q0) + Len(<<NL>>) <= TtySize
    BY <1>1, <1>2, <1>5, <2>1, TtyFacts
  <2> QED BY <1>2, <1>3, <2>1, <2>2, QueuedFacts
<1>11. Queued(q1, <<CR>>) = q2
  <2>1. <<CR>> \in Seq(Nat) /\ Len(<<CR>>) = 1
    BY <1>7, OneByte
  <2>2. Len(q1) + Len(<<CR>>) <= TtySize
    BY <1>1, <1>2, <1>5, <1>8, <2>1, TtyFacts
  <2> QED BY <1>2, <1>10, <2>1, <2>2, QueuedFacts
<1>12. PICK w \in Works : w = Noticed(w0, NL) /\ w.line = line /\ w.input = w0.input /\ w.echo = q1
  <2>1. Noticed(w0, NL) \in Works /\ Noticed(w0, NL).line = w0.line
        /\ Noticed(w0, NL).input = w0.input /\ Noticed(w0, NL).echo = Queued(w0.echo, EchoOf(NL))
    BY <1>7, NoticedType
  <2> QED BY <1>2, <1>10, <2>1
<1>13. CASE line = <<>>
  <2>1. EndLine(w) = w
    BY <1>12, <1>13 DEF EndLine
  <2>2. OnScreen(e \o q1) = Seen(past, line)
    <3>1. Shown([past |-> past, row |-> line], NL) = [past |-> past, row |-> line]
      BY <1>13 DEF Shown, NL, BS, CR
    <3> QED BY <1>8, <3>1 DEF Seen
  <2>3. Within(Len(q1), Len(added) + Len(line), n + 1, len)
    <3>1. PICK y \in Nat, z \in Nat : y = Len(q1) /\ z = x0
      BY <1>1, <1>3, <1>8
    <3>2. y <= a0 + 3 /\ z <= x0 + 2
      BY <1>1, <1>2, <1>8, <3>1
    <3> QED BY <1>1, <1>2, <3>1, <3>2, WithinNext
  <2> QED BY <1>1, <1>2, <1>12, <2>1, <2>2, <2>3, AccountFrom
<1>14. CASE line # <<>>
  <2>1. PICK most, more, part, input :
          /\ most = added \o line
          /\ more = most \o <<NL>>
          /\ part = w0.input \o line
          /\ input = part \o <<NL>>
    OBVIOUS
  <2>2. <<NL>> \in Seq(Nat) /\ Len(<<NL>>) = 1
    BY <1>7, OneByte
  <2>3. most \in Seq(Nat) /\ Len(most) = Len(added) + Len(line)
    BY <1>1, <1>3, <2>1, ConcatProperties
  <2>4. more \in Seq(Nat) /\ Len(more) = Len(added) + Len(line) + 1
    BY <1>3, <1>4, <2>1, <2>2, <2>3, ConcatProperties
  <2>5. part \in Seq(Nat) /\ Len(part) = Len(w0.input) + Len(line)
    BY <1>3, <2>1, ConcatProperties
  <2>6. base \o more = input
    <3>1. base \o more = (base \o most) \o <<NL>>
      <4>1. AreJoined(base, most, <<NL>>)
        BY <2>2, <2>3, Joined
      <4> QED BY <2>1, <4>1 DEF AreJoined
    <3>2. base \o most = (base \o added) \o line
      <4>1. AreJoined(base, added, line)
        BY <1>1, <1>3, Joined
      <4> QED BY <2>1, <4>1 DEF AreJoined
    <3> QED BY <1>1, <2>1, <3>1, <3>2
  <2>7. g \o more = (past \o line) \o <<NL>>
    <3>1. g \o more = (g \o most) \o <<NL>>
      <4>1. AreJoined(g, most, <<NL>>)
        BY <2>2, <2>3, Joined
      <4> QED BY <2>1, <4>1 DEF AreJoined
    <3>2. g \o most = (g \o added) \o line
      <4>1. AreJoined(g, added, line)
        BY <1>1, <1>3, Joined
      <4> QED BY <2>1, <4>1 DEF AreJoined
    <3> QED BY <1>2, <3>1, <3>2
  <2>8. Queued(w0.input, line) = part /\ part \in Held
    <3>1. Len(w0.input) + Len(line) <= TtySize
      BY <1>6
    <3> QED BY <1>3, <2>1, <3>1, QueuedFacts
  <2>9. Queued(part, <<NL>>) = input
    <3>1. Len(part) + Len(<<NL>>) <= TtySize
      BY <1>6, <2>2, <2>5
    <3> QED BY <2>1, <2>2, <2>8, <3>1, QueuedFacts
  <2>10. PICK count : count = Len(input) - Len(w.input)
    OBVIOUS
  <2>11. EndLine(w) = [w EXCEPT !.line = <<>>, !.input = input, !.written = count, !.echo = q2]
    BY <1>11, <1>12, <1>14, <2>8, <2>9, <2>10 DEF EndLine
  <2>12. EndLine(w).line = <<>> /\ EndLine(w).input = input /\ EndLine(w).echo = q2
    BY <1>12, <2>11 DEF Works
  <2>13. OnScreen(e \o q1) = Seen(g \o more, <<>>)
    <3>1. PICK done : done = past \o line \o <<NL>>
      OBVIOUS
    <3>2. Shown([past |-> past, row |-> line], NL) = [past |-> done, row |-> <<>>]
      BY <1>14, <3>1 DEF Shown, NL, BS, CR
    <3>3. done = g \o more
      BY <2>7, <3>1
    <3> QED BY <1>8, <3>2, <3>3 DEF Seen
  <2>14. OnScreen(e \o q2) = Seen(g \o more, <<>>)
    <3>1. PICK screen : screen = OnScreen(e \o q1)
      OBVIOUS
    <3>2. Shown(screen, CR) = screen
      BY DEF Shown, NL, BS, CR
    <3> QED BY <1>9, <2>13, <3>1, <3>2
  <2>15. Within(Len(q2), Len(more) + Len(<<>>), n + 1, len)
    <3>1. PICK y \in Nat, z \in Nat : y = Len(q2) /\ z = Len(more) + Len(<<>>)
      BY <1>3, <1>4, <1>8, <1>9, <2>4, NoBytes
    <3>2. y <= a0 + 3 /\ z <= x0 + 2
      BY <1>1, <1>2, <1>3, <1>4, <1>8, <1>9, <2>4, <3>1, NoBytes
    <3> QED BY <1>1, <3>1, <3>2, WithinNext
  <2> QED BY <1>12, <2>4, <2>6, <2>12, <2>14, <2>15, AccountFrom
<1> QED BY <1>12, <1>13, <1>14

LEMMA SevenBits ==
    ASSUME NEW x \in 0 .. 127
    PROVE  x % 128 = x
OBVIOUS

\* What the default settings make of a character: the codes of the erase character and of a
\* newline, or any other.
LEMMA DefaultCharacter ==
    ASSUME term = DefaultTerm, NEW c0 \in Nat
    PROVE  /\ ~Ignored(c0) /\ Override(c0) \notin {BS, CR}
           /\ "ICANON" \in term.lflag /\ "ECHO" \in term.lflag /\ term.verase = 127
<1>1. /\ term.iflag = {"ICRNL"} /\ term.verase = 127
      /\ "ICANON" \in term.lflag /\ "ECHO" \in term.lflag
  BY DEF DefaultTerm
<1>2. "ISTRIP" \notin term.iflag /\ "IGNCR" \notin term.iflag /\ "INLCR" \notin term.iflag
      /\ {"ICRNL", "IGNCR"} \cap term.iflag = {"ICRNL"}
  BY <1>1
<1>3. ~Ignored(c0)
  BY <1>2 DEF Ignored
<1>4. PICK d : d = CASE c0 = CR /\ "IGNCR" \in term.iflag -> c0
                     [] c0 = NL /\ "INLCR" \in term.iflag -> CR
                     [] c0 = CR /\ {"ICRNL", "IGNCR"} \cap term.iflag = {"ICRNL"} -> NL
                     [] OTHER -> c0
  OBVIOUS
<1>5. Override(c0) = IF d = BS THEN term.verase ELSE d
  BY <1>2, <1>4 DEF Override
<1>6. d # CR
  <2>1. CASE c0 = CR
    BY <1>2, <1>4, <2>1 DEF CR, NL
  <2>2. CASE c0 # CR
    BY <1>2, <1>4, <2>2
  <2> QED BY <2>1, <2>2
<1> QED BY <1>1, <1>3, <1>5, <1>6 DEF BS, CR

LEMMA TypeAccounts ==
    ASSUME term = DefaultTerm,
           NEW base \in Seq(Nat), NEW e \in Seq(Nat), NEW g \in Seq(Nat), NEW len \in Nat,
           NEW total \in Nat, NEW n \in Nat, n + 1 <= total, Ample(Len(base), len, total),
           NEW w0 \in Works, Account(w0, n, base, e, g, len), NEW c0 \in Nat
    PROVE  Account(TypeCharacter(w0, c0), n + 1, base, e, g, len)
<1>1. /\ ~Ignored(c0) /\ Override(c0) \notin {BS, CR}
      /\ "ICANON" \in term.lflag /\ "ECHO" \in term.lflag /\ term.verase = 127
  BY DefaultCharacter
<1>2. PICK c \in Nat : c = Override(c0)
  BY <1>1, OverrideType
<1>3. PICK w \in Works : w = Noticed(w0, c) /\ w.line = w0.line
  BY NoticedType
<1>4. ~ (Len(w.line) >= LineSize - 1)
  <2>1. Numbers(w0, n, base, e, g, len)
    BY AccountFacts
  <2>2. PICK added \in Seq(Nat), a \in Nat, x \in Nat :
          x = Len(added) + Len(w0.line) /\ Within(a, x, n, len)
    BY <2>1 DEF Numbers
  <2>3. Len(base) \in Nat
    OBVIOUS
  <2>4. x + 2 < LineSize - 1
    <3>1. PICK lb \in Nat : lb = Len(base) /\ Ample(lb, len, total)
      BY <2>3
    <3> QED BY <2>2, <3>1, WithinRoom
  <2>5. Len(w0.line) \in Nat /\ Len(added) \in Nat
    <3>1. w0.line \in Seq(Nat)
      BY DEF Works
    <3> QED BY <2>2, <3>1
  <2>6. PICK l \in Nat, d \in Nat, size \in Nat :
          l = Len(w0.line) /\ d = Len(added) /\ size = LineSize
    BY <2>5, TtyFacts
  <2>7. d + l + 2 < size - 1
    BY <2>2, <2>4, <2>6
  <2>8. ~ (l >= size - 1)
    BY <2>7
  <2> QED BY <1>3, <2>6, <2>8
<1>5. TypeCharacter(w0, c0) = CASE c = 127 -> Erase(w)
                                [] c # 127 /\ c = NL -> EndLine(w)
                                [] OTHER -> Extend(w, c)
  <2>1. TypeCharacter(w0, c0) = Canonical(w, c)
    BY <1>1, <1>2, <1>3 DEF TypeCharacter, Noticed
  <2> QED BY <1>1, <1>4, <2>1 DEF Canonical
<1>6. CASE c = 127
  <2>1. EchoOf(c) = <<>>
    BY <1>1, <1>6 DEF EchoOf, Escaped
  <2>2. w.echo = w0.echo /\ w.input = w0.input
    <3>1. w0.echo \in Held /\ w0.echo \in Seq(Nat) /\ w0.echo \o <<>> = w0.echo
      <4>1. w0.echo \in Held /\ w0.echo \in Seq(Nat)
        BY DEF Works, Held
      <4> QED BY <4>1, ConcatEmptySeq
    <3>2. Len(w0.echo) \in Nat /\ Len(w0.echo) + Len(<<>>) <= TtySize
      BY <3>1, NoBytes, TtyFacts DEF Held
    <3>3. Queued(w0.echo, <<>>) = w0.echo
      BY <3>1, <3>2, NoBytes, QueuedFacts
    <3>4. Noticed(w0, c).echo = Queued(w0.echo, EchoOf(c)) /\ Noticed(w0, c).input = w0.input
      BY NoticedType
    <3> QED BY <1>3, <2>1, <3>3, <3>4
  <2>3. Account(w, n, base, e, g, len)
    BY <1>3, <2>2 DEF Account
  <2>4. TypeCharacter(w0, c0) = Erase(w)
    BY <1>5, <1>6
  <2> QED BY <2>3, <2>4, EraseAccounts
<1>7. CASE c = NL
  <2>1. EchoOf(NL) = <<NL>>
    BY <1>1 DEF EchoOf, Escaped, NL
  <2>2. TypeCharacter(w0, c0) = EndLine(w)
    BY <1>5, <1>7 DEF NL
  <2> QED BY <1>1, <1>3, <1>7, <2>1, <2>2, EndLineAccounts
<1>8. CASE c # 127 /\ c # NL
  <2>1. TypeCharacter(w0, c0) = Extend(w, c)
    BY <1>5, <1>8
  <2>2. CASE iscntrl(c)
    <3>1. Escaped(c)
      BY <1>1, <1>2, <1>8, <2>2 DEF Escaped
    <3>2. EchoedAs(c, Escape(c))
      BY <3>1 DEF EchoOf, EchoedAs
    <3>3. PICK b \in Nat, a \in Nat : a = CARET /\ b = (64 + c) % 128
      BY EscapeType
    <3>4. Escape(c) = <<a, b>>
      BY <3>3 DEF Escape
    <3>5. c < 32
      BY <1>8, <2>2 DEF iscntrl
    <3>6. b >= 64
      <4>1. 64 + c \in 64 .. 127
        BY <3>5
      <4>2. PICK x \in 0 .. 127 : x = 64 + c
        BY <4>1
      <4>3. (64 + c) % 128 = 64 + c
        BY <4>2, SevenBits
      <4> QED BY <3>3, <4>1, <4>3
    <3>7. a \notin {NL, BS, CR} /\ b \notin {NL, BS, CR}
      BY <3>3, <3>6 DEF CARET, NL, BS, CR
    <3>8. PICK s : s = Escape(c) /\ s \in Seq(Nat) /\ Len(s) \in Nat /\ Len(s) <= 2
      <4>1. Escape(c) \in Seq(Nat) /\ Len(Escape(c)) = 2
        BY EscapeType
      <4>2. Len(Escape(c)) \in Nat /\ Len(Escape(c)) <= 2
        BY <4>1
      <4> QED BY <4>1, <4>2
    <3>9. IsShort(s, a, b) /\ EchoedAs(c, s)
      BY <3>2, <3>4, <3>7, <3>8 DEF IsShort
    <3>10. Account(Extend(Noticed(w0, c), c), n + 1, base, e, g, len)
      BY <1>2, <3>3, <3>9, ExtendAccounts
    <3> QED BY <1>3, <2>1, <3>10
  <2>3. CASE ~iscntrl(c)
    <3>1. ~Escaped(c)
      BY <2>3 DEF Escaped
    <3>2. EchoedAs(c, <<c>>)
      BY <1>1, <1>8, <3>1 DEF EchoOf, EchoedAs
    <3>3. c \notin {NL, BS, CR}
      BY <1>1, <1>2, <1>8
    <3>4. PICK s : s = <<c>>
      OBVIOUS
    <3>5. s \in Seq(Nat) /\ Len(s) = 1
      BY <3>4, OneByte
    <3>6. Len(s) \in Nat /\ Len(s) <= 2
      BY <3>5
    <3>7. IsShort(s, c, c) /\ EchoedAs(c, s)
      BY <3>2, <3>3, <3>4, <3>5, <3>6 DEF IsShort
    <3>8. Account(Extend(Noticed(w0, c), c), n + 1, base, e, g, len)
      BY <1>2, <3>7, ExtendAccounts
    <3> QED BY <1>3, <2>1, <3>8
  <2> QED BY <2>2, <2>3
<1> QED BY <1>6, <1>7, <1>8

\* Whole calls

\* How much of a chunk a loop takes.
Taken(chunk, held) == Smaller(Len(chunk), TtySize - Len(held))

LEMMA TakenFacts ==
    ASSUME NEW chunk \in Seq(Nat), NEW held \in Held
    PROVE  /\ Taken(chunk, held) \in 0 .. Len(chunk)
           /\ Len(held) + Len(chunk) <= TtySize => Taken(chunk, held) = Len(chunk)
<1>1. Len(held) \in Nat /\ Len(held) <= TtySize /\ TtySize \in Nat /\ Len(chunk) \in Nat
  BY TtyFacts DEF Held
<1> QED BY <1>1 DEF Taken, Smaller

\* The start of a call.
Fresh == [line |-> line_buffer, input |-> buffer_master_write,
          echo |-> <<>>, raised |-> <<>>, written |-> 0]

LEMMA FreshWorks ==
    ASSUME line_buffer \in Seq(Nat), buffer_master_write \in Held
    PROVE  Fresh \in Works
<1>1. <<>> \in Held /\ <<>> \in Seq(Signals)
  BY NoBytes, EmptySeq, TtyFacts DEF Held
<1> QED BY <1>1 DEF Fresh, Works

\* The loop of master_write, character by character.
LEMMA TypedRuns ==
    ASSUME NEW chunk \in Seq(Nat), term.verase \in Nat,
           line_buffer \in Seq(Nat), buffer_master_write \in Held
    PROVE  \E g : /\ g[0] = Fresh
                  /\ \A i \in 1 .. Taken(chunk, buffer_master_write) :
                        g[i] = TypeCharacter(g[i - 1], chunk[i])
                  /\ \A i \in 0 .. Taken(chunk, buffer_master_write) : g[i] \in Works
                  /\ Typed(chunk) = g[Taken(chunk, buffer_master_write)]
<1> DEFINE start == Fresh
           Clauses(f) == f = [i \in 0 .. Taken(chunk, buffer_master_write) |->
                                 IF i = 0 THEN start ELSE TypeCharacter(f[i - 1], chunk[i])]
           Done == CHOOSE f : Clauses(f)
<1>1. PICK n \in Nat : n = Taken(chunk, buffer_master_write) /\ n <= Len(chunk)
  BY TakenFacts
<1>2. PICK first : first \in Works /\ first = start
  BY FreshWorks
<1>3. \A i \in 1 .. n : chunk[i] \in Nat
  BY <1>1
<1>4. PICK step : step = [x \in Works \X (1 .. n) |-> TypeCharacter(x[1], chunk[x[2]])]
  OBVIOUS
<1>5. step \in [Works \X (1 .. n) -> Works]
  BY <1>3, <1>4, TypeCharacterType
<1>6. n \in Nat
  BY <1>1
<1>7. \E f \in [0 .. n -> Works] : IsRun(f, n, first, step)
  BY <1>2, <1>5, <1>6, StepsExist
<1>8. PICK f \in [0 .. n -> Works] :
        f[0] = first /\ \A i \in 1 .. n : f[i] = step[<<f[i - 1], i>>]
  BY <1>7 DEF IsRun
<1> HIDE DEF start
<1>9. Clauses(f)
  <2>1. ASSUME NEW i \in 0 .. n, i # 0 PROVE f[i] = TypeCharacter(f[i - 1], chunk[i])
    <3>1. i \in 1 .. n /\ i - 1 \in 0 .. n
      BY <1>6, <2>1
    <3>2. f[i - 1] \in Works
      BY <1>8, <3>1
    <3> QED BY <1>4, <1>8, <3>1, <3>2
  <2>2. f[0] = start
    BY <1>2, <1>8
  <2> QED BY <1>1, <1>8, <2>1, <2>2
<1>10. Clauses(Done)
  <2> HIDE DEF Clauses
  <2> QED BY <1>9, Zenon
<1>11. PICK g : g = Done /\ Clauses(g)
  BY <1>10
<1>12. Typed(chunk) = Done[Taken(chunk, buffer_master_write)]
  BY Zenon DEF Typed, Done, Clauses, start, Fresh, Taken
<1> HIDE DEF Done
<1>13. g[0] = start
  <2>1. 0 \in 0 .. Taken(chunk, buffer_master_write)
    BY <1>1
  <2> QED BY <1>11, <2>1
<1>14. ASSUME NEW i \in 1 .. n PROVE g[i] = TypeCharacter(g[i - 1], chunk[i])
  <2>1. i \in 0 .. n /\ i # 0
    BY <1>6
  <2> QED BY <1>1, <1>11, <2>1
<1>15. \A i \in 0 .. n : g[i] \in Works
  <2> HIDE DEF Clauses
  <2>1. g[0] \in Works
    BY <1>2, <1>13
  <2>2. \A i \in 1 .. n : g[i - 1] \in Works => g[i] \in Works
    BY <1>3, <1>14, TypeCharacterType
  <2> QED BY <1>6, <2>1, <2>2, RunsStay
<1> QED BY <1>1, <1>11, <1>12, <1>13, <1>14, <1>15 DEF start

LEMMA TypedType ==
    ASSUME NEW chunk \in Seq(Nat), term.verase \in Nat,
           line_buffer \in Seq(Nat), buffer_master_write \in Held
    PROVE  Typed(chunk) \in Works
<1>1. PICK n \in Nat : n = Taken(chunk, buffer_master_write)
  BY TakenFacts
<1>2. PICK g : /\ \A i \in 0 .. n : g[i] \in Works
               /\ Typed(chunk) = g[n]
  BY <1>1, TypedRuns
<1>3. n \in 0 .. n
  BY <1>1
<1> QED BY <1>2, <1>3

\* A whole call that has room for all of it.
LEMMA TypedAccounts ==
    ASSUME NEW chunk \in Seq(Nat), term = DefaultTerm,
           line_buffer \in Seq(Nat), buffer_master_write \in Held,
           NEW e \in Seq(Nat), NEW g \in Seq(Nat), OnScreen(e) = Seen(g, line_buffer),
           Ample(Len(buffer_master_write), Len(line_buffer), Len(chunk))
    PROVE  Account(Typed(chunk), Len(chunk), buffer_master_write, e, g, Len(line_buffer))
<1>1. PICK base \in Held, line \in Seq(Nat), total \in Nat :
        base = buffer_master_write /\ line = line_buffer /\ total = Len(chunk)
  OBVIOUS
<1>2. PICK len \in Nat : len = Len(line)
  OBVIOUS
<1>3. base \in Seq(Nat) /\ Len(base) \in Nat
  BY DEF Held
<1>4. Ample(Len(base), len, total)
  BY <1>1, <1>2
<1>5. Taken(chunk, base) = total
  <2>1. PICK lb \in Nat, size \in Nat : lb = Len(base) /\ size = TtySize
    BY <1>3, TtyFacts
  <2>2. lb + len + 2 * total <= size
    BY <1>4, <2>1 DEF Ample
  <2>3. lb + total <= size
    BY <1>1, <1>2, <2>1, <2>2
  <2>4. Len(base) + Len(chunk) <= TtySize
    BY <1>1, <2>1, <2>3
  <2> QED BY <1>1, <2>4, TakenFacts
<1>6. term.verase \in Nat
  BY DEF DefaultTerm
<1>7. PICK h : /\ h[0] = Fresh
               /\ \A i \in 1 .. total : h[i] = TypeCharacter(h[i - 1], chunk[i])
               /\ \A i \in 0 .. total : h[i] \in Works
               /\ Typed(chunk) = h[total]
  BY <1>1, <1>5, <1>6, TypedRuns
<1>8. PICK Good : Good = [i \in 0 .. total |-> {w \in Works : Account(w, i, base, e, g, len)}]
  OBVIOUS
<1>9. h[0] \in Good[0]
  <2>1. h[0] \in Works /\ 0 \in 0 .. total
    BY <1>1, <1>7
  <2>2. PICK w : w = h[0] /\ w.input = base /\ w.line = line /\ w.echo = <<>>
    <3>1. /\ Fresh.input = buffer_master_write /\ Fresh.line = line_buffer
          /\ Fresh.echo = <<>>
      BY DEF Fresh
    <3> QED BY <1>1, <1>7, <3>1
  <2>3. base = base \o <<>> /\ e \o <<>> = e /\ g \o <<>> = g
    BY <1>3, ConcatEmptySeq
  <2>4. Within(Len(w.echo), Len(<<>>) + Len(w.line), 0, len)
    BY <1>2, <2>2, NoBytes DEF Within
  <2>5. OnScreen(e \o w.echo) = Seen(g \o <<>>, w.line)
    BY <1>1, <2>2, <2>3
  <2>6. Account(w, 0, base, e, g, len)
    BY <2>2, <2>3, <2>4, <2>5, NoBytes, AccountFrom
  <2> QED BY <1>8, <2>1, <2>2, <2>6
<1>10. ASSUME NEW i \in 1 .. total, h[i - 1] \in Good[i - 1] PROVE h[i] \in Good[i]
  <2>1. PICK n \in Nat : n = i - 1 /\ n \in 0 .. total /\ n + 1 <= total /\ i = n + 1
    BY <1>1
  <2>2. h[n] \in Works /\ Account(h[n], n, base, e, g, len)
    BY <1>8, <1>10, <2>1
  <2>3. PICK w \in Works : w = h[n]
    BY <2>2
  <2>4. chunk[i] \in Nat
    BY <1>1
  <2>5. PICK c0 \in Nat : c0 = chunk[i]
    BY <2>4
  <2>6. Account(TypeCharacter(w, c0), n + 1, base, e, g, len)
    BY <1>1, <1>2, <1>3, <1>4, <2>1, <2>2, <2>3, <2>5, TypeAccounts
  <2>7. h[i] = TypeCharacter(w, c0) /\ h[i] \in Works /\ i \in 0 .. total
    BY <1>1, <1>7, <2>1, <2>3, <2>5
  <2> QED BY <1>8, <2>1, <2>6, <2>7
<1>11. h[total] \in Good[total]
  BY <1>1, <1>9, <1>10, RunsFollow
<1>12. total \in 0 .. total
  BY <1>1
<1> QED BY <1>1, <1>2, <1>7, <1>8, <1>11, <1>12

\* The states of a call of slave_write.
Prints == [output : Held, written : Nat]

LEMMA PrintCharacterType ==
    ASSUME NEW p \in Prints, NEW c \in Nat
    PROVE  PrintCharacter(p, c) \in Prints
<1>1. PICK to \in Seq(Nat) :
        to = CASE c = CR /\ "OCRNL" \in term.oflag -> <<NL>>
               [] c = CR /\ "OCRNL" \notin term.oflag /\ "ONLRET" \in term.oflag -> <<>>
               [] c = NL /\ "ONLCR" \in term.oflag -> <<CR, NL>>
               [] OTHER -> <<c>>
  <2>1. NL \in Nat /\ CR \in Nat
    BY DEF NL, CR
  <2>2. <<NL>> \in Seq(Nat) /\ <<CR, NL>> \in Seq(Nat) /\ <<c>> \in Seq(Nat)
    BY <2>1
  <2> QED BY <2>2, NoBytes
<1>2. p.output \in Held /\ p.written \in Nat
  BY DEF Prints
<1>3. PICK out : out = p.output \o to
  OBVIOUS
<1>4. PICK n \in Nat : n = p.written + 1
  BY <1>2
<1>5. TtySize - Len(p.output) >= Len(to) => out \in Held
  <2>1. out \in Seq(Nat) /\ Len(out) = Len(p.output) + Len(to) /\ Len(p.output) \in Nat
        /\ Len(to) \in Nat /\ TtySize \in Nat
    BY <1>2, <1>3, ConcatProperties, TtyFacts DEF Held
  <2> QED BY <2>1 DEF Held
<1>6. PrintCharacter(p, c) = IF TtySize - Len(p.output) >= Len(to)
                             THEN [output |-> out, written |-> n] ELSE p
  BY <1>1, <1>3, <1>4 DEF PrintCharacter
<1> QED BY <1>5, <1>6, <1>4 DEF Prints

\* The loop of slave_write.
LEMMA PrintedType ==
    ASSUME NEW chunk \in Seq(Nat), buffer_master_read \in Held
    PROVE  Printed(chunk).output \in Held
<1> DEFINE start == [output |-> buffer_master_read, written |-> 0]
           Clauses(f) == f = [i \in 0 .. Taken(chunk, buffer_master_read) |->
                                 IF i = 0 THEN start ELSE PrintCharacter(f[i - 1], chunk[i])]
           Done == CHOOSE f : Clauses(f)
<1>1. PICK n \in Nat : n = Taken(chunk, buffer_master_read) /\ n <= Len(chunk)
  BY TakenFacts
<1>2. PICK first : first \in Prints /\ first = start
  BY DEF Prints
<1>3. \A i \in 1 .. n : chunk[i] \in Nat
  BY <1>1
<1>4. PICK step : step = [x \in Prints \X (1 .. n) |-> PrintCharacter(x[1], chunk[x[2]])]
  OBVIOUS
<1>5. step \in [Prints \X (1 .. n) -> Prints]
  BY <1>3, <1>4, PrintCharacterType
<1>6. n \in Nat
  BY <1>1
<1>7. \E f \in [0 .. n -> Prints] : IsRun(f, n, first, step)
  BY <1>2, <1>5, <1>6, StepsExist
<1>8. PICK f \in [0 .. n -> Prints] :
        f[0] = first /\ \A i \in 1 .. n : f[i] = step[<<f[i - 1], i>>]
  BY <1>7 DEF IsRun
<1> HIDE DEF start
<1>9. Clauses(f)
  <2>1. ASSUME NEW i \in 0 .. n, i # 0 PROVE f[i] = PrintCharacter(f[i - 1], chunk[i])
    <3>1. i \in 1 .. n /\ i - 1 \in 0 .. n
      BY <1>6, <2>1
    <3>2. f[i - 1] \in Prints
      BY <1>8, <3>1
    <3> QED BY <1>4, <1>8, <3>1, <3>2
  <2>2. f[0] = start
    BY <1>2, <1>8
  <2> QED BY <1>1, <1>8, <2>1, <2>2
<1>10. Clauses(Done)
  <2> HIDE DEF Clauses
  <2> QED BY <1>9, Zenon
<1>11. PICK g : g = Done /\ Clauses(g)
  BY <1>10
<1>12. Printed(chunk) = Done[Taken(chunk, buffer_master_read)]
  BY Zenon DEF Printed, Done, Clauses, start, Taken
<1> HIDE DEF Done
<1>13. g[0] = start
  <2>1. 0 \in 0 .. Taken(chunk, buffer_master_read)
    BY <1>1
  <2> QED BY <1>11, <2>1
<1>14. ASSUME NEW i \in 1 .. n PROVE g[i] = PrintCharacter(g[i - 1], chunk[i])
  <2>1. i \in 0 .. n /\ i # 0
    BY <1>6
  <2> QED BY <1>1, <1>11, <2>1
<1>15. \A i \in 0 .. n : g[i] \in Prints
  <2> HIDE DEF Clauses
  <2>1. g[0] \in Prints
    BY <1>2, <1>13
  <2>2. \A i \in 1 .. n : g[i - 1] \in Prints => g[i] \in Prints
    BY <1>3, <1>14, PrintCharacterType
  <2> QED BY <1>6, <2>1, <2>2, RunsStay
<1>16. Printed(chunk) \in Prints
  <2>1. n \in 0 .. n
    BY <1>6
  <2>2. Printed(chunk) = g[n]
    BY <1>1, <1>11, <1>12
  <2> QED BY <1>15, <2>1, <2>2
<1> QED BY <1>16 DEF Prints

\* The state machine

\* While the settings are the default ones and there was room, the screen shows what the
\* readers have been given and the line being edited.
LineInv ==
    /\ term.verase \in Nat
    /\ line_buffer \in Seq(Nat)
    /\ buffer_master_write \in Held /\ buffer_master_read \in Held
    /\ echoed \in Seq(Nat) /\ given \in Seq(Nat)
    /\ EchoShowsInput

\* The bytes left when some have been taken.
LEMMA RestHeld ==
    ASSUME NEW q \in Held, NEW n \in 0 .. Len(q)
    PROVE  SubSeq(q, n + 1, Len(q)) \in Held
<1>1. q \in Seq(Nat) /\ Len(q) \in Nat /\ Len(q) <= TtySize /\ TtySize \in Nat
  BY TtyFacts DEF Held
<1>2. PICK m \in Nat : m = Len(q)
  BY <1>1
<1>3. \A i \in n + 1 .. m : q[i] \in Nat
  BY <1>1, <1>2
<1>4. PICK t : t = SubSeq(q, n + 1, m)
  OBVIOUS
<1>5. t \in Seq(Nat) /\ Len(t) = IF n + 1 <= m THEN m - (n + 1) + 1 ELSE 0
  BY <1>2, <1>3, <1>4, SubSeqProperties
<1>6. Len(t) <= TtySize
  BY <1>1, <1>2, <1>5
<1> QED BY <1>2, <1>4, <1>5, <1>6 DEF Held

\* What a call adds to the input.
LEMMA AddedInput ==
    ASSUME NEW base \in Seq(Nat), NEW added \in Seq(Nat)
    PROVE  SubSeq(base \o added, Len(base) + 1, Len(base \o added)) = added
<1>1. PICK t, b, a : t = base \o added /\ b = Len(base) /\ a = Len(added)
  OBVIOUS
<1>2. /\ t \in Seq(Nat) /\ Len(t) = b + a /\ b \in Nat /\ a \in Nat
      /\ \A i \in 1 .. b + a : t[i] = IF i <= b THEN base[i] ELSE added[i - b]
  BY <1>1, ConcatProperties
<1>3. PICK s : s = SubSeq(t, b + 1, b + a)
  OBVIOUS
<1>4. /\ s \in Seq(Nat) /\ Len(s) = a
      /\ \A i \in 1 .. a : s[i] = t[b + i]
  <2>1. \A i \in b + 1 .. b + a : t[i] \in Nat
    BY <1>2
  <2>2. /\ s \in Seq(Nat)
        /\ Len(s) = (IF b + 1 <= b + a THEN (b + a) - (b + 1) + 1 ELSE 0)
        /\ \A i \in 1 .. (b + a) - (b + 1) + 1 : s[i] = t[(b + 1) + i - 1]
    BY <1>2, <1>3, <2>1, SubSeqProperties
  <2>3. (b + a) - (b + 1) + 1 = a /\ (IF b + 1 <= b + a THEN a ELSE 0) = a
    BY <1>2
  <2>4. \A i \in 1 .. a : (b + 1) + i - 1 = b + i
    BY <1>2
  <2> QED BY <2>2, <2>3, <2>4
<1>5. \A i \in 1 .. a : s[i] = added[i]
  <2> SUFFICES ASSUME NEW i \in 1 .. a PROVE s[i] = added[i]
    OBVIOUS
  <2>1. b + i \in 1 .. b + a /\ ~ (b + i <= b) /\ (b + i) - b = i
    BY <1>2
  <2> QED BY <1>2, <1>4, <2>1
<1>6. s = added
  BY <1>1, <1>4, <1>5, SeqEqual
<1> QED BY <1>1, <1>2, <1>3, <1>6

LEMMA LineInitial == TtyInit /\ LineInit => LineInv
<1> SUFFICES ASSUME TtyInit, LineInit PROVE LineInv
  OBVIOUS
<1>1. <<>> \in Held
  BY NoBytes, TtyFacts DEF Held
<1>2. term.verase \in Nat
  BY DEF TtyInit, DefaultTerm
<1>3. EchoShowsInput
  BY OnScreenEmpty DEF EchoShowsInput, TtyInit, LineInit
<1> QED BY <1>1, <1>2, <1>3, NoBytes DEF LineInv, TtyInit, LineInit

LEMMA TypeKeeps ==
    ASSUME LineInv, NEW chunk \in TypedChunks, LineType(chunk)
    PROVE  LineInv'
<1>1. chunk \in Seq(Nat)
  BY TtyFacts
<1>2. PICK e \in Seq(Nat), g \in Seq(Nat), base \in Held, line \in Seq(Nat), out \in Held :
        /\ e = echoed /\ g = given /\ base = buffer_master_write
        /\ line = line_buffer /\ out = buffer_master_read
  BY DEF LineInv
<1>3. PICK w \in Works : w = Typed(chunk)
  BY <1>1, TypedType DEF LineInv
<1>4. w.line \in Seq(Nat) /\ w.input \in Held /\ w.echo \in Held /\ w.echo \in Seq(Nat)
      /\ w.input \in Seq(Nat) /\ base \in Seq(Nat)
  BY DEF Works, Held
<1>5. /\ line_buffer' = w.line /\ buffer_master_write' = w.input
      /\ buffer_master_read' = Queued(out, w.echo) /\ term' = term
      /\ echoed' = e \o w.echo
      /\ given' = g \o SubSeq(w.input, Len(base) + 1, Len(w.input))
      /\ plain' = (plain /\ term = DefaultTerm /\ Roomy(chunk))
  BY <1>2, <1>3 DEF LineType, MasterWrite
<1>6. Queued(out, w.echo) \in Held
  BY <1>4, QueuedFacts
<1>7. e \o w.echo \in Seq(Nat)
  BY <1>4, ConcatProperties
<1>8. g \o SubSeq(w.input, Len(base) + 1, Len(w.input)) \in Seq(Nat)
  <2>1. PICK a \in Nat, b \in Nat : a = Len(w.input) /\ b = Len(base)
    BY <1>4
  <2>2. \A i \in b + 1 .. a : w.input[i] \in Nat
    <3>1. PICK q \in Seq(Nat) : q = w.input
      BY <1>4
    <3>2. \A i \in 1 .. a : q[i] \in Nat
      BY <2>1, <3>1
    <3>3. \A i \in b + 1 .. a : i \in 1 .. a
      BY <2>1
    <3> QED BY <3>1, <3>2, <3>3
  <2>3. PICK t : t = SubSeq(w.input, b + 1, a)
    OBVIOUS
  <2>4. t \in Seq(Nat)
    BY <2>1, <2>2, <2>3, SubSeqProperties
  <2> QED BY <2>1, <2>3, <2>4, ConcatProperties
<1>9. ASSUME plain, term = DefaultTerm, Roomy(chunk)
      PROVE  OnScreen(e \o w.echo) =
                [past |-> g \o SubSeq(w.input, Len(base) + 1, Len(w.input)), row |-> w.line]
  <2>1. OnScreen(e) = Seen(g, line_buffer)
    BY <1>2, <1>9 DEF LineInv, EchoShowsInput, Seen
  <2>2. PICK n \in Nat, l \in Nat, b \in Nat, o \in Nat, size \in Nat, most \in Nat :
          /\ n = Len(chunk) /\ l = Len(line_buffer) /\ b = Len(buffer_master_write)
          /\ o = Len(buffer_master_read) /\ size = TtySize /\ most = LineSize
    BY <1>1, TtyFacts DEF LineInv, Held
  <2>3. /\ l + 2 * n < most - 1 /\ b + l + 2 * n <= size /\ o + 3 * n <= size
    BY <1>9, <2>2 DEF Roomy
  <2>4. 3 * n <= size
    BY <2>3
  <2>5. Ample(Len(buffer_master_write), Len(line_buffer), Len(chunk))
    BY <2>2, <2>3, <2>4 DEF Ample
  <2>6. line_buffer \in Seq(Nat) /\ buffer_master_write \in Held
    BY DEF LineInv
  <2>7. Account(w, Len(chunk), base, e, g, Len(line_buffer))
    BY <1>1, <1>2, <1>3, <1>9, <2>1, <2>5, <2>6, TypedAccounts
  <2>8. PICK added \in Seq(Nat) :
          w.input = base \o added /\ OnScreen(e \o w.echo) = Seen(g \o added, w.line)
    BY <2>7 DEF Account
  <2>9. SubSeq(w.input, Len(base) + 1, Len(w.input)) = added
    BY <1>4, <2>8, AddedInput
  <2> QED BY <2>8, <2>9 DEF Seen
<1>10. EchoShowsInput'
  BY <1>5, <1>9 DEF EchoShowsInput
<1> QED BY <1>4, <1>5, <1>6, <1>7, <1>8, <1>10 DEF LineInv

\* EchoShowsInput says nothing of the rest of the state.
LEMMA ShownKeeps ==
    ASSUME EchoShowsInput, UNCHANGED <<lineVars, line_buffer>>
    PROVE  EchoShowsInput'
BY DEF EchoShowsInput, lineVars

LEMMA LineStep == LineInv /\ [LineNext]_<<ttyVars, lineVars>> => LineInv'
<1> SUFFICES ASSUME LineInv, [LineNext]_<<ttyVars, lineVars>> PROVE LineInv'
  OBVIOUS
<1>1. ASSUME NEW chunk \in TypedChunks, LineType(chunk) PROVE LineInv'
  BY <1>1, TypeKeeps
<1>2. ASSUME NEW size \in ReadSizes, LineRead(size) PROVE LineInv'
  <2>1. PICK q \in Held, n \in Nat : q = buffer_master_write /\ n = Len(q)
    BY DEF LineInv, Held
  <2>2. SlaveGets(size) \in 0 .. n
    <3>1. size \in Nat
      BY TtyFacts
    <3> QED BY <2>1, <3>1 DEF SlaveGets, Smaller
  <2>3. PICK k \in 0 .. n : k = SlaveGets(size)
    BY <2>2
  <2>4. SubSeq(q, k + 1, Len(q)) \in Held
    BY <2>1, RestHeld
  <2>5. buffer_master_write' \in Held
    BY <1>2, <2>1, <2>3, <2>4 DEF LineRead, TakeInput
  <2>6. UNCHANGED <<term, line_buffer, buffer_master_read, lineVars>>
    BY <1>2 DEF LineRead, TakeInput
  <2>7. EchoShowsInput'
    BY <2>6, ShownKeeps DEF LineInv
  <2> QED BY <2>5, <2>6, <2>7 DEF LineInv, lineVars
<1>3. ASSUME NEW chunk \in PrintedChunks, LinePrint(chunk) PROVE LineInv'
  <2>1. Printed(chunk).output \in Held
    BY TtyFacts, PrintedType DEF LineInv
  <2>2. /\ buffer_master_read' = Printed(chunk).output
        /\ UNCHANGED <<term, line_buffer, buffer_master_write, echoed, given, plain>>
    BY <1>3 DEF LinePrint, SlaveWrite
  <2>3. EchoShowsInput'
    BY <2>2 DEF LineInv, EchoShowsInput
  <2> QED BY <2>1, <2>2, <2>3 DEF LineInv
<1>4. ASSUME NEW size \in ReadSizes, LineShow(size) PROVE LineInv'
  <2>1. PICK q \in Held, n \in Nat : q = buffer_master_read /\ n = Len(q)
    BY DEF LineInv, Held
  <2>2. Smaller(size, n) \in 0 .. n
    <3>1. size \in Nat
      BY TtyFacts
    <3> QED BY <3>1 DEF Smaller
  <2>3. PICK k \in 0 .. n : k = Smaller(size, n)
    BY <2>2
  <2>4. SubSeq(q, k + 1, Len(q)) \in Held
    BY <2>1, RestHeld
  <2>5. buffer_master_read' \in Held
    BY <1>4, <2>1, <2>3, <2>4 DEF LineShow, TakeOutput
  <2>6. UNCHANGED <<term, line_buffer, buffer_master_write, lineVars>>
    BY <1>4 DEF LineShow, TakeOutput
  <2>7. EchoShowsInput'
    BY <2>6, ShownKeeps DEF LineInv
  <2> QED BY <2>5, <2>6, <2>7 DEF LineInv, lineVars
<1>5. ASSUME NEW t \in Terms, LineSet(t) PROVE LineInv'
  <2>1. /\ term' = t /\ t.verase \in Nat
        /\ UNCHANGED <<line_buffer, buffer_master_write, buffer_master_read, lineVars>>
    BY <1>5, TtyFacts DEF LineSet, SetTerm
  <2>2. EchoShowsInput'
    BY <2>1, ShownKeeps DEF LineInv
  <2> QED BY <2>1, <2>2 DEF LineInv, lineVars
<1>6. ASSUME NEW pid \in {-1, 1}, LineForeground(pid) PROVE LineInv'
  <2>1. UNCHANGED <<term, line_buffer, buffer_master_write, buffer_master_read, lineVars>>
    BY <1>6 DEF LineForeground, SetForeground
  <2>2. EchoShowsInput'
    BY <2>1, ShownKeeps DEF LineInv
  <2> QED BY <2>1, <2>2 DEF LineInv, lineVars
<1>7. CASE UNCHANGED <<ttyVars, lineVars>>
  <2>1. UNCHANGED <<term, line_buffer, buffer_master_write, buffer_master_read, lineVars>>
    BY <1>7 DEF ttyVars
  <2>2. EchoShowsInput'
    BY <2>1, ShownKeeps DEF LineInv
  <2> QED BY <2>1, <2>2 DEF LineInv, lineVars
<1> QED BY <1>1, <1>2, <1>3, <1>4, <1>5, <1>6, <1>7 DEF LineNext

\* What the user of a terminal sees is what the program reads, with any size of buffers and
\* whatever is typed, printed, read and set, until a buffer has filled up or the settings
\* are no longer the default ones.
THEOREM EchoIsInput == LineSpec => []EchoShowsInput
<1>1. LineInv => EchoShowsInput
  BY DEF LineInv
<1> QED BY <1>1, LineInitial, LineStep, PTL DEF LineSpec

-----------------------------------------------------------------------------
(***************************************************************************)
(* The display and the active terminal.                                    *)
(***************************************************************************)

Grid == [Lines -> [Cols -> Nat]]

\* The states of a call.
Calls == [text : Grid, at : Lines \X Cols, shown : Grid, active : BOOLEAN]

Shows(text, shown) ==
    \A line \in Lines, col \in Cols :
        text[line][col] # 0 => shown[line][col] = text[line][col]

\* A call on an active terminal leaves the display right, one on another
\* terminal leaves the display as it was, old.
Right(s, old, active) ==
    /\ s \in Calls /\ s.active = active
    /\ IF active THEN Shows(s.text, s.shown) ELSE s.shown = old

LEMMA WindowFacts ==
    /\ Rows \in Nat /\ Columns \in Nat
    /\ 0 \in Lines /\ Rows - 1 \in Lines /\ 0 \in Cols /\ Columns - 1 \in Cols
    /\ Lines \subseteq Nat /\ Cols \subseteq Nat
    /\ Blank \in Grid
BY ScreenAssumption DEF Lines, Cols, Blank, Grid

\* A cell of a grid is set.
SetCell(g, a, b, v) == [g EXCEPT ![a][b] = v]

\* terminal_move_cursor
LEMMA MoveCursorRight ==
    ASSUME NEW s, NEW old, NEW active, Right(s, old, active), graphic_mode \in BOOLEAN,
           NEW line, NEW col
    PROVE  /\ Right(MoveCursor(s, line, col), old, active)
           /\ MoveCursor(s, line, col).text = s.text
<1> DEFINE to == <<IF line \in Lines THEN line ELSE Rows - 1,
                   IF col \in Cols THEN col ELSE Columns - 1>>
           one == [s.shown EXCEPT ![s.at[1]][s.at[2]] = s.text[s.at[1]][s.at[2]]]
           redrawn == [s.shown EXCEPT ![s.at[1]][s.at[2]] = s.text[s.at[1]][s.at[2]],
                                      ![to[1]][to[2]] = s.text[to[1]][to[2]]]
<1>1. /\ to \in Lines \X Cols /\ to[1] \in Lines /\ to[2] \in Cols
      /\ s \in Calls /\ s.active = active
      /\ s.at \in Lines \X Cols /\ s.at[1] \in Lines /\ s.at[2] \in Cols
      /\ s.text \in Grid /\ s.shown \in Grid
  BY WindowFacts DEF Right, Calls
<1>2. \A a \in Lines, b \in Cols : s.text[a][b] \in Nat
  BY <1>1 DEF Grid
<1> HIDE DEF to
<1>3. /\ one \in Grid
      /\ \A a \in Lines, b \in Cols :
            one[a][b] = IF a = s.at[1] /\ b = s.at[2] THEN s.text[a][b] ELSE s.shown[a][b]
  <2>1. PICK g \in Grid, p \in Lines, q \in Cols, v \in Nat :
          g = s.shown /\ p = s.at[1] /\ q = s.at[2] /\ v = s.text[p][q]
    BY <1>1, <1>2
  <2>2. one = SetCell(g, p, q, v)
    BY <2>1 DEF SetCell
  <2> HIDE DEF one
  <2>3. g \in Grid /\ p \in Lines /\ q \in Cols /\ v \in Nat
    BY <2>1
  <2>4. /\ SetCell(g, p, q, v) \in Grid
        /\ \A a \in Lines, b \in Cols :
              SetCell(g, p, q, v)[a][b] = IF a = p /\ b = q THEN v ELSE g[a][b]
    <3>1. SetCell(g, p, q, v) \in Grid
      BY <2>3 DEF SetCell, Grid
    <3>2. ASSUME NEW a \in Lines, NEW b \in Cols
          PROVE  SetCell(g, p, q, v)[a][b] = IF a = p /\ b = q THEN v ELSE g[a][b]
      BY <2>3 DEF SetCell, Grid
    <3> QED BY <3>1, <3>2
  <2>5. ASSUME NEW a \in Lines, NEW b \in Cols
        PROVE  one[a][b] = IF a = s.at[1] /\ b = s.at[2] THEN s.text[a][b] ELSE s.shown[a][b]
    <3>1. SetCell(g, p, q, v)[a][b] = IF a = p /\ b = q THEN v ELSE g[a][b]
      BY <2>4
    <3>2. CASE a = p /\ b = q
      BY <2>1, <2>2, <3>1, <3>2
    <3>3. CASE ~ (a = p /\ b = q)
      BY <2>1, <2>2, <3>1, <3>3
    <3> QED BY <3>2, <3>3
  <2> QED BY <2>2, <2>4, <2>5
<1>4. redrawn = [one EXCEPT ![to[1]][to[2]] = s.text[to[1]][to[2]]]
  OBVIOUS
<1> HIDE DEF one
<1>5. /\ redrawn \in Grid
      /\ \A a \in Lines, b \in Cols :
            redrawn[a][b] = IF a = to[1] /\ b = to[2] THEN s.text[a][b] ELSE one[a][b]
  <2>1. PICK p \in Lines, q \in Cols, v \in Nat :
          p = to[1] /\ q = to[2] /\ v = s.text[p][q]
    BY <1>1, <1>2
  <2>2. redrawn = SetCell(one, p, q, v)
    BY <1>4, <2>1 DEF SetCell
  <2> HIDE DEF redrawn
  <2>3. /\ redrawn \in Grid
        /\ \A a \in Lines, b \in Cols :
              redrawn[a][b] = IF a = p /\ b = q THEN v ELSE one[a][b]
    BY <1>3, <2>1, <2>2, SMTT(30) DEF SetCell, Grid
  <2> QED BY <2>1, <2>3
<1> HIDE DEF redrawn
<1>6. active => Shows(s.text, redrawn)
  <2> SUFFICES ASSUME active, NEW a \in Lines, NEW b \in Cols, s.text[a][b] # 0
               PROVE  redrawn[a][b] = s.text[a][b]
    BY DEF Shows
  <2>1. s.shown[a][b] = s.text[a][b]
    BY DEF Right, Shows
  <2> QED BY <1>3, <1>5, <2>1
<1>7. MoveCursor(s, line, col) = [s EXCEPT !.at = to,
                          !.shown = IF s.active /\ graphic_mode THEN redrawn ELSE @]
  BY DEF MoveCursor, to, redrawn
<1>8. /\ MoveCursor(s, line, col) \in Calls
      /\ MoveCursor(s, line, col).text = s.text
      /\ MoveCursor(s, line, col).active = active
      /\ MoveCursor(s, line, col).shown =
            IF s.active /\ graphic_mode THEN redrawn ELSE s.shown
  BY <1>1, <1>5, <1>7 DEF Calls
<1> QED BY <1>1, <1>6, <1>8 DEF Right


\* The drivers' refresh.
LEMMA RefreshRight ==
    ASSUME NEW s \in Calls, NEW old, NEW active, s.active = active, ~ active => s.shown = old
    PROVE  Right(Refresh(s), old, active)
<1>1. CASE active
  <2>1. Refresh(s) = [s EXCEPT !.shown = s.text]
    BY <1>1 DEF Refresh
  <2>2. /\ Refresh(s) \in Calls /\ Refresh(s).active = active
        /\ Refresh(s).text = s.text /\ Refresh(s).shown = s.text
    BY <2>1 DEF Calls
  <2> QED BY <1>1, <2>2 DEF Right, Shows
<1>2. CASE ~ active
  BY <1>2 DEF Refresh, Right
<1> QED BY <1>1, <1>2

\* terminal_scroll_up
LEMMA ScrollUpRight ==
    ASSUME NEW s, NEW old, NEW active, Right(s, old, active)
    PROVE  Right(ScrollUp(s), old, active)
<1> DEFINE up == [line \in Lines |-> IF line = Rows - 1 THEN Blank[line] ELSE s.text[line + 1]]
           moved == [s EXCEPT !.text = up]
<1>1. s \in Calls /\ s.active = active /\ s.text \in Grid
  BY DEF Right, Calls
<1>2. up \in Grid
  <2> SUFFICES ASSUME NEW line \in Lines
               PROVE  (IF line = Rows - 1 THEN Blank[line] ELSE s.text[line + 1]) \in [Cols -> Nat]
    BY DEF Grid
  <2>1. line # Rows - 1 => line + 1 \in Lines
    BY WindowFacts DEF Lines
  <2> QED BY <1>1, <2>1, WindowFacts DEF Grid
<1> HIDE DEF up
<1>3. /\ moved \in Calls /\ moved.active = active /\ moved.shown = s.shown
  BY <1>1, <1>2 DEF Calls
<1>4. ~ active => moved.shown = old
  BY <1>3 DEF Right
<1>5. ScrollUp(s) = Refresh(moved)
  BY DEF ScrollUp, up
<1> HIDE DEF moved
<1> QED BY <1>3, <1>4, <1>5, RefreshRight

LEMMA LeaveLastRowRight ==
    ASSUME NEW s, NEW old, NEW active, Right(s, old, active), graphic_mode \in BOOLEAN
    PROVE  Right(LeaveLastRow(s), old, active)
BY MoveCursorRight, ScrollUpRight DEF LeaveLastRow

\* A blank cell may show anything.
LEMMA BlankRight ==
    ASSUME NEW s, NEW old, NEW active, Right(s, old, active)
    PROVE  Right(BlankUnderCursor(s), old, active)
<1>1. /\ s \in Calls /\ s.active = active /\ s.text \in Grid
      /\ s.at[1] \in Lines /\ s.at[2] \in Cols
  BY DEF Right, Calls
<1>2. BlankUnderCursor(s) = [s EXCEPT !.text = SetCell(s.text, s.at[1], s.at[2], 0)]
  BY <1>1 DEF BlankUnderCursor, SetCell, Calls
<1>3. PICK g : g = SetCell(s.text, s.at[1], s.at[2], 0)
  OBVIOUS
<1>4. /\ g \in Grid
      /\ \A a \in Lines, b \in Cols : g[a][b] = 0 \/ g[a][b] = s.text[a][b]
  <2>1. /\ SetCell(s.text, s.at[1], s.at[2], 0) \in Grid
        /\ \A line \in Lines, col \in Cols :
              SetCell(s.text, s.at[1], s.at[2], 0)[line][col] =
                  IF line = s.at[1] /\ col = s.at[2] THEN 0 ELSE s.text[line][col]
    BY <1>1, SMTT(30) DEF SetCell, Grid
  <2> QED BY <1>3, <2>1
<1>5. /\ BlankUnderCursor(s) \in Calls /\ BlankUnderCursor(s).active = active
      /\ BlankUnderCursor(s).text = g /\ BlankUnderCursor(s).shown = s.shown
  BY <1>1, <1>2, <1>3, <1>4 DEF Calls
<1>6. active => Shows(g, s.shown)
  <2> SUFFICES ASSUME active, NEW a \in Lines, NEW b \in Cols, g[a][b] # 0
               PROVE  s.shown[a][b] = g[a][b]
    BY DEF Shows
  <2>1. s.text[a][b] # 0 => s.shown[a][b] = s.text[a][b]
    BY DEF Right, Shows
  <2> QED BY <1>4, <2>1
<1> QED BY <1>5, <1>6 DEF Right

LEMMA PutBackspaceRight ==
    ASSUME NEW s, NEW old, NEW active, Right(s, old, active), graphic_mode \in BOOLEAN
    PROVE  Right(PutBackspace(s), old, active)
BY MoveCursorRight, BlankRight DEF PutBackspace

\* A character goes to the buffer and, on an active terminal, to the display.
LEMMA PutPlainRight ==
    ASSUME NEW s0, NEW old, NEW active, Right(s0, old, active), graphic_mode \in BOOLEAN,
           NEW c \in Nat
    PROVE  Right(PutPlain(s0, c), old, active)
<1>1. PICK s : s = LeaveLastRow(s0) /\ Right(s, old, active)
  BY LeaveLastRowRight
<1>2. /\ s \in Calls /\ s.active = active /\ s.text \in Grid /\ s.shown \in Grid
      /\ s.at[1] \in Lines /\ s.at[2] \in Cols
  BY <1>1 DEF Right, Calls
<1>3. PICK g, h : /\ g = SetCell(s.text, s.at[1], s.at[2], c)
                  /\ h = SetCell(s.shown, s.at[1], s.at[2], c)
  OBVIOUS
<1>4. /\ g \in Grid /\ h \in Grid
      /\ \A a \in Lines, b \in Cols :
            \/ g[a][b] = c /\ h[a][b] = c
            \/ g[a][b] = s.text[a][b] /\ h[a][b] = s.shown[a][b]
  <2>1. /\ g \in Grid
        /\ \A line \in Lines, col \in Cols :
              g[line][col] = IF line = s.at[1] /\ col = s.at[2] THEN c ELSE s.text[line][col]
    BY <1>2, <1>3, SMTT(30) DEF SetCell, Grid
  <2>2. /\ h \in Grid
        /\ \A line \in Lines, col \in Cols :
              h[line][col] = IF line = s.at[1] /\ col = s.at[2] THEN c ELSE s.shown[line][col]
    BY <1>2, <1>3, SMTT(30) DEF SetCell, Grid
  <2> QED BY <2>1, <2>2
<1> DEFINE put == [s EXCEPT !.text[s.at[1]][s.at[2]] = c]
           painted == DrawCharacter(put, c)
<1>5. put = [s EXCEPT !.text = g]
  BY <1>2, <1>3 DEF SetCell, Calls
<1>6. /\ put \in Calls /\ put.text = g /\ put.shown = s.shown /\ put.active = active
      /\ put.at = s.at
  BY <1>2, <1>4, <1>5 DEF Calls
<1>7. painted = IF active THEN [put EXCEPT !.shown = h] ELSE put
  BY <1>3, <1>6 DEF DrawCharacter, SetCell, Calls
<1> HIDE DEF put
<1>8. /\ painted \in Calls /\ painted.text = g /\ painted.active = active
      /\ painted.shown = IF active THEN h ELSE s.shown
  BY <1>4, <1>6, <1>7 DEF Calls
<1> HIDE DEF painted
<1>9. Right(painted, old, active)
  <2>1. active => Shows(g, h)
    BY <1>1, <1>4 DEF Right, Shows
  <2> QED BY <1>1, <1>8, <2>1 DEF Right
<1>10. PutPlain(s0, c) = MoveCursor(painted, s.at[1], s.at[2] + 1)
  BY <1>1 DEF PutPlain, painted, put
<1> QED BY <1>9, <1>10, MoveCursorRight

\* terminal_put_character
LEMMA PutCharacterRight ==
    ASSUME NEW s, NEW old, NEW active, Right(s, old, active), graphic_mode \in BOOLEAN,
           NEW c \in Nat
    PROVE  Right(PutCharacter(s, c), old, active)
<1>1. Right(MoveCursor(s, s.at[1] + 1, s.at[2]), old, active)
      /\ Right(MoveCursor(s, s.at[1], 0), old, active)
  BY MoveCursorRight
<1>2. Right(LeaveLastRow(MoveCursor(s, s.at[1] + 1, s.at[2])), old, active)
  BY <1>1, LeaveLastRowRight
<1>3. Right(PutBackspace(s), old, active) /\ Right(PutPlain(s, c), old, active)
  BY PutBackspaceRight, PutPlainRight
<1> QED BY <1>1, <1>2, <1>3 DEF PutCharacter, LF, RET, BACK

ScreenInv ==
    /\ graphic_mode \in BOOLEAN
    /\ buffer \in [Range(Terminals) -> Grid]
    /\ cursor \in [Range(Terminals) -> Lines \X Cols]
    /\ active_terminal \in Range(Terminals)
    /\ display \in Grid
    /\ Shows(buffer[active_terminal], display)

\* The clauses by which a run of terminal_put_text goes on are well defined, and
\* all of its states are right.
LEMMA PutTextRight ==
    ASSUME ScreenInv, NEW t \in Range(Terminals), NEW chars \in Texts, PutText(t, chars)
    PROVE  \E s : /\ Right(s, display, active_terminal = t)
                  /\ buffer' = [buffer EXCEPT ![t] = s.text]
                  /\ cursor' = [cursor EXCEPT ![t] = s.at]
                  /\ display' = s.shown
                  /\ UNCHANGED <<graphic_mode, active_terminal, key_modifier, sent>>
<1> DEFINE start == [text |-> buffer[t], at |-> cursor[t],
                     shown |-> display, active |-> active_terminal = t]
           Clauses(f) == f = [i \in 0 .. Len(chars) |->
                                 IF i = 0 THEN start ELSE PutCharacter(f[i - 1], chars[i])]
           Done == CHOOSE f : Clauses(f)
<1>1. PICK old, active, n :
        old = display /\ active = (active_terminal = t) /\ n = Len(chars)
  OBVIOUS
<1>2. /\ n \in Nat /\ active \in BOOLEAN /\ \A i \in 1 .. n : chars[i] \in Nat
  <2>1. chars \in Seq(Nat)
    BY ScreenAssumption
  <2> QED BY <1>1, <2>1
<1>3. PICK S : S = {s \in Calls : Right(s, old, active)}
  OBVIOUS
<1>4. start \in S
  <2>1. start \in Calls /\ start.text = buffer[t] /\ start.shown = display
        /\ start.active = active
    BY <1>1 DEF ScreenInv, Calls
  <2>2. active => Shows(start.text, start.shown)
    BY <1>1, <2>1 DEF ScreenInv
  <2> QED BY <1>1, <1>3, <2>1, <2>2 DEF Right
<1>5. PICK first : first \in S /\ first = start
  BY <1>4
<1>6. ASSUME NEW s \in S, NEW i \in 1 .. n PROVE PutCharacter(s, chars[i]) \in S
  <2>1. Right(s, old, active) /\ chars[i] \in Nat /\ graphic_mode \in BOOLEAN
    BY <1>2, <1>3 DEF ScreenInv
  <2>2. Right(PutCharacter(s, chars[i]), old, active)
    BY <2>1, PutCharacterRight
  <2> QED BY <1>3, <2>2 DEF Right
<1>7. PICK step : step = [x \in S \X (1 .. n) |-> PutCharacter(x[1], chars[x[2]])]
  OBVIOUS
<1>8. step \in [S \X (1 .. n) -> S]
  BY <1>6, <1>7
<1>9. \E f \in [0 .. n -> S] : IsRun(f, n, first, step)
  BY <1>2, <1>5, <1>8, StepsExist
<1>10. PICK f \in [0 .. n -> S] :
         f[0] = first /\ \A i \in 1 .. n : f[i] = step[<<f[i - 1], i>>]
  BY <1>9 DEF IsRun
<1>11. \A i \in 0 .. n : f[i] = IF i = 0 THEN start ELSE PutCharacter(f[i - 1], chars[i])
  <2> SUFFICES ASSUME NEW i \in 0 .. n
               PROVE  f[i] = IF i = 0 THEN start ELSE PutCharacter(f[i - 1], chars[i])
    OBVIOUS
  <2>1. CASE i = 0
    BY <1>5, <1>10, <2>1
  <2>2. CASE i # 0
    <3>1. i - 1 \in 0 .. n /\ i \in 1 .. n
      BY <1>2, <2>2
    <3>2. f[i - 1] \in S
      BY <1>10, <3>1
    <3>3. step[<<f[i - 1], i>>] = PutCharacter(f[i - 1], chars[i])
      BY <1>7, <3>1, <3>2
    <3> QED BY <1>10, <2>2, <3>3
  <2> QED BY <2>1, <2>2
<1> HIDE DEF start
<1>12. Clauses(f)
  BY <1>1, <1>10, <1>11
<1>13. Clauses(Done)
  <2> HIDE DEF Clauses
  <2> QED BY <1>12, Zenon
<1>14. PICK g : g = Done /\ Clauses(g)
  BY <1>13
<1> HIDE DEF Done
<1>15. g[0] \in S
  <2>1. 0 \in 0 .. Len(chars)
    BY <1>1, <1>2
  <2>2. g[0] = start
    BY <1>14, <2>1
  <2> QED BY <1>4, <2>2
<1>16. ASSUME NEW i \in 1 .. n, g[i - 1] \in S PROVE g[i] \in S
  <2>1. i \in 0 .. n /\ i # 0
    BY <1>2
  <2>2. g[i] = PutCharacter(g[i - 1], chars[i])
    BY <1>1, <1>14, <2>1
  <2> QED BY <1>6, <1>16, <2>2
<1>17. PICK s : s = g[n] /\ Right(s, old, active)
  <2> HIDE DEF Clauses
  <2>1. \A i \in 0 .. n : g[i] \in S
    BY <1>2, <1>15, <1>16, RunsStay
  <2> QED BY <1>2, <1>3, <2>1
<1>18. Done[Len(chars)] = s
  BY <1>1, <1>14, <1>17
<1>19. /\ buffer' = [buffer EXCEPT ![t] = Done[Len(chars)].text]
       /\ cursor' = [cursor EXCEPT ![t] = Done[Len(chars)].at]
       /\ display' = Done[Len(chars)].shown
       /\ UNCHANGED <<graphic_mode, active_terminal, key_modifier, sent>>
  BY Zenon DEF PutText, start, Done
<1> QED BY <1>1, <1>17, <1>18, <1>19

LEMMA TerminalFacts ==
    /\ \A i \in DOMAIN Terminals : Terminals[i] \in Range(Terminals)
    /\ Head(Terminals) \in Range(Terminals)
BY ScreenAssumption DEF Range

LEMMA ActivateKeeps ==
    ASSUME ScreenInv, NEW t \in Range(Terminals), Activate(t),
           UNCHANGED <<graphic_mode, buffer, cursor>>
    PROVE  ScreenInv'
BY DEF ScreenInv, Activate, Shows

LEMMA ScreenInitial == ScreenInit => ScreenInv
<1> SUFFICES ASSUME ScreenInit PROVE ScreenInv
  OBVIOUS
<1>1. /\ buffer \in [Range(Terminals) -> Grid]
      /\ cursor \in [Range(Terminals) -> Lines \X Cols]
  BY WindowFacts DEF ScreenInit
<1>2. active_terminal \in Range(Terminals) /\ graphic_mode \in BOOLEAN /\ display \in Grid
  BY WindowFacts, TerminalFacts DEF ScreenInit
<1>3. Shows(buffer[active_terminal], display)
  BY <1>2 DEF ScreenInit, Shows
<1> QED BY <1>1, <1>2, <1>3 DEF ScreenInv

LEMMA ScreenStep == ScreenInv /\ [ScreenNext]_screenVars => ScreenInv'
<1> SUFFICES ASSUME ScreenInv, [ScreenNext]_screenVars PROVE ScreenInv'
  OBVIOUS
<1>1. ASSUME NEW t \in Range(Terminals), NEW chars \in Texts, PutText(t, chars)
      PROVE  ScreenInv'
  <2>1. PICK s : /\ Right(s, display, active_terminal = t)
                 /\ buffer' = [buffer EXCEPT ![t] = s.text]
                 /\ cursor' = [cursor EXCEPT ![t] = s.at]
                 /\ display' = s.shown
                 /\ UNCHANGED <<graphic_mode, active_terminal, key_modifier, sent>>
    BY <1>1, PutTextRight
  <2>2. s.text \in Grid /\ s.at \in Lines \X Cols /\ s.shown \in Grid
    BY <2>1 DEF Right, Calls
  <2>3. /\ buffer' \in [Range(Terminals) -> Grid]
        /\ cursor' \in [Range(Terminals) -> Lines \X Cols]
    BY <2>1, <2>2 DEF ScreenInv
  <2>4. Shows(buffer'[active_terminal'], display')
    <3>1. CASE active_terminal = t
      <4>1. buffer'[active_terminal'] = s.text
        BY <2>1, <3>1 DEF ScreenInv
      <4> QED BY <2>1, <3>1, <4>1 DEF Right
    <3>2. CASE active_terminal # t
      <4>1. buffer'[active_terminal'] = buffer[active_terminal]
        BY <2>1, <3>2 DEF ScreenInv
      <4>2. display' = display
        BY <2>1, <3>2 DEF Right
      <4> QED BY <4>1, <4>2 DEF ScreenInv
    <3> QED BY <3>1, <3>2
  <2> QED BY <2>1, <2>2, <2>3, <2>4 DEF ScreenInv, Shows
<1>2. ASSUME NEW index \in 0 .. Len(Terminals) + 1, VtActivate(index) PROVE ScreenInv'
  <2>1. CASE index \in DOMAIN Terminals
    BY <1>2, <2>1, TerminalFacts, ActivateKeeps DEF VtActivate
  <2>2. CASE index \notin DOMAIN Terminals
    BY <1>2, <2>2 DEF VtActivate, ScreenInv, Shows
  <2> QED BY <2>1, <2>2
<1>3. ASSUME NEW event \in KeyEvents, ConsoleSendKey(event) PROVE ScreenInv'
  <2>1. UNCHANGED <<graphic_mode, buffer, cursor>>
    BY <1>3 DEF ConsoleSendKey
  <2>2. \/ \E i \in DOMAIN Terminals : Activate(Terminals[i])
        \/ UNCHANGED <<active_terminal, display>>
    <3>1. \A k \in DOMAIN FunctionKey :
             FunctionKey[k] <= Len(Terminals) => FunctionKey[k] \in DOMAIN Terminals
      BY ScreenAssumption DEF FunctionKey
    <3> QED BY <1>3, <3>1 DEF ConsoleSendKey
  <2>3. CASE \E i \in DOMAIN Terminals : Activate(Terminals[i])
    BY <2>1, <2>3, TerminalFacts, ActivateKeeps
  <2>4. CASE UNCHANGED <<active_terminal, display>>
    BY <2>1, <2>4 DEF ScreenInv, Shows
  <2> QED BY <2>2, <2>3, <2>4
<1>4. CASE UNCHANGED screenVars
  BY <1>4 DEF ScreenInv, Shows, screenVars
<1> QED BY <1>1, <1>2, <1>3, <1>4 DEF ScreenNext

\* The display shows the active terminal's text and no cursor leaves the
\* window, however many terminals there are and however large the window is.
THEOREM DisplayIsActive == ScreenSpec => []DisplayShowsActive
<1>1. ScreenInv => DisplayShowsActive
  BY DEF ScreenInv, DisplayShowsActive, Shows
<1> QED BY <1>1, ScreenInitial, ScreenStep, PTL DEF ScreenSpec

-----------------------------------------------------------------------------
(***************************************************************************)
(* Calls on open files.                                                    *)
(***************************************************************************)

Files == [driver : STRING, flags : SUBSET {"READ", "WRITE"}, offset : Nat, fptr : Nat,
          objsize : Nat, known : Nat, cut : BOOLEAN]

\* What every driver keeps of a file.
Sound(file) ==
    /\ file \in Files
    /\ file.driver = "fat" =>
           file.offset = file.fptr /\ file.fptr <= file.objsize /\ file.objsize <= FatRoom

\* The program knows where it is.
Agrees(file) == file.driver \in Positioned /\ ~file.cut => file.known = file.offset

\* done is a call on a file that moved it by what it returns, and left alone what
\* belongs to no driver.
MovedBy(done, file) ==
    /\ done.n \in Int /\ Sound(done.file)
    /\ done.file.driver = file.driver /\ done.file.known = file.known
    /\ done.file.cut = file.cut
    /\ file.driver \in Positioned =>
           done.file.offset = file.offset + IF done.n > 0 THEN done.n ELSE 0

LEMMA IoFacts ==
    /\ FdSlots \in Nat \ {0} /\ FatRoom \in Nat /\ SeekRange \in Nat \ {0}
    /\ ReportSize \in Nat \ {0} /\ ScreenBytes \in Nat
BY FileIoAssumption

LEMMA FatMoves ==
    ASSUME NEW file, Sound(file), file.driver = "fat", NEW n \in Nat
    PROVE  MovedBy(FatRead(file, n), file) /\ MovedBy(FatWrite(file, n), file)
<1>1. /\ file \in Files /\ file.fptr \in Nat /\ file.objsize \in Nat
      /\ file.offset = file.fptr /\ file.fptr <= file.objsize /\ file.objsize <= FatRoom
  BY DEF Sound, Files
<1>2. PICK br, bw : br = Lesser(n, file.objsize - file.fptr) /\ bw = Lesser(n, FatRoom - file.fptr)
  OBVIOUS
<1>3. /\ br \in Nat /\ file.fptr + br <= file.objsize
      /\ bw \in Nat /\ file.fptr + bw <= FatRoom
  BY <1>1, <1>2, IoFacts DEF Lesser
<1>4. MovedBy(FatRead(file, n), file)
  <2>1. CASE "READ" \in file.flags
    <3>1. FatRead(file, n) = Gives(br, [file EXCEPT !.fptr = @ + br, !.offset = file.fptr + br])
      BY <1>2, <2>1 DEF FatRead
    <3>2. PICK end \in Nat : end = file.fptr + br
      BY <1>1, <1>3
    <3>3. PICK moved : moved = [file EXCEPT !.fptr = end, !.offset = end]
      OBVIOUS
    <3>4. /\ moved \in Files /\ moved.fptr = end /\ moved.offset = end
          /\ moved.objsize = file.objsize /\ moved.driver = file.driver
          /\ moved.known = file.known /\ moved.cut = file.cut
      BY <1>1, <3>2, <3>3 DEF Files
    <3>5. FatRead(file, n).n = br /\ FatRead(file, n).file = moved
      BY <1>1, <3>1, <3>2, <3>3 DEF Gives, Files
    <3> QED BY <1>1, <1>3, <3>2, <3>4, <3>5 DEF MovedBy, Sound
  <2>2. CASE "READ" \notin file.flags
    <3>1. FatRead(file, n) = Gives(-1, [file EXCEPT !.offset = file.fptr])
      BY <2>2 DEF FatRead
    <3> QED BY <1>1, <3>1 DEF MovedBy, Sound, Files, Gives
  <2> QED BY <2>1, <2>2
<1>5. MovedBy(FatWrite(file, n), file)
  <2>1. CASE "WRITE" \in file.flags
    <3>1. FatWrite(file, n) =
             Gives(bw, [file EXCEPT !.fptr = file.fptr + bw, !.offset = file.fptr + bw,
                        !.objsize = IF file.fptr + bw > @ THEN file.fptr + bw ELSE @])
      BY <1>2, <2>1 DEF FatWrite
    <3>2. PICK end \in Nat, size \in Nat :
            end = file.fptr + bw /\ size = IF end > file.objsize THEN end ELSE file.objsize
      BY <1>1, <1>3
    <3>3. PICK moved : moved = [file EXCEPT !.fptr = end, !.offset = end, !.objsize = size]
      OBVIOUS
    <3>4. /\ moved \in Files /\ moved.fptr = end /\ moved.offset = end
          /\ moved.objsize = size /\ moved.driver = file.driver
          /\ moved.known = file.known /\ moved.cut = file.cut
      BY <1>1, <3>2, <3>3 DEF Files
    <3>5. FatWrite(file, n).n = bw /\ FatWrite(file, n).file = moved
      BY <1>1, <3>1, <3>2, <3>3 DEF Gives, Files
    <3>6. end <= size /\ size <= FatRoom
      BY <1>1, <1>3, <3>2, IoFacts
    <3> QED BY <1>1, <1>3, <3>2, <3>4, <3>5, <3>6 DEF MovedBy, Sound
  <2>2. CASE "WRITE" \notin file.flags
    <3>1. FatWrite(file, n) = Gives(-1, [file EXCEPT !.offset = file.fptr])
      BY <2>2 DEF FatWrite
    <3> QED BY <1>1, <3>1 DEF MovedBy, Sound, Files, Gives
  <2> QED BY <2>1, <2>2
<1> QED BY <1>4, <1>5

\* A call that does not move the file.
LEMMA StaysPut ==
    ASSUME NEW file, Sound(file), NEW n \in Int, n <= 0 \/ file.driver \notin Positioned
    PROVE  MovedBy(Gives(n, file), file)
BY DEF MovedBy, Gives, Sound, Files

\* A call on a file other than a FAT file that only moves its offset.
LEMMA OffsetMoves ==
    ASSUME NEW file, Sound(file), file.driver # "fat", NEW n \in Nat, NEW to \in Nat,
           to = file.offset + n
    PROVE  MovedBy(Gives(n, [file EXCEPT !.offset = to]), file)
<1>1. file \in Files
  BY DEF Sound
<1> QED BY <1>1 DEF MovedBy, Gives, Sound, Files

LEMMA ReportMoves ==
    ASSUME NEW file, Sound(file), file.driver # "fat", NEW n \in Nat, NEW least \in Nat,
           NEW there
    PROVE  MovedBy(ReportRead(file, n, least, there), file)
<1>1. file.offset \in Nat
  BY DEF Sound, Files
<1>2. CASE n >= least /\ file.offset = 0 /\ there
  <2>1. ReportRead(file, n, least, there) =
           Gives(ReportSize, [file EXCEPT !.offset = ReportSize])
    BY <1>2 DEF ReportRead
  <2>2. ReportSize \in Nat /\ ReportSize = file.offset + ReportSize
    BY <1>2, IoFacts
  <2> QED BY <2>1, <2>2, OffsetMoves
<1>3. CASE ~ (n >= least /\ file.offset = 0 /\ there)
  <2>1. ReportRead(file, n, least, there) \in {Gives(0, file), Gives(-1, file)}
    BY <1>3 DEF ReportRead
  <2> QED BY <2>1, StaysPut
<1> QED BY <1>2, <1>3

\* Reading moves a file by what it returns, whichever driver reads.
LEMMA ReadMoves ==
    ASSUME NEW file, Sound(file), NEW n \in Nat
    PROVE  MovedBy(FsRead(file, n), file)
<1>1. CASE file.driver = "fat"
  BY <1>1, FatMoves DEF FsRead
<1>2. CASE file.driver = "meminfo"
  BY <1>2, ReportMoves DEF FsRead
<1>3. CASE file.driver = "thread"
  <2>1. FsRead(file, n) = ReportRead(file, n, 8, alive)
    BY <1>3 DEF FsRead
  <2>2. PICK there : there = alive
    OBVIOUS
  <2>3. FsRead(file, n) = ReportRead(file, n, 8, there)
    BY <2>1, <2>2
  <2> QED BY <1>3, <2>3, ReportMoves
<1>4. CASE file.driver = "random"
  <2>1. FsRead(file, n) = RandomRead(file, n)
    BY <1>4 DEF FsRead
  <2>2. PICK r \in Nat : RandomRead(file, n) = Gives(r, file)
    BY DEF RandomRead
  <2>3. file.driver \notin Positioned /\ r \in Int
    BY <1>4, <2>2 DEF Positioned
  <2> QED BY <2>1, <2>2, <2>3, StaysPut
<1>5. CASE file.driver \notin {"fat", "meminfo", "thread", "random"}
  <2>1. FsRead(file, n) \in {Gives(0, file), Gives(-1, file)}
    BY <1>5 DEF FsRead
  <2> QED BY <2>1, StaysPut
<1> QED BY <1>1, <1>2, <1>3, <1>4, <1>5

\* Writing moves a file by what it returns, whichever driver writes.
LEMMA WriteMoves ==
    ASSUME NEW file, Sound(file), NEW n \in Nat
    PROVE  MovedBy(FsWrite(file, n), file)
<1>1. CASE file.driver = "fat"
  BY <1>1, FatMoves DEF FsWrite
<1>2. CASE file.driver = "fb"
  <2>1. FsWrite(file, n) = FbWriteBytes(file, n)
    BY <1>2 DEF FsWrite
  <2>2. file.offset \in Nat /\ file.driver # "fat"
    BY <1>2 DEF Sound, Files
  <2>3. PICK available, written :
          available = ScreenBytes - file.offset /\ written = Lesser(n, available)
    OBVIOUS
  <2>4. CASE n > 0 /\ available > 0
    <3>1. /\ written \in Nat /\ file.offset + written \in Nat
          /\ FbWriteBytes(file, n) =
               Gives(written, [file EXCEPT !.offset = file.offset + written])
      BY <2>2, <2>3, <2>4, IoFacts DEF FbWriteBytes, Lesser
    <3> QED BY <2>1, <2>2, <3>1, OffsetMoves
  <2>5. CASE ~ (n > 0 /\ available > 0)
    <3>1. FbWriteBytes(file, n) \in {Gives(0, file), Gives(-1, file)}
      BY <2>2, <2>3, <2>5, IoFacts DEF FbWriteBytes
    <3> QED BY <2>1, <3>1, StaysPut
  <2> QED BY <2>4, <2>5
<1>3. CASE file.driver \notin {"fat", "fb"}
  <2>1. FsWrite(file, n) = Gives(-1, file)
    BY <1>3 DEF FsWrite
  <2> QED BY <2>1, StaysPut
<1> QED BY <1>1, <1>2, <1>3

\* The state of a vector call on file0: what its parts have returned is where they
\* have taken the file, unless a part behind the first failed.
Vectored(s, file0) ==
    /\ s.n \in Int /\ Sound(s.file)
    /\ s.file.driver = file0.driver /\ s.file.known = file0.known
    /\ file0.driver \in Positioned /\ ~s.file.cut =>
           ~file0.cut /\ s.file.offset = file0.offset + IF s.n > 0 THEN s.n ELSE 0

LEMMA PartMoves ==
    ASSUME NEW file0, Sound(file0), NEW s, Vectored(s, file0), NEW n \in Nat,
           NEW done, MovedBy(done, s.file)
    PROVE  Vectored(Part(s, n, done), file0)
<1>1. CASE s.n < 0 \/ n = 0
  BY <1>1 DEF Part
<1>2. CASE ~ (s.n < 0 \/ n = 0) /\ done.n < 0
  <2>1. PICK c \in BOOLEAN : c = (s.n > 0 \/ done.file.cut)
    OBVIOUS
  <2>2. Part(s, n, done) = Gives(done.n, [done.file EXCEPT !.cut = c])
    <3>1. Part(s, n, done) = Gives(done.n, [done.file EXCEPT !.cut = s.n > 0 \/ @])
      BY <1>2 DEF Part
    <3>2. done.file \in Files
      BY DEF MovedBy, Sound
    <3> QED BY <2>1, <3>1, <3>2 DEF Files
  <2>3. /\ done.file \in Files /\ s.file \in Files /\ s.n \in Int /\ done.n \in Int
        /\ file0 \in Files /\ s.n >= 0
    BY <1>2 DEF MovedBy, Sound, Vectored
  <2>4. PICK file : file = [done.file EXCEPT !.cut = c]
    OBVIOUS
  <2>5. /\ file \in Files /\ Sound(file) /\ file.cut = c /\ file.offset = done.file.offset
        /\ file.driver = done.file.driver /\ file.known = done.file.known
    BY <2>1, <2>3, <2>4 DEF Files, MovedBy, Sound
  <2>6. done.file.offset \in Nat /\ s.file.offset \in Nat /\ file0.offset \in Nat
    BY <2>3 DEF Files
  <2>7. ASSUME file0.driver \in Positioned, ~ c
        PROVE  ~ file0.cut /\ done.file.offset = file0.offset
    <3>1. ~ (s.n > 0) /\ ~ done.file.cut /\ done.file.cut = s.file.cut
      BY <2>1, <2>7 DEF MovedBy
    <3>2. ~ file0.cut /\ s.file.offset = file0.offset
      BY <2>3, <2>6, <2>7, <3>1 DEF Vectored
    <3>3. done.file.offset = s.file.offset
      BY <1>2, <2>3, <2>6, <2>7 DEF MovedBy, Vectored
    <3> QED BY <3>2, <3>3
  <2>8. Part(s, n, done).n = done.n /\ Part(s, n, done).file = file
    BY <2>2, <2>4 DEF Gives
  <2>9. /\ file.driver = file0.driver /\ file.known = file0.known
    BY <2>5 DEF MovedBy, Vectored
  <2> QED BY <1>2, <2>3, <2>5, <2>6, <2>7, <2>8, <2>9 DEF Vectored
<1>3. CASE ~ (s.n < 0 \/ n = 0) /\ ~ (done.n < 0)
  <2>1. Part(s, n, done) = Gives(s.n + done.n, done.file)
    BY <1>3 DEF Part
  <2>2. /\ done.file \in Files /\ s.file \in Files /\ s.n \in Int /\ done.n \in Int
        /\ file0 \in Files
    BY DEF MovedBy, Sound, Vectored
  <2>3. done.file.offset \in Nat /\ s.file.offset \in Nat /\ file0.offset \in Nat
    BY <2>2 DEF Files
  <2>4. ASSUME file0.driver \in Positioned, ~ done.file.cut
        PROVE  /\ ~ file0.cut
               /\ done.file.offset =
                     file0.offset + IF s.n + done.n > 0 THEN s.n + done.n ELSE 0
    <3>1. ~ s.file.cut /\ s.file.driver \in Positioned
      BY <2>4 DEF MovedBy, Vectored
    <3>2. ~ file0.cut /\ s.file.offset = file0.offset + s.n
      BY <1>3, <2>2, <2>3, <2>4, <3>1 DEF Vectored
    <3>3. done.file.offset = s.file.offset + done.n
      BY <1>3, <2>2, <2>3, <3>1 DEF MovedBy
    <3> QED BY <1>3, <2>2, <2>3, <3>2, <3>3
  <2>5. Part(s, n, done).n = s.n + done.n /\ Part(s, n, done).file = done.file
    BY <2>1 DEF Gives
  <2>6. /\ done.file.driver = file0.driver /\ done.file.known = file0.known
        /\ Sound(done.file) /\ s.n + done.n \in Int
    BY <2>2 DEF MovedBy, Vectored
  <2> QED BY <2>4, <2>5, <2>6 DEF Vectored
<1> QED BY <1>1, <1>2, <1>3

\* Between calls.
IoInv ==
    /\ fd \in [0 .. FdSlots - 1 -> {NoFile} \cup {file \in Files : Sound(file) /\ Agrees(file)}]
    /\ alive \in BOOLEAN

LEMMA OpenFiles ==
    ASSUME IoInv, NEW i \in 0 .. FdSlots, IsOpen(i)
    PROVE  i \in 0 .. FdSlots - 1 /\ fd[i] \in Files /\ Sound(fd[i]) /\ Agrees(fd[i])
<1>1. i \in 0 .. FdSlots - 1 /\ fd[i] # NoFile
  BY IoFacts DEF IsOpen
<1> QED BY <1>1 DEF IoInv

LEMMA BeginsVector ==
    ASSUME NEW file0, Sound(file0)
    PROVE  /\ Gives(0, file0) \in [n : Int, file : Files]
           /\ Vectored(Gives(0, file0), file0)
BY DEF Gives, Vectored, Sound, Files

LEMMA PartType ==
    ASSUME NEW s \in [n : Int, file : Files], NEW n \in Nat, NEW done, MovedBy(done, s.file)
    PROVE  Part(s, n, done) \in [n : Int, file : Files]
<1>1. done.n \in Int /\ done.file \in Files /\ s.n \in Int
  BY DEF MovedBy, Sound
<1>2. PICK file, c : c = (s.n > 0 \/ done.file.cut) /\ file = [done.file EXCEPT !.cut = s.n > 0 \/ @]
  OBVIOUS
<1>3. c \in BOOLEAN /\ file = [done.file EXCEPT !.cut = c]
  BY <1>1, <1>2 DEF Files
<1>4. file \in Files
  BY <1>1, <1>3 DEF Files
<1>5. Part(s, n, done) \in {s, Gives(done.n, file), Gives(s.n + done.n, done.file)}
  BY <1>2 DEF Part
<1> QED BY <1>1, <1>4, <1>5 DEF Gives

\* Reading a vector: the clauses by which its loop goes on are well defined, and each
\* part leaves the call in a state that its result accounts for.
LEMMA ReadVectorMoves ==
    ASSUME IoInv, NEW i \in 0 .. FdSlots, IsOpen(i), NEW lengths \in Vectors,
           syscall_readv(i, lengths)
    PROVE  \E s : Vectored(s, fd[i]) /\ Moves(i, s)
<1> DEFINE Clauses(f) ==
             f = [k \in 0 .. Len(lengths) |->
                    IF k = 0 THEN Gives(0, fd[i])
                    ELSE Part(f[k - 1], lengths[k], FsRead(f[k - 1].file, lengths[k]))]
           Done == CHOOSE f : Clauses(f)
<1>1. PICK file0, n, here : file0 = fd[i] /\ n = Len(lengths) /\ here = alive
  OBVIOUS
<1>2. /\ n \in Nat /\ \A k \in 1 .. n : lengths[k] \in Nat
  <2>1. lengths \in Seq(Nat)
    BY FileIoAssumption
  <2> QED BY <1>1, <2>1
<1>3. Sound(file0)
  BY <1>1, OpenFiles
<1>4. PICK S : S = {s \in [n : Int, file : Files] : Vectored(s, file0)}
  OBVIOUS
<1>5. PICK first : first \in S /\ first = Gives(0, file0)
  BY <1>3, <1>4, BeginsVector
<1>6. ASSUME NEW s \in S, NEW k \in 1 .. n
      PROVE  Part(s, lengths[k], FsRead(s.file, lengths[k])) \in S
  <2>1. Vectored(s, file0) /\ Sound(s.file) /\ lengths[k] \in Nat
    BY <1>2, <1>4 DEF Vectored
  <2>2. PICK done : done = FsRead(s.file, lengths[k]) /\ MovedBy(done, s.file)
    BY <2>1, ReadMoves
  <2>3. PICK r : r = Part(s, lengths[k], done) /\ Vectored(r, file0)
    BY <1>3, <2>1, <2>2, PartMoves
  <2>4. r \in [n : Int, file : Files]
    BY <1>4, <2>1, <2>2, <2>3, PartType
  <2> QED BY <1>4, <2>2, <2>3, <2>4
<1>7. PICK step : step = [x \in S \X (1 .. n) |->
                            Part(x[1], lengths[x[2]], FsRead(x[1].file, lengths[x[2]]))]
  OBVIOUS
<1>8. step \in [S \X (1 .. n) -> S]
  BY <1>6, <1>7
<1>9. \E f \in [0 .. n -> S] : IsRun(f, n, first, step)
  BY <1>2, <1>5, <1>8, StepsExist
<1>10. PICK f \in [0 .. n -> S] :
         f[0] = first /\ \A k \in 1 .. n : f[k] = step[<<f[k - 1], k>>]
  BY <1>9 DEF IsRun
<1>11. Clauses(f)
  <2>1. ASSUME NEW k \in 0 .. n, k # 0
        PROVE  f[k] = Part(f[k - 1], lengths[k], FsRead(f[k - 1].file, lengths[k]))
    <3>1. k \in 1 .. n /\ k - 1 \in 0 .. n
      BY <1>2, <2>1
    <3>2. f[k - 1] \in S
      BY <1>10, <3>1
    <3> QED BY <1>7, <1>10, <3>1, <3>2
  <2>2. f[0] = Gives(0, fd[i])
    BY <1>1, <1>5, <1>10
  <2> QED BY <1>1, <1>10, <2>1, <2>2
<1>12. Clauses(Done)
  <2> HIDE DEF Clauses
  <2> QED BY <1>11, Zenon
<1>13. PICK g : g = Done /\ Clauses(g)
  BY <1>12
<1>14. g[0] \in S
  <2> HIDE DEF Done
  <2>1. 0 \in 0 .. Len(lengths)
    BY <1>1, <1>2
  <2>2. g[0] = Gives(0, fd[i])
    BY <1>13, <2>1
  <2> QED BY <1>1, <1>5, <2>2
<1>15. ASSUME NEW k \in 1 .. n, g[k - 1] \in S PROVE g[k] \in S
  <2>1. k \in 0 .. n /\ k # 0
    BY <1>2
  <2>2. g[k] = Part(g[k - 1], lengths[k], FsRead(g[k - 1].file, lengths[k]))
    BY <1>1, <1>13, <2>1
  <2> QED BY <1>6, <1>15, <2>2
<1>16. g[n] \in S
  <2> HIDE DEF Clauses, Done
  <2>1. \A k \in 0 .. n : g[k] \in S
    BY <1>2, <1>14, <1>15, RunsStay
  <2> QED BY <1>2, <2>1
<1>17. Moves(i, Done[Len(lengths)])
  BY Zenon DEF syscall_readv
<1>18. Vectored(g[n], fd[i]) /\ g[n] = Done[Len(lengths)]
  BY <1>1, <1>4, <1>13, <1>16
<1> QED BY <1>17, <1>18

\* Writing a vector: the clauses by which its loop goes on are well defined, and each
\* part leaves the call in a state that its result accounts for.
LEMMA WriteVectorMoves ==
    ASSUME IoInv, NEW i \in 0 .. FdSlots, IsOpen(i), NEW lengths \in Vectors,
           syscall_writev(i, lengths)
    PROVE  \E s : Vectored(s, fd[i]) /\ Moves(i, s)
<1> DEFINE Clauses(f) ==
             f = [k \in 0 .. Len(lengths) |->
                    IF k = 0 THEN Gives(0, fd[i])
                    ELSE Part(f[k - 1], lengths[k], FsWrite(f[k - 1].file, lengths[k]))]
           Done == CHOOSE f : Clauses(f)
<1>1. PICK file0, n, here : file0 = fd[i] /\ n = Len(lengths) /\ here = alive
  OBVIOUS
<1>2. /\ n \in Nat /\ \A k \in 1 .. n : lengths[k] \in Nat
  <2>1. lengths \in Seq(Nat)
    BY FileIoAssumption
  <2> QED BY <1>1, <2>1
<1>3. Sound(file0)
  BY <1>1, OpenFiles
<1>4. PICK S : S = {s \in [n : Int, file : Files] : Vectored(s, file0)}
  OBVIOUS
<1>5. PICK first : first \in S /\ first = Gives(0, file0)
  BY <1>3, <1>4, BeginsVector
<1>6. ASSUME NEW s \in S, NEW k \in 1 .. n
      PROVE  Part(s, lengths[k], FsWrite(s.file, lengths[k])) \in S
  <2>1. Vectored(s, file0) /\ Sound(s.file) /\ lengths[k] \in Nat
    BY <1>2, <1>4 DEF Vectored
  <2>2. PICK done : done = FsWrite(s.file, lengths[k]) /\ MovedBy(done, s.file)
    BY <2>1, WriteMoves
  <2>3. PICK r : r = Part(s, lengths[k], done) /\ Vectored(r, file0)
    BY <1>3, <2>1, <2>2, PartMoves
  <2>4. r \in [n : Int, file : Files]
    BY <1>4, <2>1, <2>2, <2>3, PartType
  <2> QED BY <1>4, <2>2, <2>3, <2>4
<1>7. PICK step : step = [x \in S \X (1 .. n) |->
                            Part(x[1], lengths[x[2]], FsWrite(x[1].file, lengths[x[2]]))]
  OBVIOUS
<1>8. step \in [S \X (1 .. n) -> S]
  BY <1>6, <1>7
<1>9. \E f \in [0 .. n -> S] : IsRun(f, n, first, step)
  BY <1>2, <1>5, <1>8, StepsExist
<1>10. PICK f \in [0 .. n -> S] :
         f[0] = first /\ \A k \in 1 .. n : f[k] = step[<<f[k - 1], k>>]
  BY <1>9 DEF IsRun
<1>11. Clauses(f)
  <2>1. ASSUME NEW k \in 0 .. n, k # 0
        PROVE  f[k] = Part(f[k - 1], lengths[k], FsWrite(f[k - 1].file, lengths[k]))
    <3>1. k \in 1 .. n /\ k - 1 \in 0 .. n
      BY <1>2, <2>1
    <3>2. f[k - 1] \in S
      BY <1>10, <3>1
    <3> QED BY <1>7, <1>10, <3>1, <3>2
  <2>2. f[0] = Gives(0, fd[i])
    BY <1>1, <1>5, <1>10
  <2> QED BY <1>1, <1>10, <2>1, <2>2
<1>12. Clauses(Done)
  <2> HIDE DEF Clauses
  <2> QED BY <1>11, Zenon
<1>13. PICK g : g = Done /\ Clauses(g)
  BY <1>12
<1>14. g[0] \in S
  <2> HIDE DEF Done
  <2>1. 0 \in 0 .. Len(lengths)
    BY <1>1, <1>2
  <2>2. g[0] = Gives(0, fd[i])
    BY <1>13, <2>1
  <2> QED BY <1>1, <1>5, <2>2
<1>15. ASSUME NEW k \in 1 .. n, g[k - 1] \in S PROVE g[k] \in S
  <2>1. k \in 0 .. n /\ k # 0
    BY <1>2
  <2>2. g[k] = Part(g[k - 1], lengths[k], FsWrite(g[k - 1].file, lengths[k]))
    BY <1>1, <1>13, <2>1
  <2> QED BY <1>6, <1>15, <2>2
<1>16. g[n] \in S
  <2> HIDE DEF Clauses, Done
  <2>1. \A k \in 0 .. n : g[k] \in S
    BY <1>2, <1>14, <1>15, RunsStay
  <2> QED BY <1>2, <2>1
<1>17. Moves(i, Done[Len(lengths)])
  BY Zenon DEF syscall_writev
<1>18. Vectored(g[n], fd[i]) /\ g[n] = Done[Len(lengths)]
  BY <1>1, <1>4, <1>13, <1>16
<1> QED BY <1>17, <1>18

\* The end of a call.
LEMMA MovesKeeps ==
    ASSUME IoInv, NEW i \in 0 .. FdSlots, IsOpen(i), NEW s, Vectored(s, fd[i]), Moves(i, s)
    PROVE  IoInv'
<1>1. /\ i \in 0 .. FdSlots - 1 /\ fd[i] \in Files /\ Sound(fd[i]) /\ Agrees(fd[i])
  BY OpenFiles
<1>2. PICK old, k : /\ old = fd[i]
                    /\ k = IF s.n > 0 /\ old.driver \in Positioned
                           THEN s.file.known + s.n ELSE s.file.known
  OBVIOUS
<1>3. /\ old \in Files /\ s.file \in Files /\ s.n \in Int /\ Sound(s.file)
      /\ s.file.driver = old.driver /\ s.file.known = old.known
      /\ old.known \in Nat /\ old.offset \in Nat /\ k \in Nat
  BY <1>1, <1>2 DEF Vectored, Sound, Files
<1>4. PICK file : file = [s.file EXCEPT !.known = k]
  OBVIOUS
<1>5. fd' = [fd EXCEPT ![i] = file] /\ alive' = alive
  BY <1>2, <1>3, <1>4 DEF Moves, Files
<1>6. /\ file \in Files /\ file.known = k /\ file.driver = old.driver /\ Sound(file)
      /\ file.offset = s.file.offset /\ file.cut = s.file.cut
  BY <1>3, <1>4 DEF Files, Sound
<1>7. Agrees(file)
  <2> SUFFICES ASSUME old.driver \in Positioned, ~ s.file.cut PROVE k = s.file.offset
    BY <1>6 DEF Agrees
  <2>1. ~ old.cut /\ s.file.offset = old.offset + IF s.n > 0 THEN s.n ELSE 0
    BY <1>2 DEF Vectored
  <2>2. old.known = old.offset
    BY <1>1, <1>2, <2>1 DEF Agrees
  <2> QED BY <1>2, <1>3, <2>1, <2>2
<1> QED BY <1>1, <1>5, <1>6, <1>7 DEF IoInv

LEMMA OneCallMoves ==
    ASSUME NEW file0, Sound(file0), NEW done, MovedBy(done, file0)
    PROVE  Vectored(done, file0)
BY DEF Vectored, MovedBy

\* A seek leaves a FAT file where its result says, or where it was.
LEMMA SeekPlaces ==
    ASSUME NEW file, Sound(file), file.driver = "fat", NEW to \in Int, NEW whence
    PROVE  LET done == FatLseek(file, to, whence)
           IN  \/ done = Gives(-1, file)
               \/ \E moved \in Files, n \in Nat :
                      /\ done = Gives(n, moved) /\ Sound(moved)
                      /\ moved.offset = n /\ moved.driver = file.driver
                      /\ moved.cut = file.cut /\ moved.known = file.known
<1>1. /\ file \in Files /\ file.fptr \in Nat /\ file.objsize \in Nat
      /\ file.fptr <= file.objsize /\ file.objsize <= FatRoom
  BY DEF Sound, Files
<1>2. CASE whence \notin {"SEEK_SET", "SEEK_CUR", "SEEK_END"}
  BY <1>2 DEF FatLseek
<1>3. CASE whence \in {"SEEK_SET", "SEEK_CUR", "SEEK_END"}
  <2>1. PICK from \in Nat :
          from = CASE whence = "SEEK_SET" -> 0
                   [] whence = "SEEK_CUR" -> file.fptr
                   [] whence = "SEEK_END" -> file.objsize
                   [] OTHER -> 0
    BY <1>1, <1>3
  <2>2. PICK place \in Nat : place = (from + to) % SeekRange
    BY <2>1, IoFacts
  <2>3. PICK limit \in Nat :
          /\ limit = IF "WRITE" \in file.flags THEN FatRoom ELSE file.objsize
          /\ limit <= FatRoom
    BY <1>1, IoFacts
  <2>4. PICK end \in Nat : end = Lesser(place, limit) /\ end <= limit
    BY <2>2, <2>3 DEF Lesser
  <2>5. PICK size \in Nat : /\ size = IF end > file.objsize THEN end ELSE file.objsize
                            /\ end <= size /\ size <= FatRoom
    BY <1>1, <2>3, <2>4, IoFacts
  <2>6. PICK moved : moved = [file EXCEPT !.fptr = end, !.objsize = size]
    OBVIOUS
  <2>7. /\ moved \in Files /\ moved.fptr = end /\ moved.objsize = size
        /\ moved.driver = file.driver /\ moved.cut = file.cut /\ moved.known = file.known
    BY <1>1, <2>4, <2>5, <2>6 DEF Files
  <2>8. moved = FLseekTo(file, (from + to) % SeekRange)
    BY <1>1, <2>2, <2>3, <2>4, <2>5, <2>6 DEF FLseekTo, Files
  <2>9. FatLseek(file, to, whence) = Gives(moved.fptr, [moved EXCEPT !.offset = moved.fptr])
    BY <1>3, <2>1, <2>8 DEF FatLseek
  <2>10. PICK placed : placed = [moved EXCEPT !.offset = end]
    OBVIOUS
  <2>11. /\ placed \in Files /\ placed.fptr = end /\ placed.objsize = size
         /\ placed.offset = end /\ placed.driver = file.driver /\ placed.cut = file.cut
         /\ placed.known = file.known
    BY <2>4, <2>7, <2>10 DEF Files
  <2>12. Sound(placed)
    BY <2>5, <2>11 DEF Sound
  <2> QED BY <2>4, <2>7, <2>9, <2>10, <2>11, <2>12
<1> QED BY <1>2, <1>3

LEMMA PlacedKeeps ==
    ASSUME IoInv, NEW i \in 0 .. FdSlots, IsOpen(i), NEW to \in Int, NEW whence, NEW result,
           Placed(i, FsLseek(fd[i], to, whence), result)
    PROVE  IoInv'
<1>1. /\ i \in 0 .. FdSlots - 1 /\ fd[i] \in Files /\ Sound(fd[i]) /\ Agrees(fd[i])
  BY OpenFiles
<1>2. PICK old : old = fd[i]
  OBVIOUS
<1>3. PICK done : done = FsLseek(old, to, whence)
  OBVIOUS
<1>4. /\ fd' = [fd EXCEPT ![i] = [done.file EXCEPT
                    !.known = IF done.n >= 0 /\ old.driver = "fat" THEN done.n ELSE @,
                    !.cut = @ /\ ~(done.n >= 0 /\ old.driver = "fat")]]
      /\ alive' = alive
  BY <1>2, <1>3 DEF Placed
<1>5. PICK file : file = [done.file EXCEPT
                    !.known = IF done.n >= 0 /\ old.driver = "fat" THEN done.n ELSE @,
                    !.cut = @ /\ ~(done.n >= 0 /\ old.driver = "fat")]
  OBVIOUS
<1>6. SUFFICES file \in Files /\ Sound(file) /\ Agrees(file)
  BY <1>1, <1>4, <1>5 DEF IoInv
<1>7. CASE done.file = old /\ ~ (done.n >= 0 /\ old.driver = "fat")
  <2>1. file = old
    BY <1>1, <1>2, <1>5, <1>7 DEF Files
  <2> QED BY <1>1, <1>2, <2>1
<1>8. ASSUME NEW moved \in Files, NEW n \in Nat, old.driver = "fat",
             done = Gives(n, moved), Sound(moved), moved.offset = n,
             moved.driver = old.driver
      PROVE  file \in Files /\ Sound(file) /\ Agrees(file)
  <2>1. done.n = n /\ done.file = moved /\ n >= 0
    BY <1>8 DEF Gives
  <2>2. file = [moved EXCEPT !.known = n, !.cut = FALSE]
    BY <1>5, <1>8, <2>1 DEF Files
  <2>3. /\ file \in Files /\ file.known = n /\ file.offset = n
        /\ file.fptr = moved.fptr /\ file.objsize = moved.objsize
        /\ file.driver = moved.driver
    BY <1>8, <2>2 DEF Files
  <2> QED BY <1>8, <2>3 DEF Sound, Agrees
<1>9. CASE old.driver = "fat"
  <2>1. done = FatLseek(old, to, whence)
    BY <1>3, <1>9 DEF FsLseek
  <2>2. \/ done = Gives(-1, old)
        \/ \E moved \in Files, n \in Nat :
               /\ done = Gives(n, moved) /\ Sound(moved)
               /\ moved.offset = n /\ moved.driver = old.driver
               /\ moved.cut = old.cut /\ moved.known = old.known
    BY <1>1, <1>2, <1>9, <2>1, SeekPlaces
  <2>3. CASE done = Gives(-1, old)
    <3>1. done.file = old /\ ~ (done.n >= 0)
      BY <2>3 DEF Gives
    <3> QED BY <1>7, <3>1
  <2> QED BY <1>8, <1>9, <2>2, <2>3
<1>10. CASE old.driver # "fat"
  <2>1. done.file = old
    BY <1>3, <1>10 DEF FsLseek, Gives
  <2> QED BY <1>7, <1>10, <2>1
<1> QED BY <1>9, <1>10

LEMMA IoInitial == FileIoInit => IoInv
BY DEF FileIoInit, IoInv

LEMMA IoStep == IoInv /\ [FileIoNext]_ioVars => IoInv'
<1> SUFFICES ASSUME IoInv, [FileIoNext]_ioVars PROVE IoInv'
  OBVIOUS
<1>1. ASSUME UNCHANGED <<fd, alive>> PROVE IoInv'
  BY <1>1 DEF IoInv
<1>2. ASSUME NEW i \in 0 .. FdSlots - 1, ReleaseFd(i) PROVE IoInv'
  BY <1>2 DEF ReleaseFd, IoInv
<1>3. ASSUME NEW i \in 0 .. FdSlots - 1, NEW kind \in FileKinds, OpenFd(i, kind)
      PROVE  IoInv'
  <2>1. kind \in [driver : STRING, flags : SUBSET {"READ", "WRITE"}, objsize : 0 .. FatRoom]
    BY FileIoAssumption
  <2>2. PICK file : file = Opened(kind)
    OBVIOUS
  <2>3. file \in Files /\ Sound(file) /\ Agrees(file)
    BY <2>1, <2>2, IoFacts DEF Opened, Files, Sound, Agrees
  <2>4. fd' = [fd EXCEPT ![i] = file] /\ alive' = alive
    BY <1>3, <2>2 DEF OpenFd
  <2> QED BY <2>3, <2>4 DEF IoInv
<1>4. ASSUME NEW i \in 0 .. FdSlots, NEW n \in IoSizes, syscall_read(i, n) PROVE IoInv'
  <2>1. CASE IsOpen(i)
    <3>1. Sound(fd[i]) /\ n \in Nat
      BY <2>1, OpenFiles, FileIoAssumption
    <3>2. PICK done, old : done = FsRead(old, n) /\ old = fd[i]
      OBVIOUS
    <3>3. Vectored(done, old)
      BY <3>1, <3>2, ReadMoves, OneCallMoves
    <3>4. Moves(i, done)
      BY <1>4, <2>1, <3>2 DEF syscall_read
    <3> QED BY <2>1, <3>2, <3>3, <3>4, MovesKeeps
  <2>2. CASE ~ IsOpen(i)
    BY <1>1, <1>4, <2>2 DEF syscall_read, Refused
  <2> QED BY <2>1, <2>2
<1>5. ASSUME NEW i \in 0 .. FdSlots, NEW n \in IoSizes, syscall_write(i, n) PROVE IoInv'
  <2>1. CASE IsOpen(i)
    <3>1. Sound(fd[i]) /\ n \in Nat
      BY <2>1, OpenFiles, FileIoAssumption
    <3>2. PICK done, old : done = FsWrite(old, n) /\ old = fd[i]
      OBVIOUS
    <3>3. Vectored(done, old)
      BY <3>1, <3>2, WriteMoves, OneCallMoves
    <3>4. Moves(i, done)
      BY <1>5, <2>1, <3>2 DEF syscall_write
    <3> QED BY <2>1, <3>2, <3>3, <3>4, MovesKeeps
  <2>2. CASE ~ IsOpen(i)
    BY <1>1, <1>5, <2>2 DEF syscall_write, Refused
  <2> QED BY <2>1, <2>2
<1>6. ASSUME NEW i \in 0 .. FdSlots, NEW v \in Vectors, syscall_readv(i, v) PROVE IoInv'
  <2>1. CASE IsOpen(i)
    BY <1>6, <2>1, ReadVectorMoves, MovesKeeps
  <2>2. CASE ~ IsOpen(i)
    <3>1. UNCHANGED <<fd, alive>>
      BY <1>6, <2>2, Zenon DEF syscall_readv
    <3> QED BY <1>1, <3>1
  <2> QED BY <2>1, <2>2
<1>7. ASSUME NEW i \in 0 .. FdSlots, NEW v \in Vectors, syscall_writev(i, v) PROVE IoInv'
  <2>1. CASE IsOpen(i)
    BY <1>7, <2>1, WriteVectorMoves, MovesKeeps
  <2>2. CASE ~ IsOpen(i)
    <3>1. UNCHANGED <<fd, alive>>
      BY <1>7, <2>2, Zenon DEF syscall_writev
    <3> QED BY <1>1, <3>1
  <2> QED BY <2>1, <2>2
<1>8. ASSUME NEW i \in 0 .. FdSlots, NEW to \in Seeks, NEW whence, NEW high,
             syscall_lseek(i, to, whence) \/ syscall_llseek(i, high, to, whence)
      PROVE  IoInv'
  <2>1. to \in Int
    BY FileIoAssumption
  <2>2. \/ UNCHANGED <<fd, alive>>
        \/ IsOpen(i) /\ \E result : Placed(i, FsLseek(fd[i], to, whence), result)
    BY <1>8 DEF syscall_lseek, syscall_llseek, Refused
  <2> QED BY <1>1, <2>1, <2>2, PlacedKeeps
<1>9. CASE ThreadEnds
  BY <1>9 DEF ThreadEnds, IoInv
<1>10. ASSUME NEW i, NEW request, syscall_ioctl(i, request) PROVE IoInv'
  BY <1>1, <1>10 DEF syscall_ioctl
<1>11. CASE UNCHANGED ioVars
  BY <1>1, <1>11 DEF ioVars
<1> QED BY <1>2, <1>3, <1>4, <1>5, <1>6, <1>7, <1>8, <1>9, <1>10, <1>11 DEF FileIoNext

\* A program that adds up what its calls return knows where it is in each of its
\* files, for any number of files, any sizes, vectors and seeks.
THEOREM PositionsAreFollowed == FileIoSpec => []PositionsFollow
<1>1. IoInv => PositionsFollow
  <2> SUFFICES ASSUME IoInv, NEW i \in 0 .. FdSlots - 1
               PROVE  /\ fd[i].driver = "fat" =>
                             fd[i].offset = fd[i].fptr /\ fd[i].fptr <= fd[i].objsize
                      /\ fd[i].driver \in Positioned /\ ~fd[i].cut =>
                             fd[i].known = fd[i].offset
    BY DEF PositionsFollow
  <2>1. fd[i] = NoFile \/ (Sound(fd[i]) /\ Agrees(fd[i]))
    <3>1. PICK S : S = {NoFile} \cup {file \in Files : Sound(file) /\ Agrees(file)}
      OBVIOUS
    <3>2. fd \in [0 .. FdSlots - 1 -> S]
      BY <3>1 DEF IoInv
    <3>3. fd[i] \in S
      BY <3>2
    <3> QED BY <3>1, <3>3
  <2>2. CASE fd[i] = NoFile
    BY <2>2 DEF NoFile, Positioned
  <2>3. CASE Sound(fd[i]) /\ Agrees(fd[i])
    BY <2>3 DEF Sound, Agrees
  <2> QED BY <2>1, <2>2, <2>3
<1> QED BY <1>1, IoInitial, IoStep, PTL DEF FileIoSpec

-----------------------------------------------------------------------------
(***************************************************************************)
(* Text on the frame buffer.                                               *)
(***************************************************************************)

\* Facts about products.
LEMMA ProductGrows ==
    ASSUME NEW a \in Nat, NEW b \in Nat, NEW p \in Nat, a <= b
    PROVE  a * p \in Nat /\ b * p \in Nat /\ a * p <= b * p
OBVIOUS

LEMMA NextProduct ==
    ASSUME NEW a \in Nat, NEW p \in Nat
    PROVE  (a + 1) * p = a * p + p /\ (a + 1) * p \in Nat /\ a * p \in Nat
OBVIOUS

\* A number has one quotient and one rest.
LEMMA OneQuotient ==
    ASSUME NEW p \in Nat \ {0}, NEW a \in Nat, NEW b \in Nat,
           NEW r \in 0 .. p - 1, NEW s \in 0 .. p - 1, a * p + r = b * p + s
    PROVE  a = b /\ r = s
<1>1. ~ (a + 1 <= b)
  <2> SUFFICES ASSUME a + 1 <= b PROVE FALSE
    OBVIOUS
  <2>1. a + 1 \in Nat
    OBVIOUS
  <2>2. (a + 1) * p <= b * p
    BY <2>1, ProductGrows
  <2> QED BY <2>2, NextProduct
<1>2. ~ (b + 1 <= a)
  <2> SUFFICES ASSUME b + 1 <= a PROVE FALSE
    OBVIOUS
  <2>1. b + 1 \in Nat
    OBVIOUS
  <2>2. (b + 1) * p <= a * p
    BY <2>1, ProductGrows
  <2> QED BY <2>2, NextProduct
<1> QED BY <1>1, <1>2

LEMMA QuotientBelow ==
    ASSUME NEW n \in Nat, NEW k \in Nat \ {0}
    PROVE  /\ n \div k \in Nat /\ (n \div k) * k \in Nat /\ (n \div k) * k <= n
           /\ n % k = 0 => (n \div k) * k = n
OBVIOUS

\* A place in the a-th of n parts of size p.
LEMMA WithinParts ==
    ASSUME NEW a \in Nat, NEW n \in Nat, NEW p \in Nat, a < n, NEW r \in Nat, r < p
    PROVE  a * p + r \in Nat /\ a * p + r < n * p /\ n * p \in Nat
<1>1. a + 1 \in Nat /\ a + 1 <= n
  OBVIOUS
<1>2. (a + 1) * p <= n * p /\ n * p \in Nat
  BY <1>1, ProductGrows
<1> QED BY <1>2, NextProduct

LEMMA ModeFacts ==
    ASSUME mode \in Modes
    PROVE  /\ mode.width \in Nat /\ mode.height \in Nat /\ mode.pitch \in Nat
           /\ mode.depth \in 1 .. 4 /\ mode.width <= mode.pitch
           /\ PagePixels \in Nat \ {0} /\ FontWidth \in Nat \ {0} /\ FontHeight \in Nat \ {0}
           /\ CellColumns \in Nat /\ CellRows \in Nat
           /\ CellColumns * (FontWidth + 1) <= mode.width
           /\ CellRows * FontHeight <= mode.height
<1>1. /\ mode.width \in Nat /\ mode.height \in Nat /\ mode.pitch \in Nat
      /\ mode.depth \in 1 .. 4 /\ mode.width <= mode.pitch
      /\ PagePixels \in Nat \ {0} /\ FontWidth \in Nat \ {0} /\ FontHeight \in Nat \ {0}
  BY GraphicsAssumption
<1>2. FontWidth + 1 \in Nat \ {0}
  BY <1>1
<1>3. PICK w, h : w = mode.width /\ h = mode.height
  OBVIOUS
<1>4. /\ w \div (FontWidth + 1) \in Nat /\ (w \div (FontWidth + 1)) * (FontWidth + 1) <= w
      /\ h \div FontHeight \in Nat /\ (h \div FontHeight) * FontHeight <= h
  BY <1>1, <1>2, <1>3, QuotientBelow
<1> QED BY <1>1, <1>3, <1>4 DEF CellColumns, CellRows

\* The line and the column of a place in a cell.
LineOf(cell, p) == cell[2] * FontHeight + p[2]
ColumnOf(cell, p) == cell[1] * (FontWidth + 1) + p[1]

LEMMA PlaceOnScreen ==
    ASSUME mode \in Modes, NEW cell \in Cells, NEW p \in GlyphPlaces
    PROVE  /\ LineOf(cell, p) \in Nat /\ LineOf(cell, p) < mode.height
           /\ ColumnOf(cell, p) \in Nat /\ ColumnOf(cell, p) < mode.width
           /\ PixelAt(cell, p[1], p[2]) = LineOf(cell, p) * mode.pitch + ColumnOf(cell, p)
<1>1. /\ cell[1] \in Nat /\ cell[1] < CellColumns /\ cell[2] \in Nat /\ cell[2] < CellRows
      /\ p[1] \in Nat /\ p[1] < FontWidth /\ p[2] \in Nat /\ p[2] < FontHeight
  BY ModeFacts DEF Cells, GlyphPlaces
<1>2. PICK x, y, rows, columns :
        /\ x = cell[1] /\ y = cell[2] /\ rows = CellRows /\ columns = CellColumns
  OBVIOUS
<1>3. y * FontHeight + p[2] \in Nat /\ y * FontHeight + p[2] < rows * FontHeight
      /\ rows * FontHeight \in Nat
  BY <1>1, <1>2, ModeFacts, WithinParts
<1>4. FontWidth + 1 \in Nat /\ p[1] < FontWidth + 1
  BY <1>1, ModeFacts
<1>5. x * (FontWidth + 1) + p[1] \in Nat /\ x * (FontWidth + 1) + p[1] < columns * (FontWidth + 1)
      /\ columns * (FontWidth + 1) \in Nat
  BY <1>1, <1>2, <1>4, ModeFacts, WithinParts
<1>6. LineOf(cell, p) \in Nat /\ LineOf(cell, p) < mode.height
  BY <1>2, <1>3, ModeFacts DEF LineOf
<1>7. ColumnOf(cell, p) \in Nat /\ ColumnOf(cell, p) < mode.width
  BY <1>2, <1>5, ModeFacts DEF ColumnOf
<1>8. PixelAt(cell, p[1], p[2]) = LineOf(cell, p) * mode.pitch + ColumnOf(cell, p)
  <2>1. PICK l, a, b, c \in Nat :
         /\ l = LineOf(cell, p) * mode.pitch /\ a = cell[1] * (FontWidth + 1) /\ b = p[1]
         /\ c = ColumnOf(cell, p) /\ c = a + b
    <3>1. LineOf(cell, p) * mode.pitch \in Nat
      BY <1>6, ModeFacts
    <3>2. cell[1] * (FontWidth + 1) \in Nat
      BY <1>1, <1>4
    <3> QED BY <1>1, <1>7, <3>1, <3>2 DEF ColumnOf
  <2>2. PixelAt(cell, p[1], p[2]) = (l + a) + b
    BY <2>1 DEF PixelAt, LineOf
  <2> QED BY <2>1, <2>2
<1> QED BY <1>6, <1>7, <1>8

\* Different places of cells are different pixels.
LEMMA PixelsDiffer ==
    ASSUME mode \in Modes, NEW cell \in Cells, NEW p \in GlyphPlaces,
           NEW other \in Cells, NEW q \in GlyphPlaces,
           PixelAt(cell, p[1], p[2]) = PixelAt(other, q[1], q[2])
    PROVE  cell = other /\ p = q
<1>1. /\ cell[1] \in Nat /\ cell[2] \in Nat /\ other[1] \in Nat /\ other[2] \in Nat
      /\ p[1] \in 0 .. FontWidth - 1 /\ q[1] \in 0 .. FontWidth - 1
      /\ p[2] \in 0 .. FontHeight - 1 /\ q[2] \in 0 .. FontHeight - 1
      /\ cell = <<cell[1], cell[2]>> /\ other = <<other[1], other[2]>>
      /\ p = <<p[1], p[2]>> /\ q = <<q[1], q[2]>>
  BY ModeFacts DEF Cells, GlyphPlaces
<1>2. LineOf(cell, p) = LineOf(other, q) /\ ColumnOf(cell, p) = ColumnOf(other, q)
  <2>1. PICK pitch, l, k, c, d :
          /\ pitch = mode.pitch /\ l = LineOf(cell, p) /\ k = LineOf(other, q)
          /\ c = ColumnOf(cell, p) /\ d = ColumnOf(other, q)
    OBVIOUS
  <2>2. /\ l \in Nat /\ k \in Nat /\ c \in Nat /\ d \in Nat
        /\ pitch \in Nat /\ c < pitch /\ d < pitch
        /\ l * pitch + c = k * pitch + d
    BY <2>1, PlaceOnScreen, ModeFacts
  <2>3. pitch \in Nat \ {0} /\ c \in 0 .. pitch - 1 /\ d \in 0 .. pitch - 1
    BY <2>2
  <2>4. l = k /\ c = d
    BY <2>2, <2>3, OneQuotient
  <2> QED BY <2>1, <2>4
<1>3. cell[2] = other[2] /\ p[2] = q[2]
  <2>1. cell[2] * FontHeight + p[2] = other[2] * FontHeight + q[2]
    BY <1>2 DEF LineOf
  <2> QED BY <1>1, <2>1, ModeFacts, OneQuotient
<1>4. cell[1] = other[1] /\ p[1] = q[1]
  <2>1. PICK w \in Nat \ {0} : w = FontWidth + 1
    BY ModeFacts
  <2>2. cell[1] * w + p[1] = other[1] * w + q[1]
    BY <1>2, <2>1 DEF ColumnOf
  <2>3. p[1] \in 0 .. w - 1 /\ q[1] \in 0 .. w - 1
    BY <1>1, <2>1, ModeFacts
  <2> QED BY <1>1, <2>1, <2>2, <2>3, OneQuotient
<1> QED BY <1>1, <1>3, <1>4

\* Cells are in video memory, and in the part that a mode without padding maps.
LEMMA CellsInVideo ==
    ASSUME mode \in Modes, NEW cell \in Cells
    PROVE  /\ CellPixels(cell) \subseteq Video(mode)
           /\ mode.pitch = mode.width => CellPixels(cell) \subseteq FilledPixels(mode)
<1> SUFFICES ASSUME NEW p \in GlyphPlaces
             PROVE  /\ PixelAt(cell, p[1], p[2]) \in Video(mode)
                    /\ mode.pitch = mode.width =>
                          PixelAt(cell, p[1], p[2]) \in FilledPixels(mode)
  BY DEF CellPixels
<1>1. PICK pitch, width, height, l, c :
        /\ pitch = mode.pitch /\ width = mode.width /\ height = mode.height
        /\ l = LineOf(cell, p) /\ c = ColumnOf(cell, p)
  OBVIOUS
<1>2. /\ pitch \in Nat /\ width \in Nat /\ height \in Nat /\ l \in Nat /\ c \in Nat
      /\ l < height /\ c < width /\ width <= pitch /\ c < pitch
      /\ PixelAt(cell, p[1], p[2]) = l * pitch + c
  BY <1>1, ModeFacts, PlaceOnScreen
<1>3. l * pitch + c \in Nat /\ l * pitch + c < height * pitch /\ height * pitch \in Nat
  BY <1>2, WithinParts
<1>4. height * pitch <= pitch * (height + FontHeight) /\ pitch * (height + FontHeight) \in Nat
  <2>1. height + FontHeight \in Nat /\ height <= height + FontHeight
    BY <1>2, ModeFacts
  <2>2. PICK all \in Nat : all = height + FontHeight /\ height <= all
    BY <2>1
  <2>3. height * pitch <= all * pitch /\ all * pitch \in Nat
    BY <1>2, <2>2, ProductGrows
  <2>4. all * pitch = pitch * all
    BY <1>2, <2>2
  <2> QED BY <2>2, <2>3, <2>4
<1>5. PixelAt(cell, p[1], p[2]) \in Video(mode)
  BY <1>1, <1>2, <1>3, <1>4 DEF Video
<1>6. ASSUME pitch = width PROVE PixelAt(cell, p[1], p[2]) \in FilledPixels(mode)
  <2>1. height * pitch = width * height
    BY <1>2, <1>6
  <2> QED BY <1>1, <1>2, <1>3, <2>1 DEF FilledPixels
<1> QED BY <1>1, <1>5, <1>6

\* The kernel has mapped all it draws in, unless lines are padded, pixels are
\* smaller than four bytes or the picture is not whole pages.
Odd == \/ mode.pitch > mode.width
       \/ mode.depth < 4
       \/ (mode.width * mode.height) % PagePixels # 0

LEMMA AllMapped ==
    ASSUME mode \in Modes, ~ Odd
    PROVE  /\ mode.pitch = mode.width
           /\ MappedPixels(mode) = FilledPixels(mode)
<1>1. PICK n, d : n = mode.width * mode.height /\ d = mode.depth
  OBVIOUS
<1>2. n \in Nat /\ d = 4 /\ n % PagePixels = 0 /\ mode.pitch = mode.width
  BY <1>1, ModeFacts DEF Odd
<1>3. (n * 4) \div 4 = n
  BY <1>2
<1>4. (n \div PagePixels) * PagePixels = n
  BY <1>2, ModeFacts, QuotientBelow
<1> QED BY <1>1, <1>2, <1>3, <1>4 DEF MappedPixels, FilledPixels

Tints == {White, Black, Red, Foreign}

\* What may be put in a cell, and what the history says of one.
Puts == [cell : Cells, ink : [c : Characters, fg : Tints, bg : Tints]]
Inks == [c : Characters, fg : Tints, bg : Tints] \cup {[c |-> -1]}

\* The picture and its history fit.
Frames == [shown : [Video(mode) -> Tints], drawn : [Cells -> Inks]]

Fits(shown, ink) ==
    \A cell \in Cells, p \in GlyphPlaces :
        ink[cell].c # -1 => shown[PixelAt(cell, p[1], p[2])] = Colour(ink[cell], p[1], p[2])

\* Every pixel of the glyph is in the colour that its place has, and no other
\* pixel changes.
LEMMA GlyphDrawn ==
    ASSUME mode \in Modes, NEW shown \in [Video(mode) -> Tints], NEW put \in Puts
    PROVE  /\ PutCharAt(shown, put) \in [Video(mode) -> Tints]
           /\ \A p \in GlyphPlaces :
                 PutCharAt(shown, put)[PixelAt(put.cell, p[1], p[2])] = Colour(put.ink, p[1], p[2])
           /\ \A i \in Video(mode) \ CellPixels(put.cell) : PutCharAt(shown, put)[i] = shown[i]
<1> DEFINE place(i) == CHOOSE p \in GlyphPlaces : PixelAt(put.cell, p[1], p[2]) = i
           colourAt(i) == Colour(put.ink, place(i)[1], place(i)[2])
<1>1. /\ put.cell \in Cells /\ put.ink.fg \in Tints /\ put.ink.bg \in Tints
  BY DEF Puts
<1>2. PutCharAt(shown, put) = [i \in Video(mode) |->
                                 IF i \in CellPixels(put.cell) THEN colourAt(i) ELSE shown[i]]
  BY DEF PutCharAt
<1>3. \A i : colourAt(i) \in Tints
  BY <1>1 DEF Colour
<1>4. ASSUME NEW p \in GlyphPlaces
      PROVE  /\ PixelAt(put.cell, p[1], p[2]) \in Video(mode) \cap CellPixels(put.cell)
             /\ place(PixelAt(put.cell, p[1], p[2])) = p
  <2>1. PixelAt(put.cell, p[1], p[2]) \in CellPixels(put.cell)
    BY DEF CellPixels
  <2>2. PixelAt(put.cell, p[1], p[2]) \in Video(mode)
    BY <1>1, <2>1, CellsInVideo
  <2>3. PICK q : q = place(PixelAt(put.cell, p[1], p[2]))
    OBVIOUS
  <2>4. q \in GlyphPlaces /\ PixelAt(put.cell, q[1], q[2]) = PixelAt(put.cell, p[1], p[2])
    BY <2>3
  <2>5. q = p
    BY <1>1, <2>4, PixelsDiffer
  <2> QED BY <2>1, <2>2, <2>3, <2>5
<1> HIDE DEF place
<1>5. ASSUME NEW p \in GlyphPlaces
      PROVE  PutCharAt(shown, put)[PixelAt(put.cell, p[1], p[2])] = Colour(put.ink, p[1], p[2])
  <2>1. PICK i \in Video(mode) \cap CellPixels(put.cell) :
          i = PixelAt(put.cell, p[1], p[2]) /\ place(i) = p
    BY <1>4
  <2>2. PutCharAt(shown, put)[i] = colourAt(i)
    BY <1>2, <2>1
  <2> QED BY <2>1, <2>2
<1> HIDE DEF colourAt
<1>6. PutCharAt(shown, put) \in [Video(mode) -> Tints]
  BY <1>2, <1>3
<1>7. \A i \in Video(mode) \ CellPixels(put.cell) : PutCharAt(shown, put)[i] = shown[i]
  BY <1>2
<1> QED BY <1>5, <1>6, <1>7

\* Drawing in one cell damages no other.
LEMMA PutFits ==
    ASSUME mode \in Modes, NEW s \in Frames, Fits(s.shown, s.drawn), NEW put \in Puts
    PROVE  /\ Put(s, put) \in Frames
           /\ Fits(Put(s, put).shown, Put(s, put).drawn)
<1>1. PICK shown, ink, x, y :
        /\ shown = s.shown /\ ink = s.drawn
        /\ x = PutCharAt(shown, put) /\ y = [ink EXCEPT ![put.cell] = put.ink]
  OBVIOUS
<1>2. /\ shown \in [Video(mode) -> Tints] /\ ink \in [Cells -> Inks] /\ Fits(shown, ink)
      /\ put.cell \in Cells /\ put.ink \in [c : Characters, fg : Tints, bg : Tints]
  BY <1>1 DEF Frames, Puts
<1>3. /\ x \in [Video(mode) -> Tints]
      /\ \A p \in GlyphPlaces : x[PixelAt(put.cell, p[1], p[2])] = Colour(put.ink, p[1], p[2])
      /\ \A i \in Video(mode) \ CellPixels(put.cell) : x[i] = shown[i]
  BY <1>1, <1>2, GlyphDrawn
<1>4. y \in [Cells -> Inks] /\ y[put.cell] = put.ink
      /\ \A cell \in Cells : cell # put.cell => y[cell] = ink[cell]
  BY <1>1, <1>2 DEF Inks
<1>5. Fits(x, y)
  <2> SUFFICES ASSUME NEW cell \in Cells, NEW p \in GlyphPlaces, y[cell].c # -1
               PROVE  x[PixelAt(cell, p[1], p[2])] = Colour(y[cell], p[1], p[2])
    BY DEF Fits
  <2>1. CASE cell = put.cell
    BY <1>3, <1>4, <2>1
  <2>2. CASE cell # put.cell
    <3>1. PICK i : i = PixelAt(cell, p[1], p[2])
      OBVIOUS
    <3>2. i \in CellPixels(cell)
      BY <3>1 DEF CellPixels
    <3>3. i \in Video(mode)
      BY <3>2, CellsInVideo
    <3>4. i \notin CellPixels(put.cell)
      BY <1>2, <2>2, <3>1, PixelsDiffer DEF CellPixels
    <3>5. x[i] = shown[i]
      BY <1>3, <3>3, <3>4
    <3>6. shown[i] = Colour(ink[cell], p[1], p[2])
      BY <1>2, <1>4, <2>2, <3>1 DEF Fits
    <3> QED BY <1>4, <2>2, <3>1, <3>5, <3>6
  <2> QED BY <2>1, <2>2
<1>6. Put(s, put) = [shown |-> x, drawn |-> y]
  BY <1>1 DEF Put
<1> QED BY <1>3, <1>4, <1>5, <1>6 DEF Frames

GraphicsInv ==
    /\ mode \in Modes
    /\ pixels \in [Video(mode) -> Tints]
    /\ drawn \in [Cells -> Inks]
    /\ Fits(pixels, drawn)
    /\ offset \in Nat
    /\ fault => Odd

\* Nothing but the picture and its history changes.
LEMMA PictureKeeps ==
    ASSUME GraphicsInv, UNCHANGED <<mode, fault>>, offset' \in Nat,
           NEW x \in [Video(mode) -> Tints], NEW y \in [Cells -> Inks],
           pixels' = x, drawn' = y, Fits(x, y)
    PROVE  GraphicsInv'
BY DEF GraphicsInv, Fits, Odd, Inks, Cells, CellColumns, CellRows, PixelAt

\* A fault changes nothing else.
LEMMA FaultKeeps ==
    ASSUME GraphicsInv, Odd, UNCHANGED <<mode, pixels, offset, userPages, drawn>>
    PROVE  GraphicsInv'
BY DEF GraphicsInv, Fits, Odd, Inks, Cells, CellColumns, CellRows, PixelAt

\* Some calls of gfx_put_char_at.
LEMMA PutAllKeeps ==
    ASSUME GraphicsInv, NEW puts \in Seq(Puts), PutAll(puts)
    PROVE  GraphicsInv'
<1> DEFINE start == [shown |-> pixels, drawn |-> drawn]
           Clauses(f) == f = [k \in 0 .. Len(puts) |->
                                IF k = 0 THEN start ELSE Put(f[k - 1], puts[k])]
           Done == CHOOSE f : Clauses(f)
<1>1. /\ mode \in Modes /\ Len(puts) \in Nat /\ DOMAIN puts = 1 .. Len(puts)
      /\ \A k \in DOMAIN puts : puts[k] \in Puts
  BY DEF GraphicsInv
<1>2. CASE ~ \A k \in DOMAIN puts : CellPixels(puts[k].cell) \subseteq MappedPixels(mode)
  <2>1. PICK k \in DOMAIN puts : ~ (CellPixels(puts[k].cell) \subseteq MappedPixels(mode))
    BY <1>2
  <2>2. PICK cell \in Cells : cell = puts[k].cell
    BY <1>1, <2>1 DEF Puts
  <2>3. Odd
    BY <1>1, <2>1, <2>2, AllMapped, CellsInVideo
  <2>4. UNCHANGED <<mode, pixels, offset, userPages, drawn>>
    BY <1>2, Zenon DEF PutAll
  <2> QED BY <2>3, <2>4, FaultKeeps
<1>3. CASE \A k \in DOMAIN puts : CellPixels(puts[k].cell) \subseteq MappedPixels(mode)
  <2>1. PICK n \in Nat : n = Len(puts)
    BY <1>1
  <2>2. PICK S : S = {s \in Frames : Fits(s.shown, s.drawn)}
    OBVIOUS
  <2>3. start \in S
    BY <2>2 DEF GraphicsInv, Frames
  <2>4. PICK first \in S : first = start
    BY <2>3
  <2>5. ASSUME NEW s \in S, NEW k \in 1 .. n PROVE Put(s, puts[k]) \in S
    <3>1. puts[k] \in Puts
      BY <1>1, <2>1
    <3> QED BY <1>1, <2>2, <3>1, PutFits
  <2>6. PICK step : step = [x \in S \X (1 .. n) |-> Put(x[1], puts[x[2]])]
    OBVIOUS
  <2>7. step \in [S \X (1 .. n) -> S]
    BY <2>5, <2>6
  <2>8. n \in Nat /\ first \in S
    BY <2>1, <2>4
  <2>9. \E f \in [0 .. n -> S] : IsRun(f, n, first, step)
    BY <2>7, <2>8, StepsExist
  <2>10. PICK f \in [0 .. n -> S] :
           f[0] = first /\ \A k \in 1 .. n : f[k] = step[<<f[k - 1], k>>]
    BY <2>9 DEF IsRun
  <2> HIDE DEF start
  <2>11. Clauses(f)
    <3>1. ASSUME NEW k \in 0 .. n, k # 0 PROVE f[k] = Put(f[k - 1], puts[k])
      <4>1. k \in 1 .. n /\ k - 1 \in 0 .. n
        BY <2>8, <3>1
      <4>2. f[k - 1] \in S
        BY <2>10, <4>1
      <4> QED BY <2>6, <2>10, <4>1, <4>2
    <3>2. f[0] = start
      BY <2>4, <2>10
    <3> QED BY <2>1, <2>10, <3>1, <3>2
  <2>12. Clauses(Done)
    <3> HIDE DEF Clauses
    <3> QED BY <2>11, Zenon
  <2>13. PICK g : g = Done /\ Clauses(g)
    BY <2>12
  <2> HIDE DEF Done
  <2>14. g[0] \in S
    <3>1. 0 \in 0 .. Len(puts)
      BY <1>1
    <3>2. g[0] = start
      BY <2>13, <3>1
    <3> QED BY <2>3, <3>2
  <2>15. ASSUME NEW k \in 1 .. n, g[k - 1] \in S PROVE g[k] \in S
    <3>1. k \in 0 .. n /\ k # 0
      BY <2>8
    <3>2. g[k] = Put(g[k - 1], puts[k])
      BY <2>1, <2>13, <3>1
    <3> QED BY <2>5, <2>15, <3>2
  <2>16. g[n] \in S
    <3> HIDE DEF Clauses
    <3>1. \A k \in 0 .. n : g[k] \in S
      BY <2>8, <2>14, <2>15, RunsStay
    <3> QED BY <2>8, <3>1
  <2>17. /\ pixels' = Done[Len(puts)].shown /\ drawn' = Done[Len(puts)].drawn
         /\ UNCHANGED <<mode, offset, userPages, fault>>
    BY <1>3, Zenon DEF PutAll, Done, Clauses, start
  <2>18. PICK x, y : x = g[n].shown /\ y = g[n].drawn
    OBVIOUS
  <2>19. pixels' = x /\ drawn' = y
    BY <2>1, <2>13, <2>17, <2>18
  <2>20. x \in [Video(mode) -> Tints] /\ y \in [Cells -> Inks] /\ Fits(x, y)
    BY <2>2, <2>16, <2>18 DEF Frames
  <2>21. offset' \in Nat
    BY <2>17 DEF GraphicsInv
  <2> QED BY <2>17, <2>19, <2>20, <2>21, PictureKeeps
<1> QED BY <1>2, <1>3

\* A program draws over some pixels.
LEMMA ForeignKeeps ==
    ASSUME GraphicsInv, NEW touched \in SUBSET Int, UNCHANGED <<mode, fault>>, offset' \in Nat,
           pixels' = [i \in DOMAIN pixels |-> IF i \in touched THEN Foreign ELSE pixels[i]],
           drawn' = DrawnOver(touched)
    PROVE  GraphicsInv'
<1>1. PICK x, y : x = pixels' /\ y = drawn'
  OBVIOUS
<1>2. x \in [Video(mode) -> Tints]
  BY <1>1 DEF GraphicsInv, Tints
<1>3. y \in [Cells -> Inks]
  BY <1>1 DEF GraphicsInv, DrawnOver, Inks
<1>4. Fits(x, y)
  <2> SUFFICES ASSUME NEW cell \in Cells, NEW p \in GlyphPlaces, y[cell].c # -1
               PROVE  x[PixelAt(cell, p[1], p[2])] = Colour(y[cell], p[1], p[2])
    BY DEF Fits
  <2>1. CellPixels(cell) \cap touched = {} /\ y[cell] = drawn[cell]
    BY <1>1 DEF DrawnOver
  <2>2. PICK i : i = PixelAt(cell, p[1], p[2]) /\ i \in CellPixels(cell)
    BY DEF CellPixels
  <2>3. i \in Video(mode)
    BY <2>2, CellsInVideo DEF GraphicsInv
  <2>4. x[i] = pixels[i]
    BY <1>1, <2>1, <2>2, <2>3 DEF GraphicsInv
  <2>5. pixels[i] = Colour(drawn[cell], p[1], p[2])
    BY <2>1, <2>2 DEF GraphicsInv, Fits
  <2> QED BY <2>1, <2>2, <2>4, <2>5
<1> QED BY <1>1, <1>2, <1>3, <1>4, PictureKeeps

LEMMA BlankDrawn ==
    ASSUME NEW shown
    PROVE  /\ [cell \in Cells |-> [c |-> -1]] \in [Cells -> Inks]
           /\ Fits(shown, [cell \in Cells |-> [c |-> -1]])
BY DEF Inks, Fits

LEMMA GraphicsInitial == GraphicsInit => GraphicsInv
<1> SUFFICES ASSUME GraphicsInit PROVE GraphicsInv
  OBVIOUS
<1>1. mode \in Modes /\ offset \in Nat
  BY DEF GraphicsInit
<1>2. pixels \in [Video(mode) -> Tints]
  BY DEF GraphicsInit, Tints
<1>3. drawn \in [Cells -> Inks] /\ Fits(pixels, drawn)
  <2>1. PICK shown : shown = pixels
    OBVIOUS
  <2> QED BY <2>1, BlankDrawn DEF GraphicsInit
<1>4. fault => Odd
  BY <1>1, AllMapped DEF GraphicsInit
<1> QED BY <1>1, <1>2, <1>3, <1>4 DEF GraphicsInv

LEMMA PutTypes ==
    ASSUME NEW cell \in Cells, NEW c \in Characters
    PROVE  Plain(cell, c) \in Puts /\ Cursor(cell, c) \in Puts
BY DEF Plain, Cursor, Puts, Tints

LEMMA RefreshKeeps ==
    ASSUME GraphicsInv, NEW text \in [Cells -> Characters], RefreshTerminal(text)
    PROVE  GraphicsInv'
<1> DEFINE cellOf(k) == <<(k - 1) % CellColumns, (k - 1) \div CellColumns>>
<1>1. PICK w \in Nat, h \in Nat : w = CellColumns /\ h = CellRows
  BY ModeFacts DEF GraphicsInv
<1>2. PICK n \in Nat : n = CellRows * CellColumns
  <2>1. h * w \in Nat
    BY <1>1
  <2> QED BY <1>1, <2>1
<1>3. ASSUME NEW k \in 1 .. n PROVE cellOf(k) \in Cells
  <2>1. w \in Nat \ {0}
    BY <1>1, <1>2
  <2>2. PICK m \in Nat : m = k - 1 /\ m < h * w
    BY <1>1, <1>2
  <2>3. PICK q \in Nat, r \in Nat : /\ q = m \div w /\ r = m % w
                                   /\ m = q * w + r /\ r < w
    BY <1>1, <2>1, <2>2
  <2>4. ~ (h <= q)
    <3> SUFFICES ASSUME h <= q PROVE FALSE
      OBVIOUS
    <3>1. h * w <= q * w /\ h * w \in Nat /\ q * w \in Nat
      BY <1>1, <2>3, ProductGrows
    <3> QED BY <2>2, <2>3, <3>1
  <2>5. r \in 0 .. w - 1 /\ q \in 0 .. h - 1
    BY <1>1, <2>1, <2>3, <2>4
  <2> QED BY <1>1, <2>2, <2>3, <2>5 DEF Cells
<1>4. PICK puts : puts = [k \in 1 .. n |-> Plain(cellOf(k), text[cellOf(k)])]
  OBVIOUS
<1>5. \A k \in 1 .. n : Plain(cellOf(k), text[cellOf(k)]) \in Puts
  BY <1>3, PutTypes
<1> HIDE DEF cellOf
<1>6. puts \in [1 .. n -> Puts]
  BY <1>4, <1>5
<1>7. puts \in Seq(Puts)
  BY <1>2, <1>6
<1>8. PutAll(puts)
  BY <1>2, <1>4 DEF RefreshTerminal, cellOf
<1> QED BY <1>7, <1>8, PutAllKeeps

LEMMA GraphicsStep == GraphicsInv /\ [GraphicsNext]_graphicsVars => GraphicsInv'
<1> SUFFICES ASSUME GraphicsInv, [GraphicsNext]_graphicsVars PROVE GraphicsInv'
  OBVIOUS
<1>1. ASSUME NEW c \in Characters, NEW cell \in Cells, AddCharacter(c, cell)
      PROVE  GraphicsInv'
  <2>1. PICK puts : puts = <<Plain(cell, c)>>
    OBVIOUS
  <2>2. puts \in Seq(Puts)
    BY <2>1, PutTypes
  <2> QED BY <1>1, <2>1, <2>2, PutAllKeeps DEF AddCharacter
<1>2. ASSUME NEW from \in Cells, NEW to \in Cells, NEW old \in Characters,
             NEW new \in Characters, MoveCursorTo(from, to, old, new)
      PROVE  GraphicsInv'
  <2>1. PICK puts : puts = <<Plain(from, old), Cursor(to, new)>>
    OBVIOUS
  <2>2. puts \in Seq(Puts)
    BY <2>1, PutTypes
  <2> QED BY <1>2, <2>1, <2>2, PutAllKeeps DEF MoveCursorTo
<1>3. ASSUME NEW c \in Characters, NEW d \in Characters,
             RefreshTerminal([cell \in Cells |-> IF cell[1] = cell[2] THEN c ELSE d])
      PROVE  GraphicsInv'
  <2>1. PICK text : text = [cell \in Cells |-> IF cell[1] = cell[2] THEN c ELSE d]
    OBVIOUS
  <2>2. text \in [Cells -> Characters]
    BY <2>1
  <2> QED BY <1>3, <2>1, <2>2, RefreshKeeps
<1>4. CASE Fill(White)
  <2>1. CASE FilledPixels(mode) \subseteq MappedPixels(mode)
    <3>1. PICK x, y : x = pixels' /\ y = drawn'
      OBVIOUS
    <3>2. /\ x = [i \in DOMAIN pixels |-> IF i \in FilledPixels(mode) THEN White ELSE pixels[i]]
          /\ y = [cell \in Cells |-> [c |-> -1]]
          /\ UNCHANGED <<mode, offset, userPages, fault>>
      BY <1>4, <2>1, <3>1 DEF Fill
    <3>3. x \in [Video(mode) -> Tints]
      BY <3>2 DEF GraphicsInv, Tints
    <3>4. y \in [Cells -> Inks] /\ Fits(x, y)
      BY <3>2, BlankDrawn
    <3>5. offset' \in Nat
      BY <3>2 DEF GraphicsInv
    <3> QED BY <3>1, <3>2, <3>3, <3>4, <3>5, PictureKeeps
  <2>2. CASE ~ (FilledPixels(mode) \subseteq MappedPixels(mode))
    <3>1. Odd
      BY <2>2, AllMapped DEF GraphicsInv
    <3> QED BY <1>4, <2>2, <3>1, FaultKeeps DEF Fill
  <2> QED BY <2>1, <2>2
<1>5. ASSUME NEW size \in WriteSizes, FbWrite(size) PROVE GraphicsInv'
  <2>1. PICK available, count, touched :
          /\ available = mode.width * mode.height - offset
          /\ count = IF size < available THEN size ELSE available
          /\ touched = offset .. offset + count - 1
    OBVIOUS
  <2>2. PICK n \in Nat : n = mode.width * mode.height
    BY ModeFacts DEF GraphicsInv
  <2>3. /\ available > 0 /\ available = n - offset /\ offset \in Nat /\ size \in Nat
        /\ mode \in Modes
    BY <1>5, <2>1, <2>2, GraphicsAssumption DEF FbWrite, GraphicsInv
  <2>4. count \in Nat /\ offset + count \in Nat /\ offset + count <= n
    BY <2>1, <2>2, <2>3
  <2>5. touched \subseteq FilledPixels(mode) /\ touched \in SUBSET Int
    BY <2>1, <2>2, <2>3, <2>4 DEF FilledPixels
  <2>6. CASE touched \subseteq MappedPixels(mode)
    <3>1. /\ pixels' = [i \in DOMAIN pixels |-> IF i \in touched THEN Foreign ELSE pixels[i]]
          /\ offset' = offset + count /\ drawn' = DrawnOver(touched)
          /\ UNCHANGED <<mode, userPages, fault>>
      BY <1>5, <2>1, <2>6 DEF FbWrite
    <3>2. offset' \in Nat
      BY <2>4, <3>1
    <3> QED BY <2>5, <3>1, <3>2, ForeignKeeps
  <2>7. CASE ~ (touched \subseteq MappedPixels(mode))
    <3>1. UNCHANGED <<mode, pixels, offset, userPages, drawn>>
      BY <1>5, <2>1, <2>7 DEF FbWrite
    <3>2. Odd
      BY <2>3, <2>5, <2>7, AllMapped
    <3> QED BY <3>1, <3>2, FaultKeeps
  <2> QED BY <2>6, <2>7
<1>6. ASSUME NEW i \in Stores, UserStore(i) PROVE GraphicsInv'
  <2>1. i \in DOMAIN pixels /\ pixels \in [Video(mode) -> Tints]
    BY <1>6 DEF UserStore, GraphicsInv
  <2>2. {i} \in SUBSET Int
    BY <2>1 DEF Video
  <2>3. pixels' = [j \in DOMAIN pixels |-> IF j \in {i} THEN Foreign ELSE pixels[j]]
    BY <1>6, <2>1 DEF UserStore
  <2>4. PICK touched \in SUBSET Int : touched = {i}
    BY <2>2
  <2>5. UNCHANGED <<mode, fault>> /\ offset' \in Nat /\ drawn' = DrawnOver({i})
    BY <1>6 DEF UserStore, GraphicsInv
  <2> QED BY <2>3, <2>4, <2>5, ForeignKeeps
<1>7. CASE UNCHANGED <<mode, pixels, offset, fault, drawn>>
  BY <1>7 DEF GraphicsInv, Fits, Odd, Inks, Cells, CellColumns, CellRows, PixelAt
<1>8. ASSUME NEW size \in MapSizes, FbMmap(size) PROVE GraphicsInv'
  BY <1>7, <1>8 DEF FbMmap
<1>9. CASE FbMunmap
  BY <1>7, <1>9 DEF FbMunmap
<1>10. CASE UNCHANGED graphicsVars
  BY <1>7, <1>10 DEF graphicsVars
<1> QED BY <1>1, <1>2, <1>3, <1>4, <1>5, <1>6, <1>8, <1>9, <1>10 DEF GraphicsNext

\* The monitor shows in every cell what the terminal drew there last, and the kernel
\* draws in mapped memory only, in every mode without padding, of four-byte pixels and
\* of whole pages, with any font and any programs that write to the framebuffer.
THEOREM CellsAreShown == GraphicsSpec => []PixelsShowCells
<1>1. GraphicsInv => PixelsShowCells
  BY DEF GraphicsInv, PixelsShowCells, Fits, Odd, PixelAt
<1> QED BY <1>1, GraphicsInitial, GraphicsStep, PTL DEF GraphicsSpec
=============================================================================
