---------------------------- MODULE MessageQueue ----------------------------
(***************************************************************************)
(* The message queue of a thread (message.c, the manage_message system     *)
(* call): messages of a fixed size in a byte FIFO that neither its sender  *)
(* nor its receiver checks for room.  The calls run with interrupts        *)
(* disabled and hold the queue's spinlock, so each is one step.            *)
(***************************************************************************)
EXTENDS Integers, Sequences

CONSTANTS
    MessageSize,        \* sizeof(AsteriskMessage)
    QueueLength,        \* MESSAGE_QUEUE_SIZE
    MaxMessages         \* bound on the messages of a behaviour

ASSUME MessageAssumption ==
    /\ MessageSize \in Nat \ {0}
    /\ QueueLength \in Nat \ {0}

VARIABLES
    message_queue,      \* the bytes in the FIFO
    remaining,          \* the count that was last returned, or -1
    messages,           \* how many messages were sent
    accepted,           \* the messages that found any room, in order
    received            \* the bytes message_get_next copied out

msgVars == <<message_queue, remaining, messages, accepted, received>>

\* Faulty variant: one byte of the FIFO stays unused.
QueueBytesShort == MessageSize * QueueLength - 1

\* The size the thread's queue is created with.
QueueBytes == MessageSize * QueueLength

\* Byte i of message m.
Bytes(m) == [i \in 1 .. MessageSize |-> <<m, i>>]

MsgInit ==
    /\ message_queue = <<>>
    /\ remaining = -1
    /\ messages = 0
    /\ accepted = <<>>
    /\ received = <<>>

\* message_send: fifobuffer_enqueue stores what fits.
MessageSend ==
    LET m == messages + 1
        free == QueueBytes - Len(message_queue)
        n == IF free < MessageSize THEN free ELSE MessageSize
    IN  /\ messages < MaxMessages
        /\ messages' = m
        /\ message_queue' = message_queue \o SubSeq(Bytes(m), 1, n)
        /\ accepted' = IF free > 0 THEN Append(accepted, m) ELSE accepted
        /\ UNCHANGED <<remaining, received>>

\* message_get_queue_count
QueueCount == Len(message_queue) \div MessageSize

\* message_get_next: the messages that remain, or -1.
MessageGetNext ==
    IF QueueCount > 0
    THEN /\ received' = received \o SubSeq(message_queue, 1, MessageSize)
         /\ message_queue' =
               SubSeq(message_queue, MessageSize + 1, Len(message_queue))
         /\ remaining' = QueueCount - 1
         /\ UNCHANGED <<messages, accepted>>
    ELSE /\ remaining' = -1
         /\ UNCHANGED <<message_queue, messages, accepted, received>>

\* syscall_manage_message: count, send to oneself, or take the next.
ManageMessage(command) ==
    CASE command = 0 -> /\ remaining' = QueueCount
                        /\ UNCHANGED <<message_queue, messages, accepted, received>>
      [] command = 1 -> MessageSend
      [] command = 2 -> MessageGetNext

MsgNext == \E command \in 0 .. 2 : ManageMessage(command)

MsgSpec == MsgInit /\ [][MsgNext]_msgVars

-----------------------------------------------------------------------------
(* Properties *)

\* A message is delivered whole or not at all, and in order, although the
\* queue holds bytes and drops what does not fit: what the receiver has got
\* and what is queued are the messages that found room, byte by byte.
MessagesWhole ==
    LET bytes == received \o message_queue
    IN  /\ Len(bytes) = MessageSize * Len(accepted)
        /\ \A k \in DOMAIN accepted, i \in 1 .. MessageSize :
              bytes[MessageSize * (k - 1) + i] = <<accepted[k], i>>
=============================================================================
