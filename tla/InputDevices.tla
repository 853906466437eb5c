---------------------------- MODULE InputDevices ----------------------------
(***************************************************************************)
(* The input devices: keyboard.c (a ring of scan codes that every open     *)
(* file reads at its own index), mouse.c (packets of three bytes, a FIFO   *)
(* per open file) and serial.c (one FIFO for all).                         *)
(*                                                                         *)
(* The three read functions share their shape.  The first test of the      *)
(* buffer runs with interrupts disabled; after halt() interrupts stay on,  *)
(* so from the second test on an interrupt may come between the test and   *)
(* TS_WAITIO.  halt() returns on any interrupt.                            *)
(***************************************************************************)
EXTENDS Integers, Sequences, SequencesExt

CONSTANTS
    KeyReaders, MouseReaders, SerialReaders,    \* threads, one file each
    KeyBufferSize,      \* KEYBUFFER_SIZE
    MouseFifoSize,      \* 60 in mouse_open
    SerialFifoSize,     \* 4096 in serial_initialize
    MouseReadSizes,     \* byte counts asked of mouse_read
    Budgets,            \* bounds on the bytes each device delivers
    nobody              \* runs when no reader does

PacketSize == 3

InputReaders == KeyReaders \cup MouseReaders \cup SerialReaders

\* A reader has a file of one device; the FIFO of a mouse holds whole packets.
ASSUME InputAssumption ==
    /\ KeyReaders \cap MouseReaders = {}
    /\ KeyReaders \cap SerialReaders = {}
    /\ MouseReaders \cap SerialReaders = {}
    /\ KeyBufferSize \in Nat \ {0}
    /\ MouseFifoSize \in Nat \ {0}
    /\ MouseFifoSize % PacketSize = 0
    /\ SerialFifoSize \in Nat \ {0}
    /\ Budgets \subseteq [{"key", "mouse", "serial"} -> Nat]

\* What mouse.c asks of its programs: that they read whole packets.
ASSUME WholePacketReads ==
    \A n \in MouseReadSizes : n \in Nat /\ n % PacketSize = 0

VARIABLES
    key_buffer,         \* g_key_buffer
    key_write_index,    \* g_key_buffer_write_index
    key_read_index,     \* per open file: Reader.read_index
    non_blocking,       \* the files with RM_NON_BLOCKING
    mouse_packet,       \* g_mouse_packet[0 .. g_mouse_byte_counter - 1]
    mouse_fifo,         \* per open file
    serial_fifo,        \* g_buffer_com1
    open,               \* readers that have their file open
    place,              \* place[r]: where reader r is
    waitio,             \* threads in TS_WAITIO
    wanted,             \* wanted[r]: size asked for
    on_cpu,             \* the thread that runs
    budget,             \* budget[d]: bytes device d may still deliver
    keys,               \* all scan codes typed so far
    first,              \* first[r]: how many were typed before r opened
    got                 \* got[r]: all that r's reads returned since it opened

inputVars == <<key_buffer, key_write_index, key_read_index, non_blocking,
               mouse_packet, mouse_fifo, serial_fifo, open, place, waitio,
               wanted, on_cpu, budget, keys, first, got>>

bufferVars == <<key_buffer, key_write_index, key_read_index, mouse_packet,
                mouse_fifo, serial_fifo>>
historyVars == <<budget, keys, first, got>>

InputInit ==
    /\ key_buffer = [i \in 0 .. KeyBufferSize - 1 |-> 0]
    /\ key_write_index = 0
    /\ key_read_index = [r \in KeyReaders |-> 0]
    /\ non_blocking = {}
    /\ mouse_packet = <<>>
    /\ mouse_fifo = [r \in MouseReaders |-> <<>>]
    /\ serial_fifo = <<>>
    /\ open = {}
    /\ place = [r \in InputReaders |-> "user"]
    /\ waitio = {}
    /\ wanted = [r \in InputReaders |-> 0]
    /\ on_cpu = nobody
    /\ budget \in Budgets
    /\ keys = <<>>
    /\ first = [r \in InputReaders |-> 0]
    /\ got = [r \in InputReaders |-> <<>>]

\* As much of s as fits.
Enqueued(fifo, s, size) == SubSeq(fifo \o s, 1, Min({size, Len(fifo \o s)}))

\* The read_test_ready functions.
TestReady(r) ==
    \/ r \in KeyReaders /\ key_read_index[r] # key_write_index
    \/ r \in MouseReaders /\ Len(mouse_fifo[r]) >= PacketSize
    \/ r \in SerialReaders /\ serial_fifo # <<>>

-----------------------------------------------------------------------------
(* Files *)

\* Faulty variant: a new file starts at the beginning of the ring.
FirstCell == 0

\* Where a file opened now starts to read the ring: past what was typed.
NewReadIndex == key_write_index

\* keyboard_open, mouse_open, serial_open.
OpenDevice(r, nonblock) ==
    /\ place[r] = "user"
    /\ r \notin open
    /\ open' = open \cup {r}
    /\ key_read_index' = IF r \in KeyReaders
                         THEN [key_read_index EXCEPT ![r] = NewReadIndex]
                         ELSE key_read_index
    /\ non_blocking' = IF r \in KeyReaders /\ nonblock
                       THEN non_blocking \cup {r} ELSE non_blocking \ {r}
    /\ mouse_fifo' = IF r \in MouseReaders
                     THEN [mouse_fifo EXCEPT ![r] = <<>>] ELSE mouse_fifo
    /\ first' = [first EXCEPT ![r] = Len(keys)]
    /\ got' = [got EXCEPT ![r] = <<>>]
    /\ UNCHANGED <<key_buffer, key_write_index, mouse_packet, serial_fifo,
                   place, waitio, wanted, on_cpu, budget, keys>>

\* keyboard_close, mouse_close, serial_close.
CloseDevice(r) ==
    /\ place[r] = "user"
    /\ r \in open
    /\ open' = open \ {r}
    /\ UNCHANGED <<bufferVars, non_blocking, place, waitio, wanted, on_cpu,
                   historyVars>>

\* keyboard_ioctl, request 1.
SetReadMode(r) ==
    /\ place[r] = "user"
    /\ r \in KeyReaders \cap open
    /\ non_blocking' = IF r \in non_blocking THEN non_blocking \ {r}
                       ELSE non_blocking \cup {r}
    /\ UNCHANGED <<bufferVars, open, place, waitio, wanted, on_cpu,
                   historyVars>>

-----------------------------------------------------------------------------
(* keyboard_read, mouse_read, serial_read *)

\* The end of keyboard_read; nothing, if the ring looks empty.
TakeKey(r) ==
    /\ IF TestReady(r)
       THEN /\ got' = [got EXCEPT ![r] = Append(@, key_buffer[key_read_index[r]])]
            /\ key_read_index' = [key_read_index EXCEPT
                                    ![r] = (@ + 1) % KeyBufferSize]
       ELSE UNCHANGED <<got, key_read_index>>
    /\ UNCHANGED <<waitio, mouse_fifo, serial_fifo>>

TakeMouse(r, size) ==
    LET n == Min({size, Len(mouse_fifo[r])})
    IN  /\ got' = [got EXCEPT ![r] = @ \o SubSeq(mouse_fifo[r], 1, n)]
        /\ mouse_fifo' = [mouse_fifo EXCEPT ![r] = SubSeq(@, n + 1, Len(@))]
        /\ UNCHANGED <<waitio, key_read_index, serial_fifo>>

\* serial_read resumes its thread itself: it may have got here by an
\* interrupt that found it halted in TS_WAITIO.
TakeSerial(r, size) ==
    LET n == Min({size, Len(serial_fifo)})
    IN  /\ waitio' = waitio \ {r}
        /\ got' = [got EXCEPT ![r] = @ \o SubSeq(serial_fifo, 1, n)]
        /\ serial_fifo' = SubSeq(serial_fifo, n + 1, Len(serial_fifo))
        /\ UNCHANGED <<key_read_index, mouse_fifo>>

Take(r, size) ==
    /\ \/ r \in KeyReaders /\ TakeKey(r)
       \/ r \in MouseReaders /\ TakeMouse(r, size)
       \/ r \in SerialReaders /\ TakeSerial(r, size)
    /\ place' = [place EXCEPT ![r] = "user"]

\* The call, with interrupts disabled up to the first halt.
ReadDevice(r, size) ==
    /\ place[r] = "user"
    /\ r \in open
    /\ IF TestReady(r) \/ r \in non_blocking
       THEN Take(r, size) /\ UNCHANGED wanted
       ELSE /\ waitio' = waitio \cup {r}
            /\ place' = [place EXCEPT ![r] = "halt"]
            /\ wanted' = [wanted EXCEPT ![r] = size]
            /\ UNCHANGED <<key_read_index, mouse_fifo, serial_fifo, got>>
    /\ UNCHANGED <<key_buffer, key_write_index, mouse_packet, non_blocking,
                   open, on_cpu, budget, keys, first>>

\* The test after a halt, with interrupts enabled.
TestAgain(r) ==
    /\ place[r] = "test"
    /\ place' = [place EXCEPT ![r] = IF TestReady(r) THEN "take" ELSE "sleep"]
    /\ UNCHANGED <<bufferVars, non_blocking, open, waitio, wanted, on_cpu,
                   historyVars>>

SleepAgain(r) ==
    /\ place[r] = "sleep"
    /\ waitio' = waitio \cup {r}
    /\ place' = [place EXCEPT ![r] = "halt"]
    /\ UNCHANGED <<bufferVars, non_blocking, open, wanted, on_cpu, historyVars>>

\* From disable_interrupts on.
FinishRead(r) ==
    /\ place[r] = "take"
    /\ Take(r, wanted[r])
    /\ UNCHANGED <<key_buffer, key_write_index, mouse_packet, non_blocking,
                   open, wanted, on_cpu, budget, keys, first>>

-----------------------------------------------------------------------------
(* Interrupts *)

\* The thread that an interrupt finds halted runs on.
EndHalt ==
    place' = IF on_cpu # nobody /\ place[on_cpu] = "halt"
             THEN [place EXCEPT ![on_cpu] = "test"] ELSE place

Delivers(device) ==
    /\ budget[device] > 0
    /\ budget' = [budget EXCEPT ![device] = @ - 1]

\* handle_keyboard_interrupt; the console's part is in Screen.
KeyInterrupt ==
    /\ Delivers("key")
    /\ keys' = Append(keys, Len(keys) + 1)
    /\ key_buffer' = [key_buffer EXCEPT ![key_write_index] = Len(keys) + 1]
    /\ key_write_index' = (key_write_index + 1) % KeyBufferSize
    /\ waitio' = waitio \ (KeyReaders \cap open)
    /\ EndHalt
    /\ UNCHANGED <<key_read_index, mouse_packet, mouse_fifo, serial_fifo,
                   non_blocking, open, wanted, on_cpu, first, got>>

PacketComplete(packet) == Len(packet) = PacketSize

\* handle_mouse_interrupt: byte i of packet p is <<p, i>> here.
MouseInterrupt ==
    LET i == Len(mouse_packet)
        number == IF i = 0 THEN budget.mouse ELSE mouse_packet[1][1]
        packet == Append(mouse_packet, <<number, i>>)
    IN  /\ Delivers("mouse")
        /\ IF PacketComplete(packet)
           THEN /\ mouse_packet' = <<>>
                /\ mouse_fifo' =
                      [r \in MouseReaders |->
                          IF r \in open
                          THEN Enqueued(mouse_fifo[r], packet, MouseFifoSize)
                          ELSE mouse_fifo[r]]
                /\ waitio' = waitio \ (MouseReaders \cap open)
           ELSE /\ mouse_packet' = packet
                /\ UNCHANGED <<mouse_fifo, waitio>>
        /\ EndHalt
        /\ UNCHANGED <<key_buffer, key_write_index, key_read_index,
                       serial_fifo, non_blocking, open, wanted, on_cpu, keys,
                       first, got>>

\* handle_serial_interrupt; a byte that finds the buffer full is missed.
SerialInterrupt ==
    /\ Delivers("serial")
    /\ serial_fifo' = Enqueued(serial_fifo, <<budget.serial>>, SerialFifoSize)
    /\ waitio' = waitio \ (SerialReaders \cap open)
    /\ EndHalt
    /\ UNCHANGED <<key_buffer, key_write_index, key_read_index, mouse_packet,
                   mouse_fifo, non_blocking, open, wanted, on_cpu, keys,
                   first, got>>

\* The timer gives the processor to a thread that does not wait.
RunReader(r) ==
    /\ r \in (IF InputReaders \subseteq waitio THEN {nobody}
              ELSE InputReaders \ waitio)
    /\ on_cpu' = r
    /\ EndHalt
    /\ UNCHANGED <<bufferVars, non_blocking, open, waitio, wanted, historyVars>>

InputNext ==
    \/ \E r \in InputReaders :
          /\ on_cpu = r
          /\ \/ \E nonblock \in BOOLEAN : OpenDevice(r, nonblock)
             \/ CloseDevice(r) \/ SetReadMode(r)
             \/ \E size \in MouseReadSizes : ReadDevice(r, size)
             \/ TestAgain(r) \/ SleepAgain(r) \/ FinishRead(r)
    \/ KeyInterrupt \/ MouseInterrupt \/ SerialInterrupt
    \/ \E r \in InputReaders \cup {nobody} : RunReader(r)

InputSpec == InputInit /\ [][InputNext]_inputVars

-----------------------------------------------------------------------------
(* Properties *)

\* A file on the keyboard returns every scan code typed since it was opened,
\* once and in order, although the ring has one writer, any number of read
\* indices and no count of unread codes: as long as fewer than
\* KEYBUFFER_SIZE of them are unread, keyboard_read returned a prefix of
\* what was typed and the rest is in the ring.
KeysInOrder ==
    \A r \in KeyReaders \cap open :
        LET since == SubSeq(keys, first[r] + 1, Len(keys))
            unread == Len(since) - Len(got[r])
        IN  unread \in 0 .. KeyBufferSize - 1 =>
              /\ got[r] = SubSeq(since, 1, Len(got[r]))
              /\ \A i \in 1 .. unread :
                    key_buffer[(key_read_index[r] + i - 1) % KeyBufferSize]
                        = since[Len(got[r]) + i]

\* A program that reads the mouse in whole packets gets whole packets: the
\* bytes it is given, and those waiting for it, are packets whose three bytes
\* belong together, also when its FIFO was full and packets were dropped.
PacketsWhole ==
    \A r \in MouseReaders \cap open :
        LET bytes == got[r] \o mouse_fifo[r]
        IN  \A i \in DOMAIN bytes :
                /\ bytes[i][2] = (i - 1) % PacketSize
                /\ i % PacketSize # 1 => bytes[i][1] = bytes[i - 1][1]

\* Bursts of interrupts, several readers and overruns neither reorder nor
\* split what a device's readers get: scan codes of the keyboard, and packets
\* of the mouse.
InputInOrder == KeysInOrder /\ PacketsWhole
=============================================================================
