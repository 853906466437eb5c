-------------------------------- MODULE Tty --------------------------------
(***************************************************************************)
(* Threads, locks and interrupts around the line discipline (ttydev.c,     *)
(* spinlock.c).                                                            *)
(*                                                                         *)
(* There is one processor.  slave_read, master_read and slave_write enable *)
(* interrupts and hold a spinlock over part of their work, so an interrupt *)
(* or the timer may come between any two of their steps.  master_write     *)
(* runs with interrupts disabled: in the keyboard interrupt, or in a write *)
(* system call on the master.  spinlock_lock halts when the lock is taken; *)
(* with interrupts disabled the machine never leaves that halt (hung).     *)
(*                                                                         *)
(* halt() returns on any interrupt, whatever the thread's state, so a      *)
(* thread in TS_WAITIO can run on and look at its buffer again.            *)
(***************************************************************************)
EXTENDS LineDiscipline

CONSTANTS
    SlaveReaders,       \* threads that read the slave
    MasterReaders,      \* threads that read the master
    SlaveWriters,       \* threads that write to the slave
    idle                \* the idle thread

TtyThreads == SlaveReaders \cup MasterReaders \cup SlaveWriters

ASSUME TtyThreadAssumption == idle \notin TtyThreads

VARIABLES
    running,            \* the thread the processor runs
    at,                 \* at[t]: where thread t is
    waiting,            \* the threads in TS_WAITIO with this tty
    asked,              \* asked[t]: the size or the bytes t was called with
    write_lock,         \* holder of buffer_master_write_lock, or idle
    read_lock,          \* holder of buffer_master_read_lock, or idle
    readers_lock,       \* holder of slave_readers_lock, or idle
    slave_readers,      \* the list, in order
    master_reader,      \* the thread master_read noted last, or idle
    hung                \* halted with interrupts disabled

threadVars == <<running, at, waiting, asked, write_lock, read_lock,
                readers_lock, slave_readers, master_reader, hung>>

ThreadInit ==
    /\ running = idle
    /\ at = [t \in TtyThreads |-> "user"]
    /\ waiting = {}
    /\ asked = [t \in TtyThreads |-> <<>>]
    /\ write_lock = idle
    /\ read_lock = idle
    /\ readers_lock = idle
    /\ slave_readers = <<>>
    /\ master_reader = idle
    /\ hung = FALSE

\* Where each lock is held.
HoldsWrite == {"take"}
HoldsReaders == {"list"}
HoldsRead == {"show", "print"}

Goto(t, place) == at' = [at EXCEPT ![t] = place]

\* Faulty variant: test and set are two instructions, and another thread
\* slips in between.
SpinlockLockRacy(lock, t) == lock # t

\* spinlock_lock in a thread with interrupts enabled: it goes on once the
\* exchange finds the lock free, and halts until the next interrupt if not.
SpinlockLock(lock, t) == lock = idle

-----------------------------------------------------------------------------
(* slave_read *)

SlaveReadStart(t, size) ==
    /\ at[t] = "user"
    /\ size > 0
    /\ asked' = [asked EXCEPT ![t] = size]
    /\ Goto(t, "lock")
    /\ UNCHANGED <<ttyVars, running, waiting, write_lock, read_lock,
                   readers_lock, slave_readers, master_reader, hung>>

SlaveReadLock(t) ==
    /\ at[t] = "lock"
    /\ SpinlockLock(write_lock, t)
    /\ write_lock' = t
    /\ Goto(t, "take")
    /\ UNCHANGED <<ttyVars, running, waiting, asked, read_lock, readers_lock,
                   slave_readers, master_reader, hung>>

\* The test of the buffer, the dequeue, the unlock and the return, or the way
\* to the list of readers.
SlaveReadTake(t) ==
    LET n == SlaveGets(asked[t])
    IN  /\ at[t] = "take"
        /\ TakeInput(n)
        /\ write_lock' = idle
        /\ IF n > 0 \/ NeededSize(asked[t]) = 0
           THEN Goto(t, "user") ELSE Goto(t, "enlist")
        /\ UNCHANGED <<running, waiting, asked, read_lock, readers_lock,
                       slave_readers, master_reader, hung>>

SlaveReadEnlist(t) ==
    /\ at[t] = "enlist"
    /\ SpinlockLock(readers_lock, t)
    /\ readers_lock' = t
    /\ Goto(t, "list")
    /\ UNCHANGED <<ttyVars, running, waiting, asked, write_lock, read_lock,
                   slave_readers, master_reader, hung>>

\* list_remove_first_occurrence, list_append and the unlock.
SlaveReadList(t) ==
    /\ at[t] = "list"
    /\ slave_readers' =
          Append(SelectSeq(slave_readers, LAMBDA r : r # t), t)
    /\ readers_lock' = idle
    /\ Goto(t, "sleep")
    /\ UNCHANGED <<ttyVars, running, waiting, asked, write_lock, read_lock,
                   master_reader, hung>>

\* thread_change_state(file->thread, TS_WAITIO, tty); master_read comes here
\* too.
FallAsleep(t) ==
    /\ at[t] = "sleep"
    /\ waiting' = waiting \cup {t}
    /\ Goto(t, "halt")
    /\ UNCHANGED <<ttyVars, running, asked, write_lock, read_lock,
                   readers_lock, slave_readers, master_reader, hung>>

-----------------------------------------------------------------------------
(* master_read *)

MasterReadStart(t, size) ==
    /\ at[t] = "user"
    /\ size > 0
    /\ asked' = [asked EXCEPT ![t] = size]
    /\ Goto(t, "lock")
    /\ UNCHANGED <<ttyVars, running, waiting, write_lock, read_lock,
                   readers_lock, slave_readers, master_reader, hung>>

MasterReadLock(t) ==
    /\ at[t] = "lock"
    /\ SpinlockLock(read_lock, t)
    /\ read_lock' = t
    /\ Goto(t, "show")
    /\ UNCHANGED <<ttyVars, running, waiting, asked, write_lock, readers_lock,
                   slave_readers, master_reader, hung>>

MasterReadTake(t) ==
    /\ at[t] = "show"
    /\ read_lock' = idle
    /\ \/ /\ TakeOutput(asked[t])
          /\ Goto(t, "user")
       \/ /\ buffer_master_read = <<>>
          /\ Goto(t, "note")
          /\ UNCHANGED ttyVars
    /\ UNCHANGED <<running, waiting, asked, write_lock, readers_lock,
                   slave_readers, master_reader, hung>>

MasterReadNote(t) ==
    /\ at[t] = "note"
    /\ master_reader' = t
    /\ Goto(t, "sleep")
    /\ UNCHANGED <<ttyVars, running, waiting, asked, write_lock, read_lock,
                   readers_lock, slave_readers, hung>>

-----------------------------------------------------------------------------
(* slave_write *)

SlaveWriteStart(t, chunk) ==
    /\ at[t] = "user"
    /\ asked' = [asked EXCEPT ![t] = chunk]
    /\ Goto(t, "lock")
    /\ UNCHANGED <<ttyVars, running, waiting, write_lock, read_lock,
                   readers_lock, slave_readers, master_reader, hung>>

SlaveWriteLock(t) ==
    /\ at[t] = "lock"
    /\ SpinlockLock(read_lock, t)
    /\ read_lock' = t
    /\ Goto(t, "print")
    /\ UNCHANGED <<ttyVars, running, waiting, asked, write_lock, readers_lock,
                   slave_readers, master_reader, hung>>

SlaveWritePut(t) ==
    /\ at[t] = "print"
    /\ SlaveWrite(asked[t])
    /\ read_lock' = idle
    /\ Goto(t, IF Printed(asked[t]).written > 0 THEN "wake" ELSE "user")
    /\ UNCHANGED <<running, waiting, asked, write_lock, readers_lock,
                   slave_readers, master_reader, hung>>

\* A reader of the master that sleeps is resumed.
SlaveWriteWake(t) ==
    /\ at[t] = "wake"
    /\ waiting' = waiting \ {master_reader}
    /\ Goto(t, "user")
    /\ UNCHANGED <<ttyVars, running, asked, write_lock, read_lock,
                   readers_lock, slave_readers, master_reader, hung>>

-----------------------------------------------------------------------------
(* master_write, with interrupts disabled *)

\* Faulty variant: the wake-up is forgotten.
WakeNobody == waiting

\* wake_slave_readers: those that sleep after it.
wake_slave_readers == waiting \ Range(slave_readers)

\* The locks the call needs: the first of them that is held hangs the
\* machine, with the changes made up to there.
MasterWriteCall(chunk) ==
    LET w == Typed(chunk)
        wakes == w.written > 0
        echoes == w.echo # <<>>
        slave == IF wakes THEN wake_slave_readers ELSE waiting
        space == Len(buffer_master_read) < TtySize
    IN  \/ /\ write_lock # idle
           /\ hung' = TRUE
           /\ UNCHANGED <<ttyVars, waiting>>
        \/ /\ write_lock = idle
           /\ \/ wakes /\ readers_lock # idle
              \/ echoes /\ read_lock # idle
           /\ hung' = TRUE
           /\ line_buffer' = w.line
           /\ buffer_master_write' = w.input
           /\ raised' = w.raised
           /\ waiting' = IF wakes /\ readers_lock # idle THEN waiting
                         ELSE slave
           /\ UNCHANGED <<term, foreground_process, buffer_master_read>>
        \/ /\ write_lock = idle
           /\ ~(wakes /\ readers_lock # idle)
           /\ ~(echoes /\ read_lock # idle)
           /\ MasterWrite(chunk)
           /\ waiting' = IF echoes /\ space THEN slave \ {master_reader}
                         ELSE slave
           /\ UNCHANGED hung

\* An interrupt ends the halt of the thread it finds.
AfterInterrupt ==
    IF running # idle /\ at[running] = "halt"
    THEN Goto(running, "lock") ELSE UNCHANGED at

\* The keyboard interrupt.  Interrupts are enabled whenever a thread of this
\* module is between two steps.
KeyPressed(chunk) ==
    /\ MasterWriteCall(chunk)
    /\ AfterInterrupt
    /\ UNCHANGED <<running, asked, write_lock, read_lock, readers_lock,
                   slave_readers, master_reader>>

\* The write system call on the master, by the thread that is running.
MasterWriteSyscall(chunk) ==
    /\ running \in MasterReaders
    /\ at[running] = "user"
    /\ MasterWriteCall(chunk)
    /\ UNCHANGED <<running, at, asked, write_lock, read_lock, readers_lock,
                   slave_readers, master_reader>>

\* An interrupt of another device.
OtherInterrupt ==
    /\ running # idle
    /\ at[running] = "halt"
    /\ AfterInterrupt
    /\ UNCHANGED <<ttyVars, running, waiting, asked, write_lock, read_lock,
                   readers_lock, slave_readers, master_reader, hung>>

\* The timer interrupt: schedule() goes on with a thread that does not wait,
\* or with the idle thread when there is none (see Scheduler).
Timer(t) ==
    /\ t \in (IF TtyThreads \subseteq waiting THEN {idle}
              ELSE TtyThreads \ waiting)
    /\ running' = t
    /\ AfterInterrupt
    /\ UNCHANGED <<ttyVars, waiting, asked, write_lock, read_lock,
                   readers_lock, slave_readers, master_reader, hung>>

-----------------------------------------------------------------------------
SlaveReadStep(t) ==
    \/ SlaveReadLock(t) \/ SlaveReadTake(t)
    \/ SlaveReadEnlist(t) \/ SlaveReadList(t) \/ FallAsleep(t)

MasterReadStep(t) ==
    \/ MasterReadLock(t) \/ MasterReadTake(t) \/ MasterReadNote(t)
    \/ FallAsleep(t)

SlaveWriteStep(t) == SlaveWriteLock(t) \/ SlaveWritePut(t) \/ SlaveWriteWake(t)

\* A step of the running thread inside a call.
InCall(t) ==
    /\ running = t
    /\ ~hung
    /\ \/ t \in SlaveReaders /\ SlaveReadStep(t)
       \/ t \in MasterReaders /\ MasterReadStep(t)
       \/ t \in SlaveWriters /\ SlaveWriteStep(t)

\* A system call.
TtyCall(t) ==
    /\ running = t
    /\ ~hung
    /\ \/ t \in SlaveReaders /\ \E size \in ReadSizes : SlaveReadStart(t, size)
       \/ t \in MasterReaders /\ \E size \in ReadSizes : MasterReadStart(t, size)
       \/ t \in SlaveWriters /\ \E chunk \in PrintedChunks :
                                   SlaveWriteStart(t, chunk)

\* The processor is given to t.
Dispatch(t) == ~hung /\ Timer(t)

-----------------------------------------------------------------------------
(* The actions with a note of the readers that slept when input arrived *)

VARIABLE due    \* slave readers that slept, and had yet to look at the buffer
                \* again, when input arrived, until one slave_read returns

ttyAll == <<ttyVars, threadVars, due>>

Returns(r) == at[r] = "take" /\ at'[r] = "user"

\* The note that master_write(chunk) makes.
NoteInput(chunk) ==
    due' = IF Typed(chunk).written > 0
           THEN due \cup {r \in waiting \cap SlaveReaders :
                           at[r] \in {"halt", "lock"}}
           ELSE due

\* The actions with the note taken.
InCallN(t) ==
    /\ InCall(t)
    /\ due' = IF t \in SlaveReaders /\ Returns(t) THEN {} ELSE due
CallN(t) == TtyCall(t) /\ UNCHANGED due
DispatchN(t) == Dispatch(t) /\ UNCHANGED due
KeyN(chunk) == ~hung /\ KeyPressed(chunk) /\ NoteInput(chunk)
MasterWriteN(chunk) == ~hung /\ MasterWriteSyscall(chunk) /\ NoteInput(chunk)
OtherN == ~hung /\ OtherInterrupt /\ UNCHANGED due

TtyThreadsInit == ThreadInit /\ due = {}

TtyThreadsNext ==
    \/ \E t \in TtyThreads : InCallN(t) \/ CallN(t)
    \/ \E t \in TtyThreads \cup {idle} : DispatchN(t)
    \/ \E chunk \in TypedChunks : KeyN(chunk) \/ MasterWriteN(chunk)
    \/ OtherN

TtySpec == TtyInit /\ TtyThreadsInit /\ [][TtyThreadsNext]_ttyAll

\* A thread that can run gets the processor again and again
\* (RunnableGetsProcessor of Scheduler), and a time slice lasts long
\* enough for it to take a step sooner or later.  Nothing makes a user type or
\* a program make a call.
TtyFairness ==
    \A t \in SlaveReaders : SF_ttyAll(InCallN(t)) /\ SF_ttyAll(DispatchN(t))

-----------------------------------------------------------------------------
(* Properties *)

\* Each spinlock is held by exactly the thread that is between its lock and
\* its unlock, however the timer and the interrupts interleave the threads,
\* and by nobody else: no two threads are inside one critical section, and a
\* lock is not left behind by a thread that returns or goes to sleep.
LocksMatchHolders ==
    /\ {t \in TtyThreads : at[t] \in HoldsWrite} = {write_lock} \ {idle}
    /\ {t \in TtyThreads : at[t] \in HoldsReaders} = {readers_lock} \ {idle}
    /\ {t \in TtyThreads : at[t] \in HoldsRead} = {read_lock} \ {idle}

\* Input that arrives while readers sleep in slave_read wakes them and lets
\* a read return, whatever the timer, the other devices and the writers do in
\* between, unless the machine halts on a spinlock with interrupts disabled.
\* (A reader between its test of the buffer and its halt misses this input,
\* and is woken by the next.)
InputWakesReader == due # {} ~> (due = {} \/ hung)
=============================================================================
