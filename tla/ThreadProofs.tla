---------------------------- MODULE ThreadProofs ----------------------------
(***************************************************************************)
(* What holds however the timer, interrupts and other threads come between *)
(* the steps of a thread, for any number of threads.                       *)
(***************************************************************************)
EXTENDS Tty, PipeHistory, SelectSleep, Processor, InputDevices, FiniteSetTheorems,
        SequenceTheorems, TLAPS

-----------------------------------------------------------------------------
(* The locks of a terminal *)

LockTypeOK ==
    /\ DOMAIN at = TtyThreads
    /\ write_lock \in TtyThreads \cup {idle}
    /\ readers_lock \in TtyThreads \cup {idle}
    /\ read_lock \in TtyThreads \cup {idle}

\* A thread is where a lock is held just if it is the holder.
HeldBy(lock, places) == \A t \in TtyThreads : at[t] \in places <=> lock = t

LockInv ==
    /\ LockTypeOK
    /\ HeldBy(write_lock, HoldsWrite)
    /\ HeldBy(readers_lock, HoldsReaders)
    /\ HeldBy(read_lock, HoldsRead)

\* A lock that is held just where its holder is inside matches the holders.
LEMMA LockInvMatches == LockInv => LocksMatchHolders
  BY TtyThreadAssumption DEF LockInv, LockTypeOK, HeldBy, LocksMatchHolders

\* A thread moves to another place and changes the locks it holds there.
LEMMA MoveKeepsLocks ==
    ASSUME LockInv, NEW t \in TtyThreads, NEW spot, at' = [at EXCEPT ![t] = spot],
           \/ write_lock' = write_lock /\ (spot \in HoldsWrite <=> write_lock = t)
           \/ write_lock' = t /\ write_lock \in {idle, t} /\ spot \in HoldsWrite
           \/ write_lock' = idle /\ write_lock \in {idle, t} /\ spot \notin HoldsWrite,
           \/ readers_lock' = readers_lock /\ (spot \in HoldsReaders <=> readers_lock = t)
           \/ readers_lock' = t /\ readers_lock \in {idle, t} /\ spot \in HoldsReaders
           \/ readers_lock' = idle /\ readers_lock \in {idle, t} /\ spot \notin HoldsReaders,
           \/ read_lock' = read_lock /\ (spot \in HoldsRead <=> read_lock = t)
           \/ read_lock' = t /\ read_lock \in {idle, t} /\ spot \in HoldsRead
           \/ read_lock' = idle /\ read_lock \in {idle, t} /\ spot \notin HoldsRead
    PROVE  LockInv'
<1>1. \A u \in TtyThreads : at'[u] = IF u = t THEN spot ELSE at[u]
  BY DEF LockInv, LockTypeOK
<1>2. t # idle
  BY TtyThreadAssumption
<1>3. LockTypeOK'
  BY DEF LockInv, LockTypeOK
<1>4. HeldBy(write_lock, HoldsWrite)'
  BY <1>1, <1>2, TtyThreadAssumption DEF LockInv, HeldBy, HoldsWrite
<1>5. HeldBy(readers_lock, HoldsReaders)'
  BY <1>1, <1>2, TtyThreadAssumption DEF LockInv, HeldBy, HoldsReaders
<1>6. HeldBy(read_lock, HoldsRead)'
  BY <1>1, <1>2, TtyThreadAssumption DEF LockInv, HeldBy, HoldsRead
<1> QED
  BY <1>3, <1>4, <1>5, <1>6 DEF LockInv

\* A step of a call: it takes a lock that is free, or gives back the one it holds.
LEMMA StepKeepsLocks ==
    ASSUME LockInv, NEW t \in TtyThreads,
           \/ SlaveReadStep(t) \/ MasterReadStep(t) \/ SlaveWriteStep(t)
    PROVE  LockInv'
<1> USE DEF Goto, SpinlockLock, HoldsWrite, HoldsReaders, HoldsRead
<1>1. /\ write_lock = t <=> at[t] = "take"
      /\ readers_lock = t <=> at[t] = "list"
      /\ read_lock = t <=> at[t] \in {"show", "print"}
  BY DEF LockInv, HeldBy
<1>2. CASE SlaveReadLock(t)
  BY <1>1, <1>2, MoveKeepsLocks DEF SlaveReadLock
<1>3. CASE SlaveReadTake(t)
  <2>1. /\ at[t] = "take" /\ write_lock' = idle
        /\ UNCHANGED <<readers_lock, read_lock>>
        /\ \E spot \in {"user", "enlist"} : at' = [at EXCEPT ![t] = spot]
    BY <1>3 DEF SlaveReadTake
  <2> QED
    BY <1>1, <2>1, MoveKeepsLocks
<1>4. CASE SlaveReadEnlist(t)
  BY <1>1, <1>4, MoveKeepsLocks DEF SlaveReadEnlist
<1>5. CASE SlaveReadList(t)
  BY <1>1, <1>5, MoveKeepsLocks DEF SlaveReadList
<1>6. CASE FallAsleep(t)
  BY <1>1, <1>6, MoveKeepsLocks DEF FallAsleep
<1>7. CASE MasterReadLock(t)
  BY <1>1, <1>7, MoveKeepsLocks DEF MasterReadLock
<1>8. CASE MasterReadTake(t)
  <2>1. /\ at[t] = "show" /\ read_lock' = idle
        /\ UNCHANGED <<readers_lock, write_lock>>
        /\ \E spot \in {"user", "note"} : at' = [at EXCEPT ![t] = spot]
    BY <1>8 DEF MasterReadTake
  <2> QED
    BY <1>1, <2>1, MoveKeepsLocks
<1>9. CASE MasterReadNote(t)
  BY <1>1, <1>9, MoveKeepsLocks DEF MasterReadNote
<1>10. CASE SlaveWriteLock(t)
  BY <1>1, <1>10, MoveKeepsLocks DEF SlaveWriteLock
<1>11. CASE SlaveWritePut(t)
  <2>1. /\ at[t] = "print" /\ read_lock' = idle
        /\ UNCHANGED <<readers_lock, write_lock>>
        /\ \E spot \in {"user", "wake"} : at' = [at EXCEPT ![t] = spot]
    BY <1>11 DEF SlaveWritePut
  <2> QED
    BY <1>1, <2>1, MoveKeepsLocks
<1>12. CASE SlaveWriteWake(t)
  BY <1>1, <1>12, MoveKeepsLocks DEF SlaveWriteWake
<1> QED
  BY <1>2, <1>3, <1>4, <1>5, <1>6, <1>7, <1>8, <1>9, <1>10, <1>11, <1>12
     DEF SlaveReadStep, MasterReadStep, SlaveWriteStep

\* A call begins outside of every lock.
LEMMA CallKeepsLocks ==
    ASSUME LockInv, NEW t \in TtyThreads, TtyCall(t)
    PROVE  LockInv'
<1>1. /\ at[t] = "user" /\ at' = [at EXCEPT ![t] = "lock"]
      /\ UNCHANGED <<write_lock, readers_lock, read_lock>>
  BY DEF TtyCall, SlaveReadStart, MasterReadStart, SlaveWriteStart, Goto
<1> QED
  BY <1>1, MoveKeepsLocks DEF LockInv, HeldBy, HoldsWrite, HoldsReaders, HoldsRead

\* An interrupt ends at most a halt, and threads halt outside of every lock.
LEMMA InterruptKeepsLocks ==
    ASSUME LockInv, UNCHANGED <<write_lock, readers_lock, read_lock>>,
           AfterInterrupt \/ UNCHANGED at
    PROVE  LockInv'
<1>1. CASE UNCHANGED at
  BY <1>1 DEF LockInv, LockTypeOK, HeldBy
<1>2. CASE running # idle /\ at[running] = "halt" /\ Goto(running, "lock")
  <2>1. CASE running \in TtyThreads
    BY <1>2, <2>1, MoveKeepsLocks
       DEF Goto, LockInv, HeldBy, HoldsWrite, HoldsReaders, HoldsRead
  <2>2. CASE running \notin TtyThreads
    <3>1. DOMAIN at' = DOMAIN at /\ \A u \in TtyThreads : at'[u] = at[u]
      BY <1>2, <2>2 DEF Goto, LockInv, LockTypeOK
    <3> QED
      BY <3>1 DEF LockInv, LockTypeOK, HeldBy
  <2> QED
    BY <2>1, <2>2
<1> QED
  BY <1>1, <1>2 DEF AfterInterrupt

\* For any threads that read and write a terminal, and whatever is typed and
\* printed: each lock is held by the thread that is between its lock and its
\* unlock, so no two threads are in one critical section, and no lock is left
\* behind by a thread that returns or sleeps.
THEOREM LocksAreHeld == TtySpec => []LocksMatchHolders
<1>1. TtyInit /\ TtyThreadsInit => LockInv
  BY TtyThreadAssumption
     DEF TtyThreadsInit, ThreadInit, LockInv, LockTypeOK, HeldBy, HoldsWrite, HoldsReaders,
         HoldsRead
<1>2. LockInv /\ [TtyThreadsNext]_ttyAll => LockInv'
  <2> SUFFICES ASSUME LockInv, [TtyThreadsNext]_ttyAll PROVE LockInv'
    OBVIOUS
  <2>1. CASE \E t \in TtyThreads : InCallN(t)
    BY <2>1, StepKeepsLocks DEF InCallN, InCall
  <2>2. CASE \E t \in TtyThreads : CallN(t)
    BY <2>2, CallKeepsLocks DEF CallN
  <2>3. CASE \E t \in TtyThreads \cup {idle} : DispatchN(t)
    BY <2>3, InterruptKeepsLocks DEF DispatchN, Dispatch, Timer
  <2>4. CASE \E chunk \in TypedChunks : KeyN(chunk) \/ MasterWriteN(chunk)
    BY <2>4, InterruptKeepsLocks DEF KeyN, KeyPressed, MasterWriteN, MasterWriteSyscall
  <2>5. CASE OtherN
    BY <2>5, InterruptKeepsLocks DEF OtherN, OtherInterrupt
  <2>6. CASE UNCHANGED ttyAll
    BY <2>6, InterruptKeepsLocks DEF ttyAll, threadVars
  <2> QED
    BY <2>1, <2>2, <2>3, <2>4, <2>5, <2>6 DEF TtyThreadsNext
<1> QED
  BY <1>1, <1>2, LockInvMatches, PTL DEF TtySpec

-----------------------------------------------------------------------------
(* Pipes *)

PipeTypeOK ==
    /\ readers \subseteq Thread /\ writers \subseteq Thread
    /\ DOMAIN state = Thread /\ DOMAIN pc = Thread

\* Nobody has both ends open, and nobody any end of a pipe that does not exist.
EndsApart ==
    /\ readers \cap writers = {}
    /\ ~exists => readers = {} /\ writers = {}

\* A thread inside a call has an end open.
CallHasEnd == \A t \in Thread : pc[t] # "user" => t \in readers \cup writers

\* An end that two threads have open has been noted.
SharedNoted ==
    /\ "read" \in shared \/ \A t, u \in readers : t = u
    /\ "write" \in shared \/ \A t, u \in writers : t = u

\* Threads that wait in the halt of the first pass at an end of their own.
WaitAlone ==
    {t \in Thread : /\ pc[t] = "first" /\ state[t] = "WAITIO"
                    /\ IF t \in readers THEN "read" \notin shared ELSE "write" \notin shared}

EndsInv == PipeTypeOK /\ EndsApart /\ CallHasEnd /\ SharedNoted

PipeInv == EndsInv /\ \A t \in WaitAlone : ~Ready(t)

\* The noted ends only become more.
LEMMA SharedGrows ==
    ASSUME HNext
    PROVE  shared \subseteq shared' /\ SharedNoted'
<1>1. shared' = shared \cup {end \in {"read", "write"} :
                    Several(IF end = "read" THEN readers' ELSE writers')}
  BY DEF HNext
<1>2. Several(readers') => "read" \in shared'
  BY <1>1
<1>3. Several(writers') => "write" \in shared'
  BY <1>1
<1> QED
  BY <1>1, <1>2, <1>3 DEF SharedNoted, Several

\* The structure of the ends.
LEMMA EndsKept ==
    ASSUME EndsInv, HNext
    PROVE  EndsInv'
<1> USE DEF EndsInv, PipeTypeOK, EndsApart, CallHasEnd
<1>1. SharedNoted'
  BY SharedGrows
<1>2. CASE Schedule
  BY <1>1, <1>2 DEF Schedule
<1>3. ASSUME NEW t \in Thread, ManagePipe(t) \/ OpenRead(t) \/ OpenWrite(t)
      PROVE  EndsInv'
  BY <1>1, <1>3 DEF ManagePipe, PipeCreate, PipeDestroy, OpenRead, OpenWrite, At, Woken
<1>4. ASSUME NEW t \in Thread, Close(t)
      PROVE  EndsInv'
  BY <1>1, <1>4 DEF Close, CloseEnd, At, Woken
<1>5. ASSUME NEW t \in Thread, NEW size \in 1 .. Capacity + 1, Call(t, size)
      PROVE  EndsInv'
  BY <1>1, <1>5 DEF Call, Move, GoesTo, Woken, Blocked, At
<1>6. ASSUME NEW t \in Thread, NEW size \in 1 .. Capacity + 1, Transfer(t, size)
      PROVE  EndsInv'
  BY <1>1, <1>6 DEF Transfer, Move, GoesTo, Woken, At
<1>7. ASSUME NEW t \in Thread, Resume(t) \/ BlockAgain(t)
      PROVE  EndsInv'
  BY <1>1, <1>7 DEF Resume, BlockAgain, GoesTo, Blocked, At
<1>8. ASSUME NEW t \in Thread, Test(t)
      PROVE  EndsInv'
  BY <1>1, <1>8 DEF Test, GoesTo, At
<1>9. ASSUME NEW t \in Thread, Signal(t)
      PROVE  EndsInv'
  BY <1>1, <1>9 DEF Signal
<1>10. ASSUME NEW t \in Thread, Destroy(t)
      PROVE  EndsInv'
  BY <1>1, <1>10 DEF Destroy, CloseEnd, GoesTo, Woken
<1> QED
  BY <1>2, <1>3, <1>4, <1>5, <1>6, <1>7, <1>8, <1>9, <1>10 DEF HNext, Next

\* Nobody who waits alone after a step is ready.
LEMMA WaitersStayUnready ==
    ASSUME PipeInv, HNext, NEW t \in WaitAlone'
    PROVE  ~Ready(t)'
<1> USE DEF PipeInv, EndsInv, PipeTypeOK, EndsApart, CallHasEnd, Ready
<1>1. EndsInv' /\ shared \subseteq shared'
  BY EndsKept, SharedGrows
<1>2. /\ t \in Thread /\ pc'[t] = "first" /\ state'[t] = "WAITIO" /\ t \in readers' \cup writers'
      /\ t \in readers' => "read" \notin shared' /\ readers' = {t}
      /\ t \notin readers' => "write" \notin shared' /\ writers' = {t}
  BY <1>1 DEF WaitAlone, SharedNoted
<1>3. ASSUME pc[t] = "first", state[t] = "WAITIO", t \in readers <=> t \in readers'
      PROVE  ~Ready(t)
  BY <1>1, <1>2, <1>3 DEF WaitAlone
<1>4. CASE Schedule
  BY <1>2, <1>3, <1>4 DEF Schedule
<1>5. ASSUME NEW u \in Thread, ManagePipe(u) \/ OpenRead(u) \/ OpenWrite(u)
      PROVE  ~Ready(t)'
  BY <1>1, <1>2, <1>3, <1>5 DEF ManagePipe, PipeCreate, PipeDestroy, OpenRead, OpenWrite, At, Woken
<1>6. ASSUME NEW u \in Thread, Close(u)
      PROVE  ~Ready(t)'
  BY <1>2, <1>3, <1>6 DEF Close, CloseEnd, At, Woken
<1>7. ASSUME NEW u \in Thread, NEW size \in 1 .. Capacity + 1, Call(u, size)
      PROVE  ~Ready(t)'
  BY <1>1, <1>2, <1>3, <1>7 DEF Call, Move, GoesTo, Woken, Blocked, At, Peers
<1>8. ASSUME NEW u \in Thread, NEW size \in 1 .. Capacity + 1, Transfer(u, size)
      PROVE  ~Ready(t)'
  BY <1>1, <1>2, <1>3, <1>8 DEF Transfer, Move, GoesTo, Woken, At
<1>9. ASSUME NEW u \in Thread, Resume(u) \/ BlockAgain(u)
      PROVE  ~Ready(t)'
  BY <1>1, <1>2, <1>3, <1>9 DEF Resume, BlockAgain, GoesTo, Blocked, At, Peers
<1>10. ASSUME NEW u \in Thread, Test(u)
      PROVE  ~Ready(t)'
  BY <1>1, <1>2, <1>3, <1>10 DEF Test, GoesTo, At
<1>11. ASSUME NEW u \in Thread, Signal(u)
      PROVE  ~Ready(t)'
  BY <1>1, <1>2, <1>3, <1>11 DEF Signal
<1>12. ASSUME NEW u \in Thread, Destroy(u)
      PROVE  ~Ready(t)'
  BY <1>1, <1>2, <1>3, <1>12 DEF Destroy, CloseEnd, GoesTo, Woken
<1> QED
  BY <1>4, <1>5, <1>6, <1>7, <1>8, <1>9, <1>10, <1>11, <1>12 DEF HNext, Next

\* pipe.c: a reader or writer that waits alone at its end in the halt of the first pass is
\* not ready: what made it ready has already woken it.
THEOREM WaitersMissNothing == HSpec => []FirstPassMissesNoWakeup
<1>1. HInit => PipeInv
  BY DEF HInit, Init, PipeInv, EndsInv, PipeTypeOK, EndsApart, CallHasEnd, SharedNoted, WaitAlone
<1>2. PipeInv /\ [HNext]_<<vars, shared, interrupted>> => PipeInv'
  <2> SUFFICES ASSUME PipeInv, [HNext]_<<vars, shared, interrupted>> PROVE PipeInv'
    OBVIOUS
  <2>1. CASE HNext
    BY <2>1, EndsKept, WaitersStayUnready DEF PipeInv
  <2>2. CASE UNCHANGED <<vars, shared>>
    BY <2>2 DEF vars, PipeInv, EndsInv, PipeTypeOK, EndsApart, CallHasEnd, SharedNoted,
                WaitAlone, Ready
  <2> QED
    BY <2>1, <2>2
<1>3. PipeInv => FirstPassMissesNoWakeup
  BY DEF PipeInv, WaitAlone, FirstPassMissesNoWakeup
<1> QED
  BY <1>1, <1>2, <1>3, PTL DEF HSpec

-----------------------------------------------------------------------------
(* select, sleep and the clock *)

\* Thread.select.
SelectRecord ==
    [st : {"none", "started", "finished"}, nfds : Int, set : SUBSET Wanted,
     result_set : SUBSET Wanted, result : Int, target_time : Int, since : Int, timeout : Int]

SelTypeOK ==
    /\ ticks \in Nat
    /\ tstate \in [Waiters -> {"RUN", "SLEEP", "SELECT"}]
    /\ select \in [Waiters -> SelectRecord]
    /\ doing \in [Waiters -> {"user", "sleep", "select"}]
    /\ DOMAIN answer = Waiters /\ DOMAIN seen = Waiters

\* Only a thread in select has a select that the scheduler looks at.
SelectIsInCall ==
    \A t \in Waiters : doing[t] # "select" => tstate[t] # "SELECT" /\ select[t].st # "finished"

\* What the passes so far have made of select s is an answer that makes sense now.
\* seenNow is what was ready since the call.
PassesSound(s, now, seenNow) ==
    /\ IsFiniteSet(s.set) /\ s.result_set \subseteq s.set \cap seenNow
    /\ s.result > 0 => s.result <= Cardinality(s.result_set)
    /\ s.result = 0 => s.target_time > 0 /\ s.target_time < now
    /\ s.target_time > 0 => s.timeout # -1 /\ s.target_time = s.since + s.timeout

\* A select that is under way: what is ready has been seen.
SelectsSound ==
    \A t \in Waiters : doing[t] = "select" =>
        PassesSound(select[t], ticks, seen[t]) /\ ready \cap select[t].set \subseteq seen[t]

SelInv == SelTypeOK /\ SelectIsInCall /\ SelectsSound /\ SelectAnswers

\* One evaluation of select_update.
LEMMA UpdateSound ==
    ASSUME NEW s \in SelectRecord, NEW now \in Nat, NEW seenNow,
           PassesSound(s, now, seenNow), ready \cap s.set \subseteq seenNow
    PROVE  /\ SelectUpdate(s, now) \in SelectRecord
           /\ PassesSound(SelectUpdate(s, now), now, seenNow)
           /\ SelectUpdate(s, now).set = s.set
           /\ SelectUpdate(s, now).since = s.since
           /\ SelectUpdate(s, now).timeout = s.timeout
<1> DEFINE found == Found(s)
<1>1. found \subseteq s.set \cap seenNow /\ found \subseteq Wanted
  BY DEF Found, SelectRecord
<1>2. CASE found # {}
  <2> DEFINE all == s.result_set \cup found
             r == [s EXCEPT !.result_set = all, !.result = Cardinality(found), !.st = "finished"]
  <2>1. SelectUpdate(s, now) = r
    BY <1>2 DEF SelectUpdate
  <2>2. IsFiniteSet(all) /\ IsFiniteSet(found)
    BY <1>1, FS_Subset DEF PassesSound
  <2>3. Cardinality(found) \in Nat /\ Cardinality(found) <= Cardinality(all) /\ Cardinality(found) # 0
    BY <1>2, <2>2, FS_Subset, FS_CardinalityType, FS_EmptySet
  <2> HIDE DEF found
  <2>4. /\ r \in SelectRecord /\ r.set = s.set /\ r.since = s.since /\ r.timeout = s.timeout
        /\ r.result = Cardinality(found) /\ r.result_set = all /\ r.target_time = s.target_time
    <3>1. all \in SUBSET Wanted /\ Cardinality(found) \in Int
      BY <1>1, <2>3 DEF SelectRecord
    <3> HIDE DEF all
    <3>2. r \in SelectRecord
      BY <3>1 DEF SelectRecord
    <3>3. /\ r.set = s.set /\ r.since = s.since /\ r.timeout = s.timeout
          /\ r.target_time = s.target_time
      BY DEF SelectRecord
    <3>4. r.result = Cardinality(found) /\ r.result_set = all
      BY DEF SelectRecord
    <3> QED
      BY <3>2, <3>3, <3>4
  <2> HIDE DEF r
  <2> QED
    BY <1>1, <2>1, <2>3, <2>4 DEF PassesSound
<1>3. CASE found = {} /\ s.target_time > 0 /\ now > s.target_time
  <2> DEFINE r == [s EXCEPT !.result = 0, !.st = "finished"]
  <2>1. SelectUpdate(s, now) = r
    BY <1>3 DEF SelectUpdate
  <2>2. /\ r \in SelectRecord /\ r.set = s.set /\ r.since = s.since /\ r.timeout = s.timeout
        /\ r.result = 0 /\ r.result_set = s.result_set /\ r.target_time = s.target_time
    <3>1. r \in SelectRecord
      <4>1. ASSUME NEW n \in Int
            PROVE  [s EXCEPT !.result = n, !.st = "finished"] \in SelectRecord
        BY DEF SelectRecord
      <4>2. PICK zero \in Int : zero = 0
        OBVIOUS
      <4> QED
        BY <4>1, <4>2
    <3>2. /\ r.set = s.set /\ r.since = s.since /\ r.timeout = s.timeout
          /\ r.target_time = s.target_time /\ r.result_set = s.result_set
      BY DEF SelectRecord
    <3>3. r.result = 0
      BY DEF SelectRecord
    <3> QED
      BY <3>1, <3>2, <3>3
  <2> HIDE DEF r
  <2>3. s.target_time \in Int
    BY DEF SelectRecord
  <2> QED
    BY <1>3, <2>1, <2>2, <2>3 DEF PassesSound
<1>4. CASE found = {} /\ ~(s.target_time > 0 /\ now > s.target_time)
  BY <1>4 DEF SelectUpdate
<1> QED
  BY <1>2, <1>3, <1>4

\* Whatever becomes of s, the other threads' selects are left alone.
LEMMA PassKeepsSelects ==
    ASSUME SelInv, NEW t \in Waiters, NEW s0 \in SelectRecord, SelectPass(t, s0),
           PassesSound(s0, ticks, seen[t] \cup (ready \cap s0.set)),
           ticks' = ticks, ready' = ready
    PROVE  SelInv'
<1> DEFINE s == SelectUpdate(s0, ticks)
           now == seen[t] \cup (ready \cap s0.set)
<1> USE DEF SelInv
<1>1. /\ s \in SelectRecord /\ PassesSound(s, ticks, now)
      /\ s.set = s0.set /\ s.since = s0.since /\ s.timeout = s0.timeout
  <2>1. ticks \in Nat /\ ready \cap s0.set \subseteq now
    BY DEF SelTypeOK
  <2> HIDE DEF now
  <2> QED
    BY <2>1, UpdateSound DEF now
<1>2. NoSelect \in SelectRecord /\ NoSelect.st = "none"
  BY DEF NoSelect, SelectRecord
<1>3. CASE /\ s.st = "finished"
           /\ answer' = [answer EXCEPT ![t] =
                  [n |-> s.result, set |-> s.result_set,
                   waited |-> ticks - s.since, timeout |-> s.timeout,
                   seen |-> seen[t] \cup (ready \cap s.set)]]
           /\ select' = [select EXCEPT ![t] = NoSelect]
           /\ tstate' = [tstate EXCEPT ![t] = "RUN"]
           /\ doing' = [doing EXCEPT ![t] = "user"]
           /\ seen' = [seen EXCEPT ![t] = {}]
  <2> HIDE DEF s, NoSelect
  <2>1. SelTypeOK'
    BY <1>2, <1>3 DEF SelTypeOK
  <2>2. SelectIsInCall'
    BY <1>2, <1>3 DEF SelTypeOK, SelectIsInCall
  <2>3. \A u \in Waiters \ {t} : /\ doing'[u] = doing[u] /\ select'[u] = select[u]
                                 /\ seen'[u] = seen[u] /\ answer'[u] = answer[u]
    BY <1>3 DEF SelTypeOK
  <2>4. SelectsSound'
    BY <1>3, <2>3 DEF SelTypeOK, SelectsSound
  <2>5. /\ answer'[t].n = s.result /\ answer'[t].set = s.result_set
        /\ answer'[t].waited = ticks - s.since /\ answer'[t].timeout = s.timeout
        /\ answer'[t].seen = now
    BY <1>1, <1>3 DEF SelTypeOK
  <2>6. /\ s.result \in Int /\ s.target_time \in Int /\ s.since \in Int
        /\ s.timeout \in Int /\ ticks \in Int
    BY <1>1 DEF SelectRecord, SelTypeOK
  <2> HIDE DEF now
  <2>7. /\ answer'[t].n > 0 => /\ answer'[t].n <= Cardinality(answer'[t].set)
                                 /\ answer'[t].set \subseteq answer'[t].seen
        /\ answer'[t].n = 0 => /\ answer'[t].timeout # -1
                               /\ answer'[t].waited >= answer'[t].timeout
    BY <1>1, <2>5, <2>6 DEF PassesSound
  <2>8. SelectAnswers'
    BY <2>3, <2>7 DEF SelectAnswers
  <2> QED
    BY <2>1, <2>2, <2>4, <2>8
<1>4. CASE /\ s.st # "finished"
           /\ select' = [select EXCEPT ![t] = s]
           /\ tstate' = [tstate EXCEPT ![t] = "SELECT"]
           /\ doing' = [doing EXCEPT ![t] = "select"]
           /\ seen' = [seen EXCEPT ![t] = seen[t] \cup (ready \cap s.set)]
           /\ answer' = answer
  <2> HIDE DEF s
  <2>1. SelTypeOK'
    BY <1>1, <1>4 DEF SelTypeOK
  <2>2. SelectIsInCall'
    BY <1>4 DEF SelTypeOK, SelectIsInCall
  <2>3. \A u \in Waiters \ {t} : /\ doing'[u] = doing[u] /\ select'[u] = select[u]
                                 /\ seen'[u] = seen[u]
    BY <1>4 DEF SelTypeOK
  <2>4. select'[t] = s /\ seen'[t] = now
    BY <1>1, <1>4 DEF SelTypeOK
  <2>5. SelectsSound'
    BY <1>1, <2>3, <2>4 DEF SelectsSound
  <2>6. SelectAnswers'
    BY <1>4 DEF SelectAnswers
  <2> QED
    BY <2>1, <2>2, <2>5, <2>6
<1> QED
  BY <1>3, <1>4 DEF SelectPass

\* The call of select: the first pass over the files.
LEMMA CallSound ==
    ASSUME SelInv, NEW t \in Waiters, NEW n \in {fd + 1 : fd \in SelFds},
           NEW set \in SelSets, NEW timeout \in Timeouts, SelectCall(t, n, set, timeout)
    PROVE  SelInv'
<1> DEFINE goal == IF timeout = -1 THEN 0 ELSE ticks + timeout
           s == [st |-> "started", nfds |-> n, set |-> set, result_set |-> {}, result |-> -1,
                 target_time |-> goal, since |-> ticks, timeout |-> timeout]
<1>1. /\ ticks \in Int /\ timeout \in Int /\ goal \in Int /\ n \in Int /\ -1 \in Int
      /\ set \in SUBSET Wanted /\ IsFiniteSet(set) /\ {} \in SUBSET Wanted
  <2>1. \A w \in Wanted : w[2] \in Nat
    BY SelectAssumption DEF Wanted
  <2>2. SelFds \subseteq Nat
    BY <2>1 DEF SelFds
  <2> QED
    BY <2>2, SelectAssumption DEF SelInv, SelTypeOK, Wanted
<1>2. goal > 0 => timeout # -1 /\ goal = ticks + timeout
  OBVIOUS
<1>3. SelectPass(t, s)
  BY DEF SelectCall
<1> HIDE DEF goal
<1>4. s \in SelectRecord
  BY <1>1 DEF SelectRecord
<1>5. /\ s.set = set /\ s.result_set = {} /\ s.result = -1 /\ s.target_time = goal
      /\ s.since = ticks /\ s.timeout = timeout
  OBVIOUS
<1> HIDE DEF s
<1>6. PassesSound(s, ticks, seen[t] \cup (ready \cap s.set))
  BY <1>1, <1>2, <1>5 DEF PassesSound
<1> QED
  BY <1>3, <1>4, <1>6, PassKeepsSelects DEF SelectCall

\* The pass that a woken thread makes in SYSCALL_SELECT.
LEMMA AgainSound ==
    ASSUME SelInv, NEW t \in Waiters, SelectAgain(t)
    PROVE  SelInv'
<1>1. /\ select[t] \in SelectRecord /\ PassesSound(select[t], ticks, seen[t])
      /\ SelectPass(t, select[t]) /\ ready \cap select[t].set \subseteq seen[t]
  BY DEF SelInv, SelTypeOK, SelectsSound, SelectAgain
<1>2. seen[t] \cup (ready \cap select[t].set) = seen[t]
  BY <1>1
<1> QED
  BY <1>1, <1>2, PassKeepsSelects DEF SelectAgain

\* The scheduler's passes; for the others time goes on.
LEMMA TickSound ==
    ASSUME SelInv, NEW looked \in SUBSET Waiters, Tick(looked)
    PROVE  SelInv'
<1> USE DEF SelInv
<1> DEFINE now == ticks + 1
           passes(t) == t \in looked /\ tstate[t] = "SELECT"
<1>1. /\ now \in Nat /\ ticks' = now /\ ticks \in Nat
      /\ UNCHANGED <<ready, doing, answer, seen>>
      /\ \A t \in Waiters : select'[t] = IF passes(t) THEN SelectUpdate(select[t], now) ELSE select[t]
      /\ DOMAIN select' = Waiters
      /\ select' = [t \in Waiters |-> IF passes(t) THEN SelectUpdate(select[t], now) ELSE select[t]]
      /\ tstate' = [t \in Waiters |->
              IF \/ t \in looked /\ tstate[t] = "SLEEP" /\ Wakes(t, now)
                 \/ select'[t].st = "finished"
              THEN "RUN" ELSE tstate[t]]
  BY DEF Tick, SelTypeOK
<1>2. ASSUME NEW t \in Waiters, doing[t] = "select"
      PROVE  PassesSound(select[t], now, seen[t])
  <2>1. PassesSound(select[t], ticks, seen[t]) /\ select[t].target_time \in Int
    BY <1>2 DEF SelectsSound, SelTypeOK, SelectRecord
  <2> QED
    BY <1>1, <2>1 DEF PassesSound
<1>3. ASSUME NEW t \in Waiters
      PROVE  /\ select'[t] \in SelectRecord
             /\ doing[t] = "select" =>
                   PassesSound(select'[t], now, seen[t]) /\ select'[t].set = select[t].set
             /\ doing[t] # "select" => select'[t] = select[t]
  <2>1. select[t] \in SelectRecord /\ (passes(t) => doing[t] = "select")
    BY DEF SelTypeOK, SelectIsInCall
  <2>2. CASE passes(t)
    <3>1. PassesSound(select[t], now, seen[t]) /\ ready \cap select[t].set \subseteq seen[t]
      BY <1>2, <2>1, <2>2 DEF SelectsSound
    <3>2. select'[t] = SelectUpdate(select[t], now)
      BY <1>1, <2>2
    <3> HIDE DEF now
    <3> QED
      BY <1>1, <2>1, <2>2, <3>1, <3>2, UpdateSound
  <2>3. CASE ~passes(t)
    BY <1>1, <1>2, <2>1, <2>3
  <2> QED
    BY <2>2, <2>3
<1> HIDE DEF now, passes
<1>4. SelTypeOK'
  <2>1. select' \in [Waiters -> SelectRecord]
    BY <1>1, <1>3
  <2>2. tstate' \in [Waiters -> {"RUN", "SLEEP", "SELECT"}]
    BY <1>1 DEF SelTypeOK
  <2> QED
    BY <1>1, <2>1, <2>2 DEF SelTypeOK
<1>5. SelectIsInCall'
  BY <1>1, <1>3 DEF SelectIsInCall
<1>6. SelectsSound'
  BY <1>1, <1>3 DEF SelectsSound
<1>7. SelectAnswers'
  BY <1>1 DEF SelectAnswers
<1> QED
  BY <1>4, <1>5, <1>6, <1>7

\* Sleepers, files that change and the clock leave the answers of selects true.
LEMMA OtherStepsSound ==
    ASSUME SelInv,
           \/ \E t \in Waiters : \E ms \in Naps : SleepCall(t, ms)
           \/ \E t \in Waiters : SleepReturns(t)
           \/ \E w \in Wanted : Change(w)
           \/ ClockCall
           \/ UNCHANGED selVars
    PROVE  SelInv'
<1> USE DEF SelInv
<1>1. ASSUME NEW t \in Waiters, NEW ms \in Naps, SleepCall(t, ms)
      PROVE  SelInv'
  <2>1. /\ answer' = [answer EXCEPT ![t] = NoAnswer]
        /\ NoAnswer.n = -1
    BY <1>1 DEF SleepCall, NoAnswer
  <2>2. SelectAnswers'
    BY <2>1 DEF SelTypeOK, SelectAnswers
  <2> QED
    BY <1>1, <2>2 DEF SleepCall, SelTypeOK, SelectIsInCall, SelectsSound
<1>2. ASSUME NEW t \in Waiters, SleepReturns(t)
      PROVE  SelInv'
  BY <1>2 DEF SleepReturns, SelTypeOK, SelectIsInCall, SelectsSound, SelectAnswers
<1>3. ASSUME NEW w \in Wanted, Change(w)
      PROVE  SelInv'
  <2>1. /\ seen' = [t \in Waiters |-> IF doing[t] = "select" /\ w \in select[t].set
                                      THEN seen[t] \cup {w} ELSE seen[t]]
        /\ ready' \subseteq ready \cup {w}
        /\ UNCHANGED <<ticks, tstate, select, doing, answer>>
    BY <1>3 DEF Change
  <2>2. SelectsSound'
    <3> SUFFICES ASSUME NEW t \in Waiters, doing[t] = "select"
                 PROVE  /\ PassesSound(select[t], ticks, seen'[t])
                        /\ ready' \cap select[t].set \subseteq seen'[t]
      BY <2>1 DEF SelectsSound
    <3>1. seen[t] \subseteq seen'[t] /\ (w \in select[t].set => w \in seen'[t])
      BY <2>1
    <3> QED
      BY <2>1, <3>1 DEF SelectsSound, PassesSound
  <2> QED
    BY <2>1, <2>2 DEF SelTypeOK, SelectIsInCall, SelectAnswers
<1>4. CASE ClockCall \/ UNCHANGED selVars
  <2>1. UNCHANGED <<ticks, ready, tstate, select, doing, answer, seen>>
    BY <1>4 DEF ClockCall, ClockGettime, ClockSettime, waitVars, selVars
  <2> QED
    BY <2>1 DEF SelTypeOK, SelectIsInCall, SelectsSound, SelectAnswers
<1> QED
  BY <1>1, <1>2, <1>3, <1>4

\* Time as the sleepers and the clock see it.
SleepTypeOK ==
    /\ target \in [Waiters -> Int]
    /\ nap \in [Waiters -> [from : Nat, ms : Nat, took : Int]]
    /\ date \in Int /\ setting \in [tv_sec : Nat, at : Nat]
    /\ told \in [tv_sec : Int, extra_milli : Int, at : Int]

\* The target fits into the tick count.
Fitting(n) == (n.from % Wrap) + n.ms < Wrap

\* A thread in sleep has its target, and is woken only when the time is over.
SleepersHaveTime ==
    \A t \in Waiters : doing[t] = "sleep" =>
        /\ nap[t].from <= ticks
        /\ target[t] = ((nap[t].from % Wrap) + nap[t].ms) % Wrap
        /\ tstate[t] # "SLEEP" /\ Fitting(nap[t]) => ticks - nap[t].from >= nap[t].ms

\* The date is what it was set to and the ticks since.
DateCounts == date = (setting.tv_sec * TIMER_FREQ) + (ticks - setting.at)

TimeInv == SleepTypeOK /\ SleepersHaveTime /\ DateCounts /\ SleepsLongEnough /\ ClockFollows

\* When the low bits have reached those of the target, the time has passed.
LEMMA LowBitsTell ==
    ASSUME NEW from \in Nat, NEW now \in Nat, from <= now, NEW ms \in Nat,
           (from % Wrap) + ms < Wrap, now % Wrap >= ((from % Wrap) + ms) % Wrap
    PROVE  now - from >= ms
<1> DEFINE a == from \div Wrap
           b == now \div Wrap
           r == from % Wrap
           q == now % Wrap
<1>1. Wrap \in Nat \ {0}
  BY SelectAssumption
<1>2. /\ a \in Nat /\ b \in Nat /\ r \in 0 .. Wrap - 1 /\ q \in 0 .. Wrap - 1
      /\ from = Wrap * a + r /\ now = Wrap * b + q
  BY <1>1
<1>3. q >= r + ms
  <2>1. r + ms \in 0 .. Wrap - 1
    BY <1>1, <1>2
  <2>2. (r + ms) % Wrap = r + ms
    BY <1>1, <2>1
  <2> QED
    BY <2>2
<1> HIDE DEF a, b, r, q
<1>4. CASE b >= a
  <2>1. PICK k \in Nat : b = a + k
    <3>1. b - a \in Nat /\ b = a + (b - a)
      BY <1>2, <1>4
    <3> QED
      BY <3>1
  <2>2. Wrap * (a + k) = Wrap * a + Wrap * k /\ Wrap * a \in Nat /\ Wrap * k \in Nat
    BY <1>1, <1>2
  <2> QED
    BY <1>1, <1>2, <1>3, <2>1, <2>2
<1>5. CASE b < a
  <2>1. PICK k \in Nat : a = (b + 1) + k
    <3>1. a - (b + 1) \in Nat /\ a = (b + 1) + (a - (b + 1))
      BY <1>2, <1>5
    <3> QED
      BY <3>1
  <2>2. Wrap * ((b + 1) + k) = Wrap * (b + 1) + Wrap * k /\ Wrap * k \in Nat
    BY <1>1, <1>2
  <2>3. Wrap * (b + 1) = Wrap * b + Wrap /\ Wrap * b \in Nat
    BY <1>1, <1>2
  <2> QED
    BY <1>1, <1>2, <2>1, <2>2, <2>3
<1> QED
  BY <1>2, <1>4, <1>5

\* select and the return from it leave sleepers and clock alone.
LEMMA SelectKeepsTime ==
    ASSUME SelInv, TimeInv, NEW t \in Waiters,
           \/ \E n \in {fd + 1 : fd \in SelFds}, set \in SelSets, timeout \in Timeouts :
                 SelectCall(t, n, set, timeout)
           \/ SelectAgain(t)
    PROVE  TimeInv'
<1> USE DEF TimeInv
<1>1. /\ doing[t] # "sleep" /\ doing'[t] # "sleep"
      /\ \A u \in Waiters \ {t} : doing'[u] = doing[u] /\ tstate'[u] = tstate[u]
      /\ UNCHANGED <<ticks, target, clockVars>>
      /\ nap' = nap \/ nap' = [nap EXCEPT ![t] = NoNap]
  <2>1. ASSUME NEW s, SelectPass(t, s)
        PROVE  /\ doing' = [doing EXCEPT ![t] = "user"] \/ doing' = [doing EXCEPT ![t] = "select"]
               /\ tstate' = [tstate EXCEPT ![t] = "RUN"] \/ tstate' = [tstate EXCEPT ![t] = "SELECT"]
    BY <2>1 DEF SelectPass
  <2>2. /\ doing[t] # "sleep"
        /\ UNCHANGED <<ticks, target, clockVars>>
        /\ nap' = nap \/ nap' = [nap EXCEPT ![t] = NoNap]
    BY DEF SelectCall, SelectAgain
  <2>3. \E s : SelectPass(t, s)
    BY DEF SelectCall, SelectAgain
  <2> QED
    BY <2>1, <2>2, <2>3 DEF SelInv, SelTypeOK
<1>2. NoNap \in [from : Nat, ms : Nat, took : Int] /\ NoNap.took = -1
  BY DEF NoNap
<1> HIDE DEF NoNap
<1>3. SleepTypeOK'
  BY <1>1, <1>2 DEF SleepTypeOK, clockVars
<1>4. \A u \in Waiters \ {t} : nap'[u] = nap[u]
  BY <1>1 DEF SleepTypeOK
<1>5. nap'[t] = nap[t] \/ nap'[t].took = -1
  BY <1>1, <1>2 DEF SleepTypeOK
<1>6. SleepersHaveTime'
  BY <1>1, <1>4 DEF SleepersHaveTime, Fitting
<1>7. SleepsLongEnough'
  BY <1>4, <1>5 DEF SleepsLongEnough
<1>8. DateCounts' /\ ClockFollows'
  BY <1>1 DEF DateCounts, ClockFollows, clockVars
<1> QED
  BY <1>3, <1>6, <1>7, <1>8

\* The call of sleep and the return from it.
LEMMA SleepKeepsTime ==
    ASSUME SelInv, TimeInv, NEW t \in Waiters,
           SleepReturns(t) \/ \E ms \in Naps : SleepCall(t, ms)
    PROVE  TimeInv'
<1> USE DEF TimeInv
<1>1. DateCounts' /\ ClockFollows'
  BY DEF SleepReturns, SleepCall, DateCounts, ClockFollows, clockVars
<1>2. ticks \in Nat
  BY DEF SelInv, SelTypeOK
<1>3. ASSUME NEW ms \in Naps, SleepCall(t, ms)
      PROVE  TimeInv'
  <2> DEFINE n == [from |-> ticks, ms |-> ms, took |-> -1]
  <2>1. /\ target' = [target EXCEPT ![t] = ((ticks % Wrap) + ms) % Wrap]
        /\ tstate' = [tstate EXCEPT ![t] = "SLEEP"]
        /\ doing' = [doing EXCEPT ![t] = "sleep"]
        /\ nap' = [nap EXCEPT ![t] = n]
        /\ ticks' = ticks /\ UNCHANGED clockVars
    BY <1>3 DEF SleepCall
  <2>2. ms \in Nat /\ Wrap \in Nat \ {0}
    BY SelectAssumption
  <2>3. n \in [from : Nat, ms : Nat, took : Int] /\ n.from = ticks /\ n.ms = ms /\ n.took = -1
    BY <1>2, <2>2
  <2> HIDE DEF n
  <2>4. ((ticks % Wrap) + ms) % Wrap \in Int
    BY <1>2, <2>2
  <2>5. SleepTypeOK'
    BY <2>1, <2>3, <2>4 DEF SleepTypeOK, clockVars
  <2>6. \A u \in Waiters \ {t} : /\ doing'[u] = doing[u] /\ tstate'[u] = tstate[u]
                                 /\ target'[u] = target[u] /\ nap'[u] = nap[u]
    BY <2>1 DEF SleepTypeOK, SelInv, SelTypeOK
  <2>7. /\ tstate'[t] = "SLEEP" /\ nap'[t] = n
        /\ target'[t] = ((ticks % Wrap) + ms) % Wrap
    BY <2>1 DEF SleepTypeOK, SelInv, SelTypeOK
  <2>8. SleepersHaveTime'
    BY <1>2, <2>1, <2>3, <2>6, <2>7 DEF SleepersHaveTime, Fitting
  <2>9. SleepsLongEnough'
    BY <2>3, <2>6, <2>7 DEF SleepsLongEnough
  <2> QED
    BY <1>1, <2>5, <2>8, <2>9
<1>4. CASE SleepReturns(t)
  <2>1. /\ doing[t] = "sleep" /\ tstate[t] # "SLEEP"
        /\ doing' = [doing EXCEPT ![t] = "user"]
        /\ nap' = [nap EXCEPT ![t] = [nap[t] EXCEPT !.took = ticks - nap[t].from]]
        /\ UNCHANGED <<ticks, tstate, target, clockVars>>
    BY <1>4 DEF SleepReturns
  <2>2. nap[t] \in [from : Nat, ms : Nat, took : Int] /\ ticks - nap[t].from \in Int
    BY <1>2 DEF SleepTypeOK
  <2>3. /\ nap' \in [Waiters -> [from : Nat, ms : Nat, took : Int]]
        /\ nap'[t].from = nap[t].from /\ nap'[t].ms = nap[t].ms
        /\ nap'[t].took = ticks - nap[t].from
        /\ \A u \in Waiters \ {t} : nap'[u] = nap[u]
    BY <2>1, <2>2 DEF SleepTypeOK
  <2>4. doing'[t] = "user" /\ \A u \in Waiters \ {t} : doing'[u] = doing[u]
    BY <2>1 DEF SelInv, SelTypeOK
  <2>5. SleepTypeOK'
    BY <2>1, <2>3 DEF SleepTypeOK, clockVars
  <2>6. SleepersHaveTime'
    BY <2>1, <2>3, <2>4 DEF SleepersHaveTime, Fitting
  <2>7. SleepsLongEnough'
    BY <2>1, <2>3 DEF SleepsLongEnough, SleepersHaveTime, Fitting
  <2> QED
    BY <1>1, <2>5, <2>6, <2>7
<1> QED
  BY <1>3, <1>4

\* The timer: a sleeper is woken only when the time is over.
LEMMA TickKeepsTime ==
    ASSUME SelInv, TimeInv, NEW looked \in SUBSET Waiters, Tick(looked)
    PROVE  TimeInv'
<1> USE DEF TimeInv
<1> DEFINE now == ticks + 1
<1>1. /\ ticks \in Nat /\ ticks' = now /\ now \in Nat /\ date' = date + 1
      /\ UNCHANGED <<target, doing, nap, told, setting>>
  BY DEF Tick, SelInv, SelTypeOK
<1>2. SleepTypeOK' /\ SleepsLongEnough' /\ ClockFollows'
  BY <1>1 DEF SleepTypeOK, SleepsLongEnough, ClockFollows
<1>3. DateCounts'
  <2>1. setting.tv_sec * TIMER_FREQ \in Int /\ setting.at \in Int
    BY SelectAssumption DEF SleepTypeOK
  <2> QED
    BY <1>1, <2>1 DEF DateCounts
<1>4. ASSUME NEW t \in Waiters, doing[t] = "sleep", tstate'[t] # "SLEEP"
      PROVE  tstate[t] # "SLEEP" \/ now % Wrap >= target[t]
  <2>1. tstate[t] # "SELECT" /\ select[t].st # "finished"
    BY <1>4 DEF SelInv, SelectIsInCall
  <2> QED
    BY <1>4, <2>1 DEF Tick, Wakes
<1> HIDE DEF now
<1>5. SleepersHaveTime'
  <2> SUFFICES ASSUME NEW t \in Waiters, doing[t] = "sleep"
               PROVE  /\ nap[t].from <= now
                      /\ target[t] = ((nap[t].from % Wrap) + nap[t].ms) % Wrap
                      /\ tstate'[t] # "SLEEP" /\ Fitting(nap[t]) => now - nap[t].from >= nap[t].ms
    BY <1>1 DEF SleepersHaveTime, Fitting
  <2>1. nap[t].from \in Nat /\ nap[t].ms \in Nat /\ nap[t].from <= now
    BY <1>1 DEF SleepTypeOK, SleepersHaveTime, now
  <2>2. target[t] = ((nap[t].from % Wrap) + nap[t].ms) % Wrap
    BY DEF SleepersHaveTime
  <2>3. ASSUME tstate'[t] # "SLEEP", Fitting(nap[t])
        PROVE  now - nap[t].from >= nap[t].ms
    <3>1. CASE tstate[t] # "SLEEP"
      BY <1>1, <2>1, <2>3, <3>1 DEF SleepersHaveTime, now
    <3>2. CASE now % Wrap >= target[t]
      BY <1>1, <2>1, <2>2, <2>3, <3>2, LowBitsTell DEF Fitting
    <3> QED
      BY <1>4, <2>3, <3>1, <3>2
  <2> QED
    BY <2>1, <2>2, <2>3
<1> QED
  BY <1>2, <1>3, <1>5

\* clock_gettime and clock_settime.
LEMMA ClockKeepsTime ==
    ASSUME SelInv, TimeInv, ClockCall
    PROVE  TimeInv'
<1> USE DEF TimeInv
<1>1. /\ ticks \in Nat /\ Wrap \in Nat \ {0} /\ TIMER_FREQ \in Nat \ {0}
      /\ UNCHANGED waitVars
  BY SelectAssumption DEF SelInv, SelTypeOK, ClockCall, ClockGettime, ClockSettime
<1>2. SleepersHaveTime' /\ SleepsLongEnough'
  BY <1>1 DEF waitVars, SleepersHaveTime, SleepsLongEnough, Fitting
<1>3. CASE ClockGettime
  <2> DEFINE milli == date % Wrap
             sec == milli \div TIMER_FREQ
  <2>1. milli \in Nat /\ sec \in Nat
    BY <1>1 DEF SleepTypeOK
  <2>2. /\ told' = [tv_sec |-> sec, at |-> ticks, extra_milli |-> milli - (sec * TIMER_FREQ)]
        /\ date' = date /\ setting' = setting
    BY <1>3 DEF ClockGettime
  <2>3. milli = ((setting.tv_sec * TIMER_FREQ) + (ticks - setting.at)) % Wrap
    BY DEF DateCounts
  <2> HIDE DEF milli, sec
  <2>4. sec * TIMER_FREQ \in Int
    BY <1>1, <2>1
  <2>5. (sec * TIMER_FREQ) + (milli - (sec * TIMER_FREQ)) = milli
    BY <2>1, <2>4
  <2>6. SleepTypeOK'
    BY <1>1, <2>1, <2>2, <2>4 DEF SleepTypeOK, waitVars
  <2>7. ClockFollows'
    BY <2>2, <2>3, <2>5 DEF ClockFollows
  <2>8. DateCounts'
    BY <1>1, <2>2 DEF DateCounts, waitVars
  <2> QED
    BY <1>2, <2>6, <2>7, <2>8
<1>4. ASSUME NEW tv_sec \in Dates, ClockSettime(tv_sec)
      PROVE  TimeInv'
  <2>1. /\ date' = tv_sec * TIMER_FREQ
        /\ setting' = [tv_sec |-> tv_sec, at |-> ticks]
        /\ told' = [told EXCEPT !.at = -1]
    BY <1>4 DEF ClockSettime
  <2>2. tv_sec \in Nat /\ tv_sec * TIMER_FREQ \in Int
    BY <1>1, SelectAssumption
  <2>3. SleepTypeOK'
    BY <1>1, <2>1, <2>2 DEF SleepTypeOK, waitVars
  <2>4. told'.at = -1
    BY <2>1 DEF SleepTypeOK
  <2>5. ClockFollows'
    BY <2>4 DEF ClockFollows
  <2>6. DateCounts'
    <3>1. setting'.tv_sec = tv_sec /\ setting'.at = ticks /\ ticks' = ticks
      BY <1>1, <2>1 DEF waitVars
    <3> QED
      BY <1>1, <2>1, <2>2, <3>1 DEF DateCounts
  <2> QED
    BY <1>2, <2>3, <2>5, <2>6
<1> QED
  BY <1>3, <1>4 DEF ClockCall

\* Before the first call.
LEMMA SelInitInv == SelInit => SelInv /\ TimeInv
<1> SUFFICES ASSUME SelInit PROVE SelInv /\ TimeInv
  OBVIOUS
<1>1. Wrap \in Nat \ {0} /\ TIMER_FREQ \in Nat \ {0} /\ ticks \in Nat
  BY SelectAssumption DEF SelInit
<1>2. NoSelect \in SelectRecord /\ NoSelect.st = "none"
  BY DEF NoSelect, SelectRecord
<1>3. NoNap \in [from : Nat, ms : Nat, took : Int] /\ NoNap.took = -1 /\ NoAnswer.n = -1
  BY DEF NoNap, NoAnswer
<1> HIDE DEF NoSelect, NoNap, NoAnswer
<1>4. SelInv
  BY <1>1, <1>2, <1>3
     DEF SelInit, SelInv, SelTypeOK, SelectIsInCall, SelectsSound, SelectAnswers
<1>5. SleepTypeOK
  BY <1>1, <1>3 DEF SelInit, SleepTypeOK
<1>6. SleepersHaveTime /\ SleepsLongEnough /\ ClockFollows
  BY <1>3 DEF SelInit, SleepersHaveTime, SleepsLongEnough, ClockFollows
<1>7. DateCounts
  <2>1. setting.tv_sec = 0 /\ setting.at = 0 /\ date = ticks
    BY DEF SelInit
  <2> QED
    BY <1>1, <2>1 DEF DateCounts
<1> QED
  BY <1>4, <1>5, <1>6, <1>7 DEF TimeInv

\* Every step keeps both invariants.
LEMMA SelStepInv == SelInv /\ TimeInv /\ [SelNext \/ ClockNext]_selVars => (SelInv /\ TimeInv)'
<1> SUFFICES ASSUME SelInv, TimeInv, [SelNext \/ ClockNext]_selVars
             PROVE  SelInv' /\ TimeInv'
  OBVIOUS
<1>1. CASE \E t \in Waiters :
              \/ \E n \in {fd + 1 : fd \in SelFds}, set \in SelSets, timeout \in Timeouts :
                    SelectCall(t, n, set, timeout)
              \/ SelectAgain(t)
  BY <1>1, CallSound, AgainSound, SelectKeepsTime
<1>2. CASE \E t \in Waiters : SleepReturns(t) \/ \E ms \in Naps : SleepCall(t, ms)
  BY <1>2, OtherStepsSound, SleepKeepsTime
<1>3. CASE \E looked \in SUBSET Waiters : Tick(looked)
  BY <1>3, TickSound, TickKeepsTime
<1>4. CASE ClockCall
  BY <1>4, OtherStepsSound, ClockKeepsTime
<1>5. CASE (\E w \in Wanted : Change(w)) \/ UNCHANGED selVars
  <2>1. UNCHANGED <<ticks, tstate, target, doing, nap, clockVars>>
    BY <1>5 DEF Change, selVars
  <2>2. TimeInv'
    BY <2>1 DEF TimeInv, SleepTypeOK, SleepersHaveTime, Fitting, DateCounts, SleepsLongEnough,
                ClockFollows, clockVars
  <2> QED
    BY <1>5, <2>2, OtherStepsSound
<1> QED
  BY <1>1, <1>2, <1>3, <1>4, <1>5 DEF SelNext, ClockNext

\* select: the answer of a finished call names only files that were ready since the call, and
\* no file only after the time that the caller gave.
THEOREM SelectsAnswer == SelSpec => []SelectAnswers
<1>1. SelInv => SelectAnswers
  BY DEF SelInv
<1> QED
  BY <1>1, SelInitInv, SelStepInv, PTL DEF SelSpec

\* sleep and the clock: no thread sleeps too short a time as long as its target does not wrap,
\* and clock_gettime tells what clock_settime set and the time since.
THEOREM TimeIsKept == SelSpec => []TimeKept
<1>1. TimeInv => TimeKept
  BY DEF TimeInv, TimeKept
<1> QED
  BY <1>1, SelInitInv, SelStepInv, PTL DEF SelSpec

-----------------------------------------------------------------------------
(* The context switch *)

\* A pointer to the kernel stack of t with n frames on it.
StackAt(t, n) == [of |-> t, depth |-> n]

Pointer == [of : AllThreads \cup {nothing}, depth : Nat]
Context == [cs : {KERNEL_CS, USER_CS}, ax : Values, esp : Pointer, if : BOOLEAN]
Frame == [cs : {KERNEL_CS, USER_CS}, ax : Values, esp : Pointer, if : BOOLEAN, vector : Int]

ProcTypeOK ==
    /\ cpu \in Context /\ tss \in Pointer
    /\ stack \in [AllThreads -> Seq(Frame)]
    /\ regs \in [AllThreads -> Context] /\ kstack \in [AllThreads -> Pointer]
    /\ threads \subseteq AllThreads /\ g_current \in threads \cup {nothing}
    /\ own \in [AllThreads -> Values]
    /\ tick \in Int
    /\ contextStart \in [AllThreads -> Int] /\ consumed \in [AllThreads -> Int]
    /\ ran \in [AllThreads -> Int]

\* The vectors of device interrupts.
DeviceVectors == {VectorOf(n) : n \in Lines}

\* The frame that the system call gate, or a protection fault, pushed in user code.
FromUser(f) == f.vector \in {13, 128} /\ f.cs = USER_CS /\ f.esp = NotIn /\ f.if

\* Thread t runs code of its own with the registers c and the stack s: in user mode,
\* in a system call or fault, or as the idle thread.
OwnCode(t, c, s) ==
    \/ t \in UserThreads /\ c.cs = USER_CS /\ c.esp = NotIn
    \/ /\ t \in UserThreads /\ c.cs = KERNEL_CS /\ c.esp = StackAt(t, 1)
       /\ Len(s) >= 1 /\ FromUser(s[1])
    \/ t = IdleThread /\ c.cs = KERNEL_CS /\ c.esp = StackAt(t, 0)

\* The handler of a device interrupts the code of t.
InHandler(t) ==
    /\ cpu.cs = KERNEL_CS /\ ~cpu.if
    /\ cpu.esp.of = t /\ cpu.esp.depth \in 1 .. Len(stack[t])
    /\ TopFrame.vector \in DeviceVectors /\ TopFrame.if
    /\ OwnCode(t, TopFrame, stack[t])

\* The thread whose code the processor runs or interrupts: it may have been destroyed.
Owner == IF g_current = nothing THEN cpu.esp.of ELSE g_current

\* The code of t runs, or a handler that interrupts it.
Runs(t) ==
    /\ \/ OwnCode(t, cpu, stack[t]) /\ (g_current = t => cpu.ax = own[t])
       \/ InHandler(t) /\ (g_current = t => TopFrame.ax = own[t])
    /\ cpu.esp = NotIn => cpu.if
    /\ g_current = nothing =>
          /\ t \in UserThreads \ threads /\ cpu.esp # NotIn
          /\ TopFrame.vector \in DeviceVectors => TopFrame.esp # NotIn

\* What the processor and the thread list hold for threads.
KernelKept ==
    /\ serving = {}
    /\ g_current # nothing => cr3 = g_current
    /\ g_current \in UserThreads => tss = StackAt(g_current, 0)
    /\ \A t \in threads \cap UserThreads : kstack[t] = StackAt(t, 0)

\* A thread that does not run has its registers and its frames saved.
SuspendedKept ==
    \A t \in threads \ {g_current} : regs[t].ax = own[t] /\ OwnCode(t, regs[t], stack[t])

ContextInv ==
    /\ ProcTypeOK /\ KernelKept /\ SuspendedKept
    /\ Owner \in AllThreads /\ Runs(Owner)

\* The descriptors and gates that the proof looks at.
LEMMA Privileges == Privilege(KERNEL_CS) = 0 /\ Privilege(USER_CS) = 3
<1>1. KERNEL_CS \div 8 = 1 /\ USER_CS \div 8 = 3
  BY DEF KERNEL_CS, USER_CS
<1>2. gdt[1] = set_gdt_entry(<<0, 0>>, Flat, 154, 207)
  BY DEF gdt
<1>3. gdt[3] = set_gdt_entry(<<0, 0>>, Flat, 250, 207)
  BY DEF gdt
<1>4. gdt[1].access = 154 /\ gdt[3].access = 250
  BY <1>2, <1>3 DEF set_gdt_entry
<1>5. (154 \div 32) % 4 = 0 /\ (250 \div 32) % 4 = 3
  OBVIOUS
<1> QED
  BY <1>1, <1>4, <1>5 DEF Privilege

\* Every gate of idt_initialize enters the kernel with interrupts disabled.
LEMMA Gates ==
    ASSUME NEW v \in 0 .. 47 \cup {128}
    PROVE  idt[v].stub = v /\ idt[v].sel = KERNEL_CS /\ MasksInterrupts(idt[v])
<1>1. idt[v] = [stub |-> v, sel |-> KERNEL_CS, flags |-> 238]
  <2>1. (142 \div 32) % 4 # 3 /\ 142 + 96 = 238
    OBVIOUS
  <2> QED
    BY <2>1 DEF idt, set_idt_entry
<1>2. 238 % 16 = 14
  OBVIOUS
<1> QED
  BY <1>1, <1>2 DEF MasksInterrupts

\* The vectors of the interrupt lines.
LEMMA DeviceGates ==
    ASSUME NEW line \in Lines
    PROVE  /\ VectorOf(line) \in 33 .. 47 /\ VectorOf(line) \in Int
           /\ VectorOf(line) \in 0 .. 47 \cup {128}
           /\ VectorOf(line) >= 40 <=> line >= 8
  BY ProcessorAssumption DEF VectorOf

\* The end of interrupt leaves no line in service.
LEMMA NothingInService ==
    ASSUME NEW line \in Lines
    PROVE  EndOfInterrupt(InService(line), VectorOf(line)) = {}
<1>1. line \in 1 .. 15 /\ (VectorOf(line) >= 40 <=> line >= 8)
  BY ProcessorAssumption, DeviceGates
<1>2. CASE line < 8
  BY <1>1, <1>2 DEF EndOfInterrupt, InService
<1>3. CASE line >= 8
  BY <1>1, <1>3 DEF EndOfInterrupt, InService
<1> QED
  BY <1>1, <1>2, <1>3

\* Code of a thread is told from handlers by the gate it was entered by, and only
\* code of threads can be interrupted.
LEMMA WhoseCode ==
    ASSUME ContextInv
    PROVE  /\ Innermost \in {-1, 13, 128} \/ cpu.if =>
                 /\ OwnCode(Owner, cpu, stack[Owner])
                 /\ g_current = Owner => cpu.ax = own[Owner]
           /\ Innermost \in DeviceVectors =>
                 InHandler(Owner) /\ (g_current = Owner => TopFrame.ax = own[Owner])
<1> DEFINE t == Owner
<1>1. \A n \in Lines : VectorOf(n) \in 33 .. 47
  BY DeviceGates
<1>2. \A v \in DeviceVectors : v \in 33 .. 47
  BY <1>1 DEF DeviceVectors
<1>3. CASE InHandler(t) /\ (g_current = t => TopFrame.ax = own[t])
  <2>1. ~cpu.if /\ cpu.esp.depth \in 1 .. Len(stack[t]) /\ TopFrame.vector \in 33 .. 47
    BY <1>2, <1>3 DEF InHandler
  <2>2. Len(stack[t]) \in Int
    BY DEF ContextInv, ProcTypeOK
  <2>3. Innermost \in 33 .. 47
    BY <2>1, <2>2 DEF Innermost
  <2> QED
    BY <1>3, <2>1, <2>3
<1>4. CASE OwnCode(t, cpu, stack[t]) /\ (g_current = t => cpu.ax = own[t])
  <2>1. Innermost \in {-1, 13, 128}
    <3>1. CASE cpu.esp = NotIn \/ cpu.esp = StackAt(t, 0)
      BY <3>1 DEF Innermost, NotIn, StackAt
    <3>2. CASE cpu.esp = StackAt(t, 1) /\ FromUser(stack[t][1])
      BY <3>2 DEF Innermost, TopFrame, StackAt, FromUser
    <3> QED
      BY <1>4, <3>1, <3>2 DEF OwnCode
  <2> QED
    BY <1>2, <1>4, <2>1
<1> QED
  BY <1>3, <1>4 DEF ContextInv, Runs

\* Where an interrupt of a thread's code goes on its kernel stack.
LEMMA Entry ==
    ASSUME ContextInv, OwnCode(Owner, cpu, stack[Owner])
    PROVE  \E k \in {0, 1} :
              /\ EntryStack = StackAt(Owner, k) /\ k <= Len(stack[Owner])
              /\ k = 0 <=> cpu.esp.depth = 0
              /\ cpu.cs = KERNEL_CS => cpu.esp = StackAt(Owner, k)
<1> DEFINE t == Owner
<1>0. KERNEL_CS # USER_CS /\ t # nothing /\ t \in AllThreads /\ stack[t] \in Seq(Frame)
  BY ProcessorAssumption DEF KERNEL_CS, USER_CS, ContextInv, ProcTypeOK, AllThreads
<1>1. CASE t \in UserThreads /\ cpu.cs = USER_CS /\ cpu.esp = NotIn
  <2>1. g_current = t /\ tss = StackAt(t, 0)
    BY <1>0, <1>1 DEF ContextInv, Runs, KernelKept, Owner
  <2> QED
    BY <1>0, <1>1, <2>1, Privileges DEF EntryStack, NotIn
<1>2. CASE cpu.cs = KERNEL_CS /\ cpu.esp = StackAt(t, 1) /\ Len(stack[t]) >= 1
  <2>1. EntryStack = StackAt(t, 1) /\ cpu.esp.depth = 1
    BY <1>2, Privileges DEF EntryStack, StackAt
  <2> QED
    BY <1>0, <1>2, <2>1
<1>3. CASE cpu.cs = KERNEL_CS /\ cpu.esp = StackAt(t, 0)
  <2>1. EntryStack = StackAt(t, 0) /\ cpu.esp.depth = 0
    BY <1>3, Privileges DEF EntryStack, StackAt
  <2> QED
    BY <1>0, <1>3, <2>1
<1> QED
  BY <1>1, <1>2, <1>3 DEF OwnCode

\* What is left of a stack, and the frame on top of it.
LEMMA FrontOf ==
    ASSUME NEW s \in Seq(Frame), NEW k \in {0, 1}, k <= Len(s)
    PROVE  /\ SubSeq(s, 1, k) \in Seq(Frame) /\ Len(SubSeq(s, 1, k)) = k
           /\ k = 1 => SubSeq(s, 1, k)[1] = s[1]
<1>1. CASE k = 0
  <2>1. SubSeq(s, 1, 0) = <<>>
    OBVIOUS
  <2> QED
    BY <1>1, <2>1
<1>2. CASE k = 1
  <2>1. Len(s) \in Nat /\ 1 \in 1 .. Len(s) /\ s[1] \in Frame
    BY <1>2
  <2>2. SubSeq(s, 1, 1) \in Seq(Frame) /\ Len(SubSeq(s, 1, 1)) = 1
    BY <1>2, <2>1
  <2>3. SubSeq(s, 1, 1)[1] = s[1]
    BY <1>2, <2>1
  <2> QED
    BY <1>2, <2>2, <2>3
<1> QED
  BY <1>1, <1>2

\* A frame is pushed.
LEMMA TopOf ==
    ASSUME NEW s \in Seq(Frame), NEW k \in {0, 1}, Len(s) = k, NEW f \in Frame
    PROVE  /\ Append(s, f) \in Seq(Frame) /\ Len(Append(s, f)) = k + 1
           /\ Append(s, f)[k + 1] = f
           /\ k = 1 => Append(s, f)[1] = s[1]
  OBVIOUS

\* An interrupt or a system call of a thread's code pushes one frame.
LEMMA Pushed ==
    ASSUME ContextInv, OwnCode(Owner, cpu, stack[Owner]),
           NEW v \in {13, 128} \cup DeviceVectors, Push(FrameOf(v))
    PROVE  /\ stack' \in [AllThreads -> Seq(Frame)]
           /\ \A t \in AllThreads \ {Owner} : stack'[t] = stack[t]
           /\ \E k \in {0, 1} :
                 /\ k = 0 <=> cpu.esp.depth = 0
                 /\ Len(stack'[Owner]) = k + 1 /\ stack'[Owner][k + 1] = FrameOf(v)
                 /\ k = 1 => stack'[Owner][1] = stack[Owner][1]
                 /\ Entered(v) = [cs |-> KERNEL_CS, ax |-> cpu.ax, if |-> FALSE,
                                  esp |-> StackAt(Owner, k + 1)]
           /\ FrameOf(v) = [cs |-> cpu.cs, ax |-> cpu.ax, esp |-> cpu.esp, if |-> cpu.if,
                            vector |-> v]
           /\ FrameOf(v) \in Frame
<1> DEFINE o == Owner
           f == FrameOf(v)
<1>1. /\ stack \in [AllThreads -> Seq(Frame)] /\ cpu \in Context /\ o \in AllThreads
  BY DEF ContextInv, ProcTypeOK
<1>2. v \in 0 .. 47 \cup {128} /\ v \in Int
  BY DeviceGates DEF DeviceVectors
<1>3. idt[v].stub = v /\ idt[v].sel = KERNEL_CS /\ MasksInterrupts(idt[v])
  BY <1>2, Gates
<1>4. f = [cs |-> cpu.cs, ax |-> cpu.ax, esp |-> cpu.esp, if |-> cpu.if, vector |-> v]
  BY <1>3 DEF FrameOf
<1>5. f \in Frame
  BY <1>1, <1>2, <1>4 DEF Context, Frame
<1>6. PICK k \in {0, 1} :
          /\ EntryStack = StackAt(o, k) /\ k <= Len(stack[o])
          /\ k = 0 <=> cpu.esp.depth = 0
  BY Entry
<1>7. EntryStack.of = o /\ EntryStack.depth = k
  BY <1>6 DEF StackAt
<1> DEFINE s == SubSeq(stack[o], 1, k)
<1>8. stack' = [stack EXCEPT ![o] = Append(s, f)]
  BY <1>7 DEF Push
<1>9. s \in Seq(Frame) /\ Len(s) = k /\ (k = 1 => s[1] = stack[o][1])
  BY <1>1, <1>6, FrontOf
<1> HIDE DEF s, f
<1>10. /\ Append(s, f) \in Seq(Frame) /\ Len(Append(s, f)) = k + 1
       /\ Append(s, f)[k + 1] = f
       /\ k = 1 => Append(s, f)[1] = s[1]
  BY <1>5, <1>9, TopOf
<1>11. Entered(v) = [cs |-> KERNEL_CS, ax |-> cpu.ax, if |-> FALSE, esp |-> StackAt(o, k + 1)]
  <2>1. /\ Entered(v) = [cs |-> KERNEL_CS, ax |-> cpu.ax, if |-> cpu.if /\ ~MasksInterrupts(idt[v]),
                         esp |-> [of |-> o, depth |-> k + 1]]
    BY <1>3, <1>7 DEF Entered
  <2>2. (cpu.if /\ ~MasksInterrupts(idt[v])) = FALSE
    BY <1>3
  <2> QED
    BY <2>1, <2>2 DEF StackAt
<1> HIDE DEF o
<1>12. /\ stack' \in [AllThreads -> Seq(Frame)]
       /\ \A t \in AllThreads \ {o} : stack'[t] = stack[t]
       /\ stack'[o] = Append(s, f)
  BY <1>1, <1>8, <1>10
<1> QED
  BY <1>4, <1>5, <1>6, <1>9, <1>10, <1>11, <1>12 DEF f, o

\* A step of the thread that runs, or of a handler that interrupts it.
LEMMA OwnerSteps ==
    ASSUME ContextInv, ProcTypeOK', serving' = {}, Owner' = Owner,
           UNCHANGED <<tss, cr3, regs, kstack, threads, g_current>>,
           \A t \in AllThreads \ {Owner} : stack'[t] = stack[t] /\ own'[t] = own[t],
           \A t \in AllThreads : t = Owner => Runs(t)'
    PROVE  ContextInv'
<1>1. Owner' \in AllThreads /\ Runs(Owner)'
  <2>1. PICK o \in AllThreads : o = Owner
    BY DEF ContextInv
  <2>2. Runs(o)'
    BY <2>1
  <2> QED
    BY <2>1, <2>2
<1>2. KernelKept'
  BY DEF ContextInv, KernelKept
<1>3. SuspendedKept'
  <2> SUFFICES ASSUME NEW t \in threads \ {g_current}
               PROVE  regs[t].ax = own'[t] /\ OwnCode(t, regs[t], stack'[t])
    BY DEF SuspendedKept
  <2>1. t \in AllThreads \ {Owner}
    BY DEF ContextInv, ProcTypeOK, Runs, Owner
  <2> QED
    BY <2>1 DEF ContextInv, SuspendedKept
<1> QED
  BY <1>1, <1>2, <1>3 DEF ContextInv

\* What the rest of the registers hold does not matter to OwnCode.
LEMMA SameCode ==
    ASSUME NEW t, NEW c, NEW d, NEW s, d.cs = c.cs, d.esp = c.esp, OwnCode(t, c, s)
    PROVE  OwnCode(t, d, s)
  BY DEF OwnCode

\* Steps that stay where they are.
LEMMA PlainSteps ==
    ASSUME ContextInv,
           \/ \E v \in Values : Compute(v)
           \/ HaltInCall \/ BootEnds \/ EndItself(128)
    PROVE  ContextInv'
<1>0. /\ cpu \in Context /\ own \in [AllThreads -> Values] /\ 0 \in Values
      /\ g_current \in threads \cup {nothing} /\ threads \subseteq AllThreads
      /\ nothing \notin AllThreads
  BY ProcessorAssumption DEF ContextInv, ProcTypeOK, AllThreads
<1>1. /\ g_current # nothing /\ Innermost \in {-1, 128} /\ stack' = stack
      /\ UNCHANGED <<tss, cr3, serving, regs, kstack, threads, g_current, tick, contextStart,
                     consumed, ran>>
  <2>1. ASSUME EndItself(128)
        PROVE  /\ g_current # nothing /\ Innermost \in {-1, 128} /\ stack' = stack
               /\ UNCHANGED <<tss, cr3, serving, regs, kstack, threads, g_current, tick,
                              contextStart, consumed, ran>>
    BY <1>0, <2>1 DEF EndItself, unchangedTime, AllThreads
  <2>2. IdleThread # nothing
    BY ProcessorAssumption
  <2> QED
    BY <2>1, <2>2 DEF Compute, HaltInCall, BootEnds, unchangedThreads, unchangedTime
<1> DEFINE stays ==
               /\ cpu' \in Context /\ cpu'.cs = cpu.cs /\ cpu'.esp = cpu.esp
               /\ own' \in [AllThreads -> Values] /\ (cpu.esp = NotIn => cpu'.if)
               /\ \A t \in AllThreads \ {g_current} : own'[t] = own[t]
               /\ cpu.ax = own[g_current] => cpu'.ax = own'[g_current]
<1>2. stays
  <2>1. cpu.esp = NotIn => cpu.if
    BY DEF ContextInv, Runs
  <2>2. ASSUME NEW v \in Values, Compute(v)
        PROVE  stays
    BY <1>0, <1>1, <2>1, <2>2 DEF Compute, Context
  <2>3. CASE HaltInCall \/ BootEnds \/ EndItself(128)
    <3>1. cpu' = [cpu EXCEPT !.if = TRUE] /\ own' = own
      BY <2>3 DEF HaltInCall, BootEnds, EndItself
    <3> QED
      BY <1>0, <3>1 DEF Context
  <2> QED
    BY <2>2, <2>3
<1>3. Owner = g_current /\ Owner' = g_current /\ g_current \in AllThreads
  BY <1>0, <1>1 DEF Owner
<1>4. OwnCode(g_current, cpu, stack[g_current]) /\ cpu.ax = own[g_current]
  BY <1>1, <1>3, WhoseCode
<1>5. OwnCode(g_current, cpu', stack[g_current]) /\ cpu'.ax = own'[g_current]
  BY <1>2, <1>4, SameCode
<1>6. ProcTypeOK'
  BY <1>1, <1>2 DEF ContextInv, ProcTypeOK
<1>7. \A t \in AllThreads : t = Owner => Runs(t)'
  BY <1>1, <1>2, <1>3, <1>5 DEF Runs
<1>8. serving' = {}
  BY <1>1 DEF ContextInv, KernelKept
<1> QED
  BY <1>1, <1>2, <1>3, <1>6, <1>7, <1>8, OwnerSteps

\* The gates from user code: the system call, and a fault that ends the process.
LEMMA GateSteps ==
    ASSUME ContextInv, Syscall \/ EndItself(13)
    PROVE  ContextInv'
<1> DEFINE o == Owner
<1> PICK v \in {13, 128} :
          /\ cpu.esp = NotIn /\ Push(FrameOf(v))
          /\ cpu' \in {Entered(v), [Entered(v) EXCEPT !.if = TRUE]}
          /\ UNCHANGED <<tss, cr3, serving, regs, kstack, threads, g_current, tick, contextStart,
                         consumed, ran, own>>
  BY DEF Syscall, EndItself, unchangedThreads, unchangedTime
<1>1. /\ cpu \in Context /\ KERNEL_CS # USER_CS /\ nothing \notin AllThreads
      /\ g_current \in threads \cup {nothing} /\ threads \subseteq AllThreads /\ o \in AllThreads
  BY ProcessorAssumption DEF ContextInv, ProcTypeOK, AllThreads, KERNEL_CS, USER_CS
<1>2. cpu.if /\ g_current # nothing /\ cpu.esp.depth = 0
  BY DEF ContextInv, Runs, NotIn
<1>3. OwnCode(o, cpu, stack[o]) /\ cpu.ax = own[o] /\ o = g_current
  BY <1>2, WhoseCode DEF Owner
<1>4. o \in UserThreads /\ cpu.cs = USER_CS
  BY <1>1, <1>3 DEF OwnCode, NotIn, StackAt
<1>5. /\ stack' \in [AllThreads -> Seq(Frame)]
      /\ \A t \in AllThreads \ {o} : stack'[t] = stack[t]
      /\ Len(stack'[o]) = 1 /\ stack'[o][1] = FrameOf(v)
      /\ Entered(v) = [cs |-> KERNEL_CS, ax |-> cpu.ax, if |-> FALSE, esp |-> StackAt(o, 1)]
      /\ FrameOf(v) = [cs |-> cpu.cs, ax |-> cpu.ax, esp |-> cpu.esp, if |-> cpu.if, vector |-> v]
  BY <1>2, <1>3, Pushed
<1> HIDE DEF o
<1>6. /\ cpu'.cs = KERNEL_CS /\ cpu'.ax = cpu.ax /\ cpu'.esp = StackAt(o, 1)
      /\ cpu' \in Context
  <2>1. StackAt(o, 1) \in Pointer
    BY <1>1 DEF StackAt, Pointer
  <2>2. cpu.ax \in Values
    BY <1>1 DEF Context
  <2>3. Entered(v) \in Context
    BY <1>5, <2>1, <2>2 DEF Context
  <2>4. PICK e \in Context : e = Entered(v)
    BY <2>3
  <2>5. cpu' \in Context /\ cpu'.cs = e.cs /\ cpu'.ax = e.ax /\ cpu'.esp = e.esp
    <3>1. cpu' \in {e, [e EXCEPT !.if = TRUE]}
      BY <2>4
    <3>2. CASE cpu' = e
      BY <3>2
    <3>3. CASE cpu' = [e EXCEPT !.if = TRUE]
      BY <3>3 DEF Context
    <3> QED
      BY <3>1, <3>2, <3>3
  <2>6. e.cs = KERNEL_CS /\ e.ax = cpu.ax /\ e.esp = StackAt(o, 1)
    BY <1>5, <2>4
  <2> QED
    BY <2>5, <2>6
<1>7. FromUser(stack'[o][1])
  BY <1>2, <1>4, <1>5 DEF FromUser
<1>8. OwnCode(o, cpu', stack'[o])
  BY <1>4, <1>5, <1>6, <1>7 DEF OwnCode
<1>9. cpu'.esp # NotIn
  BY <1>1, <1>6 DEF StackAt, NotIn
<1>10. Owner = o /\ Owner' = o
  BY <1>2, <1>3 DEF Owner
<1>11. \A t \in AllThreads : t = Owner => Runs(t)'
  BY <1>2, <1>3, <1>6, <1>8, <1>9, <1>10 DEF Runs
<1>12. ProcTypeOK'
  BY <1>5, <1>6 DEF ContextInv, ProcTypeOK
<1>13. serving' = {}
  BY DEF ContextInv, KernelKept
<1> QED
  BY <1>5, <1>10, <1>11, <1>12, <1>13, OwnerSteps

\* The return from a system call.
LEMMA ReturnStep ==
    ASSUME ContextInv, NEW v \in Values, SyscallReturn(v)
    PROVE  ContextInv'
<1> DEFINE o == Owner
<1>1. /\ cpu \in Context /\ stack \in [AllThreads -> Seq(Frame)] /\ own \in [AllThreads -> Values]
      /\ o \in AllThreads /\ KERNEL_CS # USER_CS
  BY DEF ContextInv, ProcTypeOK, KERNEL_CS, USER_CS
<1>2. /\ g_current # nothing /\ Innermost = 128 /\ cpu' = Returned([TopFrame EXCEPT !.ax = v])
      /\ own' = [own EXCEPT ![g_current] = v]
      /\ UNCHANGED <<stack, tss, cr3, serving, regs, kstack, threads, g_current, tick,
                     contextStart, consumed, ran>>
  BY DEF SyscallReturn, unchangedThreads, unchangedTime
<1>3. OwnCode(o, cpu, stack[o]) /\ Owner = g_current /\ Owner' = Owner
  BY <1>2, WhoseCode DEF Owner
<1> HIDE DEF o
<1>4. cpu.esp.depth # 0 /\ TopFrame.vector = 128
  BY <1>2 DEF Innermost
<1>5. o \in UserThreads /\ cpu.esp = StackAt(o, 1) /\ Len(stack[o]) >= 1 /\ FromUser(stack[o][1])
  BY <1>3, <1>4 DEF OwnCode, StackAt, NotIn
<1>6. TopFrame = stack[o][1]
  BY <1>5 DEF TopFrame, StackAt
<1>7. TopFrame \in Frame /\ TopFrame.cs = USER_CS /\ TopFrame.esp = NotIn /\ TopFrame.if
  <2>1. 1 \in 1 .. Len(stack[o])
    BY <1>1, <1>5
  <2> QED
    BY <1>1, <1>5, <1>6, <2>1 DEF FromUser
<1>8. cpu' = [cs |-> TopFrame.cs, ax |-> v, esp |-> TopFrame.esp, if |-> TopFrame.if]
  BY <1>2, <1>7 DEF Returned, Frame
<1>9. cpu' \in Context /\ cpu'.cs = USER_CS /\ cpu'.ax = v /\ cpu'.esp = NotIn /\ cpu'.if
  BY <1>7, <1>8 DEF Context, Frame
<1>10. OwnCode(o, cpu', stack[o])
  BY <1>5, <1>9 DEF OwnCode
<1>11. /\ own' \in [AllThreads -> Values] /\ own'[o] = v
       /\ \A t \in AllThreads \ {Owner} : own'[t] = own[t]
  BY <1>1, <1>2, <1>3 DEF o
<1>12. \A t \in AllThreads : t = Owner => Runs(t)'
  BY <1>2, <1>9, <1>10, <1>11 DEF Runs, o
<1>13. ProcTypeOK'
  BY <1>2, <1>9, <1>11 DEF ContextInv, ProcTypeOK
<1>14. serving' = {}
  BY <1>2 DEF ContextInv, KernelKept
<1> QED
  BY <1>2, <1>3, <1>11, <1>12, <1>13, <1>14, OwnerSteps

\* A device interrupt.
LEMMA IrqStep ==
    ASSUME ContextInv, NEW line \in Lines, Irq(line)
    PROVE  ContextInv'
<1> DEFINE o == Owner
           v == VectorOf(line)
           f == FrameOf(v)
<1>1. /\ cpu \in Context /\ o \in AllThreads /\ nothing \notin AllThreads /\ 0 \in Values
      /\ KERNEL_CS # USER_CS /\ v \in DeviceVectors
  BY ProcessorAssumption
     DEF ContextInv, ProcTypeOK, AllThreads, KERNEL_CS, USER_CS, DeviceVectors
<1>2. /\ cpu.if /\ Push(f) /\ cpu' = [Entered(v) EXCEPT !.ax = 0]
      /\ serving' = EndOfInterrupt(serving \cup InService(line), idt[v].stub)
      /\ UNCHANGED <<tss, cr3, regs, kstack, threads, g_current, tick, contextStart, consumed,
                     ran, own>>
  BY DEF Irq, Accepts, unchangedThreads, unchangedTime
<1>3. /\ OwnCode(o, cpu, stack[o]) /\ (g_current = o => cpu.ax = own[o])
  BY <1>2, WhoseCode
<1>4. PICK k \in {0, 1} :
          /\ k = 0 <=> cpu.esp.depth = 0
          /\ Len(stack'[o]) = k + 1 /\ stack'[o][k + 1] = f
          /\ k = 1 => stack'[o][1] = stack[o][1]
          /\ Entered(v) = [cs |-> KERNEL_CS, ax |-> cpu.ax, if |-> FALSE,
                           esp |-> StackAt(o, k + 1)]
  BY <1>1, <1>2, <1>3, Pushed
<1>5. /\ stack' \in [AllThreads -> Seq(Frame)]
      /\ \A t \in AllThreads \ {o} : stack'[t] = stack[t]
      /\ f = [cs |-> cpu.cs, ax |-> cpu.ax, esp |-> cpu.esp, if |-> cpu.if, vector |-> v]
  BY <1>1, <1>2, <1>3, Pushed
<1>6. serving' = {}
  <2>1. serving = {} /\ idt[v].stub = v
    BY DeviceGates, Gates DEF ContextInv, KernelKept
  <2> QED
    BY <1>2, <2>1, NothingInService
<1> HIDE DEF o, v, f
<1>7. StackAt(o, k + 1) \in Pointer /\ StackAt(o, k + 1) # NotIn /\ cpu.ax \in Values
  BY <1>1 DEF StackAt, Pointer, NotIn, Context
<1>8. /\ cpu' \in Context /\ cpu'.cs = KERNEL_CS /\ ~cpu'.if /\ cpu'.esp = StackAt(o, k + 1)
      /\ cpu'.esp.of = o /\ cpu'.esp.depth = k + 1 /\ cpu'.esp # NotIn
  <2>1. PICK e \in Context :
            /\ e = Entered(v) /\ e.cs = KERNEL_CS /\ e.if = FALSE /\ e.esp = StackAt(o, k + 1)
    <3>1. Entered(v) \in Context
      BY <1>4, <1>7 DEF Context
    <3>2. /\ Entered(v).cs = KERNEL_CS /\ Entered(v).if = FALSE
          /\ Entered(v).esp = StackAt(o, k + 1)
      BY <1>4
    <3> QED
      BY <3>1, <3>2
  <2>2. cpu' = [e EXCEPT !.ax = 0]
    BY <1>2, <2>1
  <2>3. cpu' \in Context /\ cpu'.cs = e.cs /\ cpu'.if = e.if /\ cpu'.esp = e.esp
    BY <1>1, <2>2 DEF Context
  <2> QED
    BY <1>7, <2>1, <2>3 DEF StackAt
<1>9. TopFrame' = f
  BY <1>4, <1>8 DEF TopFrame
<1>10. OwnCode(o, f, stack'[o])
  <2>1. f.cs = cpu.cs /\ f.esp = cpu.esp
    BY <1>5
  <2>2. OwnCode(o, cpu, stack'[o])
    <3>1. CASE cpu.cs = KERNEL_CS /\ cpu.esp = StackAt(o, 1) /\ FromUser(stack[o][1])
      <4>1. k = 1
        BY <1>4, <3>1 DEF StackAt
      <4> QED
        BY <1>3, <1>4, <3>1, <4>1 DEF OwnCode
    <3> QED
      BY <1>3, <3>1 DEF OwnCode
  <2> QED
    BY <2>1, <2>2, SameCode
<1>11. /\ f.vector \in DeviceVectors /\ f.if /\ f.ax = cpu.ax /\ f.esp = cpu.esp
  BY <1>1, <1>2, <1>5
<1>12. /\ cpu'.cs = KERNEL_CS /\ ~cpu'.if /\ cpu'.esp.of = o
       /\ cpu'.esp.depth \in 1 .. Len(stack'[o])
       /\ TopFrame'.vector \in DeviceVectors /\ TopFrame'.if /\ TopFrame'.ax = cpu.ax
       /\ OwnCode(o, TopFrame', stack'[o]) /\ TopFrame'.esp = cpu.esp
  BY <1>4, <1>8, <1>9, <1>10, <1>11
<1>13. Owner' = Owner /\ Owner = o
  BY <1>2, <1>8 DEF Owner, o
<1>14. g_current = nothing =>
           o \in UserThreads \ threads /\ cpu.esp # NotIn
  BY DEF ContextInv, Runs, o
<1>15. \A t \in AllThreads : t = Owner => Runs(t)'
  BY <1>2, <1>3, <1>8, <1>12, <1>13, <1>14 DEF Runs, InHandler
<1>16. ProcTypeOK'
  BY <1>2, <1>5, <1>8 DEF ContextInv, ProcTypeOK
<1> QED
  BY <1>2, <1>5, <1>6, <1>13, <1>15, <1>16, OwnerSteps

\* The end of the handler.
LEMMA IrqReturnStep ==
    ASSUME ContextInv, IrqReturn
    PROVE  ContextInv'
<1> DEFINE o == Owner
<1>1. /\ cpu \in Context /\ o \in AllThreads /\ stack \in [AllThreads -> Seq(Frame)]
      /\ KERNEL_CS # USER_CS /\ nothing \notin AllThreads
  BY ProcessorAssumption DEF ContextInv, ProcTypeOK, AllThreads, KERNEL_CS, USER_CS
<1>2. /\ Innermost \in DeviceVectors /\ cpu' = Returned(TopFrame)
      /\ UNCHANGED <<stack, tss, cr3, serving, regs, kstack, threads, g_current, tick,
                     contextStart, consumed, ran, own>>
  BY DEF IrqReturn, DeviceVectors, unchangedThreads, unchangedTime
<1>3. InHandler(o) /\ (g_current = o => TopFrame.ax = own[o])
  BY <1>2, WhoseCode
<1> HIDE DEF o
<1>4. TopFrame \in Frame
  <2>1. TopFrame = stack[o][cpu.esp.depth] /\ cpu.esp.depth \in 1 .. Len(stack[o])
    BY <1>3 DEF InHandler, TopFrame
  <2> QED
    BY <1>1, <2>1
<1>5. cpu' = [cs |-> TopFrame.cs, ax |-> TopFrame.ax, esp |-> TopFrame.esp, if |-> TopFrame.if]
  BY <1>2 DEF Returned
<1>6. /\ cpu' \in Context /\ cpu'.cs = TopFrame.cs /\ cpu'.ax = TopFrame.ax
      /\ cpu'.esp = TopFrame.esp /\ cpu'.if
  BY <1>3, <1>4, <1>5 DEF Context, Frame, InHandler
<1>7. OwnCode(o, cpu', stack[o])
  BY <1>3, <1>6, SameCode DEF InHandler
<1>8. g_current = nothing => /\ o \in UserThreads \ threads
                             /\ TopFrame.esp # NotIn
  BY <1>3 DEF ContextInv, Runs, o, InHandler
<1>9. g_current = nothing => cpu'.esp = StackAt(o, 1) /\ FromUser(stack[o][1])
  BY <1>1, <1>6, <1>7, <1>8, ProcessorAssumption DEF OwnCode
<1>10. Owner = o /\ Owner' = Owner
  BY <1>2, <1>9 DEF Owner, o, StackAt
<1>11. g_current = nothing => /\ cpu'.esp # NotIn
                              /\ TopFrame'.vector \notin DeviceVectors
  <2>1. \A w \in DeviceVectors : w \in 33 .. 47
    BY DeviceGates DEF DeviceVectors
  <2>2. g_current = nothing => TopFrame' = stack[o][1] /\ cpu'.esp # NotIn
    <3>1. g_current = nothing => cpu'.esp.of = o /\ cpu'.esp.depth = 1
      BY <1>9 DEF StackAt
    <3>2. g_current = nothing => cpu'.esp # NotIn
      BY <1>1, <3>1 DEF NotIn
    <3> QED
      BY <1>2, <3>1, <3>2 DEF TopFrame
  <2> QED
    BY <1>9, <2>1, <2>2 DEF FromUser
<1>12. \A t \in AllThreads : t = Owner => Runs(t)'
  BY <1>2, <1>3, <1>6, <1>7, <1>8, <1>10, <1>11 DEF Runs
<1>13. ProcTypeOK'
  BY <1>2, <1>6 DEF ContextInv, ProcTypeOK
<1>14. serving' = {}
  BY <1>2 DEF ContextInv, KernelKept
<1> QED
  BY <1>2, <1>10, <1>12, <1>13, <1>14, OwnerSteps

\* What end_context saves: every thread of the list is ready to go on.
LEMMA EndContext ==
    ASSUME ContextInv, cpu.if, end_context
    PROVE  /\ regs' \in [AllThreads -> Context] /\ kstack' \in [AllThreads -> Pointer]
           /\ Entering \in [AllThreads -> Seq(Frame)]
           /\ \A w \in threads : /\ regs'[w].ax = own[w]
                                 /\ OwnCode(w, regs'[w], Entering[w])
                                 /\ w \in UserThreads => kstack'[w] = StackAt(w, 0)
<1> DEFINE o == Owner
<1>1. /\ cpu \in Context /\ stack \in [AllThreads -> Seq(Frame)] /\ regs \in [AllThreads -> Context]
      /\ kstack \in [AllThreads -> Pointer] /\ tss \in Pointer /\ o \in AllThreads
      /\ threads \subseteq AllThreads /\ g_current \in threads \cup {nothing}
      /\ nothing \notin AllThreads
  BY ProcessorAssumption DEF ContextInv, ProcTypeOK, AllThreads
<1>2. OwnCode(o, cpu, stack[o]) /\ (g_current = o => cpu.ax = own[o])
  BY WhoseCode
<1>3. PICK k \in {0, 1} :
          /\ EntryStack = StackAt(o, k) /\ k <= Len(stack[o]) /\ (k = 0 <=> cpu.esp.depth = 0)
  BY <1>2, Entry
<1>4. /\ g_current # nothing => g_current = o
      /\ g_current = nothing => o \notin threads
  BY DEF ContextInv, Runs, Owner
<1> HIDE DEF o
<1> DEFINE front == SubSeq(stack[o], 1, k)
<1>5. Entering = [stack EXCEPT ![o] = front]
  BY <1>3 DEF Entering, StackAt
<1>6. front \in Seq(Frame) /\ Len(front) = k /\ (k = 1 => front[1] = stack[o][1])
  BY <1>1, <1>3, FrontOf
<1> HIDE DEF front
<1>7. /\ Entering \in [AllThreads -> Seq(Frame)] /\ Entering[o] = front
      /\ \A w \in AllThreads \ {o} : Entering[w] = stack[w]
  BY <1>1, <1>5, <1>6
<1>8. OwnCode(o, cpu, front)
  <2>1. CASE cpu.cs = KERNEL_CS /\ cpu.esp = StackAt(o, 1) /\ FromUser(stack[o][1])
    <3>1. k = 1
      BY <1>3, <2>1 DEF StackAt
    <3> QED
      BY <1>2, <1>6, <2>1, <3>1 DEF OwnCode
  <2> QED
    BY <1>2, <2>1 DEF OwnCode
<1> DEFINE c == Saved(FrameOf(32))
<1>9. /\ c \in Context /\ c.cs = cpu.cs /\ c.ax = cpu.ax /\ c.esp = cpu.esp
  BY <1>1 DEF Saved, FrameOf, Context
<1> HIDE DEF c
<1>10. /\ regs' \in [AllThreads -> Context] /\ kstack' \in [AllThreads -> Pointer]
       /\ g_current # nothing => regs'[g_current] = c /\ kstack'[g_current] = tss
       /\ \A w \in AllThreads \ {g_current} : regs'[w] = regs[w] /\ kstack'[w] = kstack[w]
  BY <1>1, <1>9 DEF end_context, c
<1>11. ASSUME NEW w \in threads
       PROVE  /\ regs'[w].ax = own[w] /\ OwnCode(w, regs'[w], Entering[w])
              /\ w \in UserThreads => kstack'[w] = StackAt(w, 0)
  <2>1. CASE w = g_current
    <3>1. w = o /\ regs'[w] = c /\ kstack'[w] = tss
      BY <1>1, <1>4, <1>10, <2>1
    <3>2. OwnCode(o, c, front)
      BY <1>8, <1>9, SameCode
    <3>3. w \in UserThreads => tss = StackAt(w, 0)
      BY <2>1 DEF ContextInv, KernelKept
    <3> QED
      BY <1>2, <1>7, <1>9, <2>1, <3>1, <3>2, <3>3
  <2>2. CASE w # g_current
    <3>1. w # o /\ regs'[w] = regs[w] /\ kstack'[w] = kstack[w] /\ Entering[w] = stack[w]
      BY <1>1, <1>4, <1>7, <1>10, <2>2
    <3> QED
      BY <2>2, <3>1 DEF ContextInv, SuspendedKept, KernelKept
  <2> QED
    BY <2>1, <2>2
<1> QED
  BY <1>7, <1>10, <1>11

\* What the timer counts.
LEMMA TimeTypes ==
    ASSUME ContextInv, NEW t \in AllThreads, NEW u \in AllThreads, TimerTick(t, u)
    PROVE  /\ tick' \in Int /\ ran' \in [AllThreads -> Int] /\ consumed' \in [AllThreads -> Int]
           /\ contextStart' \in [AllThreads -> Int]
<1>1. /\ tick \in Int /\ ran \in [AllThreads -> Int] /\ consumed \in [AllThreads -> Int]
      /\ contextStart \in [AllThreads -> Int]
  BY DEF ContextInv, ProcTypeOK
<1>2. tick' = tick + 1 /\ contextStart' = [contextStart EXCEPT ![u] = tick + 1]
  BY DEF TimerTick, TimesAfterTick, start_context
<1>3. ran' = IF g_current = nothing THEN ran ELSE [ran EXCEPT ![g_current] = @ + 1]
  BY DEF TimerTick, TimesAfterTick
<1>4. consumed' = IF g_current = nothing THEN consumed
                  ELSE [consumed EXCEPT ![g_current] = @ + tick + 1 - contextStart[g_current]]
  BY DEF TimerTick
<1>5. g_current # nothing => g_current \in AllThreads
  BY DEF ContextInv, ProcTypeOK
<1>6. tick + 1 \in Int /\ contextStart' \in [AllThreads -> Int]
  BY <1>1, <1>2
<1>7. ran' \in [AllThreads -> Int]
  BY <1>1, <1>3, <1>5
<1>8. consumed' \in [AllThreads -> Int]
  <2>1. CASE g_current = nothing
    BY <1>1, <1>4, <2>1
  <2>2. CASE g_current # nothing
    <3>1. PICK n \in Int : n = consumed[g_current] + tick + 1 - contextStart[g_current]
      BY <1>1, <1>5, <2>2
    <3>2. consumed' = [consumed EXCEPT ![g_current] = n]
      BY <1>4, <2>2, <3>1
    <3> QED
      BY <1>1, <3>2
  <2> QED
    BY <2>1, <2>2
<1> QED
  BY <1>2, <1>6, <1>7, <1>8

\* The timer: the thread that goes on finds what it left.
LEMMA TickStep ==
    ASSUME ContextInv, NEW t \in AllThreads, NEW u \in AllThreads, TimerTick(t, u)
    PROVE  ContextInv'
<1>1. /\ cpu.if /\ end_context /\ u \in threads' /\ threads' \subseteq threads /\ g_current' = u
      /\ thread_switch_to(u, regs'[u]) /\ own' = own /\ serving' = {} /\ u # nothing
      /\ KERNEL_CS # USER_CS /\ threads \subseteq AllThreads
  <2>1. /\ cpu.if /\ end_context /\ g_current' = u /\ thread_switch_to(u, regs'[u])
        /\ own' = own /\ serving' = serving /\ u \in threads /\ (t \in dying => u # t)
        /\ threads' = threads \ (dying \cap {t})
    BY DEF TimerTick, Accepts, start_context
  <2>2. u # nothing /\ KERNEL_CS # USER_CS
    BY ProcessorAssumption DEF AllThreads, KERNEL_CS, USER_CS
  <2>3. serving = {} /\ threads \subseteq AllThreads
    BY DEF ContextInv, ProcTypeOK, KernelKept
  <2> QED
    BY <2>1, <2>2, <2>3
<1>2. PICK c \in Context : c = regs'[u]
  BY <1>1, EndContext
<1>3. PICK s \in Seq(Frame) : s = Entering[u]
  BY <1>1, EndContext
<1>4. /\ c.ax = own[u] /\ OwnCode(u, c, s) /\ (u \in UserThreads => kstack'[u] = StackAt(u, 0))
  BY <1>1, <1>2, <1>3, EndContext
<1>5. PICK k \in {0, 1} :
          /\ (IF c.cs # KERNEL_CS THEN kstack'[u] ELSE c.esp) = StackAt(u, k) /\ k <= Len(s)
          /\ c.esp = StackAt(u, 1) /\ u \in UserThreads => k = 1 \/ c.cs # KERNEL_CS
  <2>1. Len(s) \in Nat
    BY <1>3
  <2> QED
    BY <1>1, <1>4, <2>1 DEF OwnCode, StackAt
<1> DEFINE front == SubSeq(s, 1, k)
<1>6. front \in Seq(Frame) /\ Len(front) = k /\ (k = 1 => front[1] = s[1])
  BY <1>5, FrontOf
<1>7. /\ tss' = kstack'[u] /\ cr3' = u
      /\ stack' = [Entering EXCEPT ![u] = front]
      /\ cpu' = [cs |-> c.cs, ax |-> c.ax, esp |-> c.esp, if |-> TRUE]
  <2>1. StackAt(u, k).of = u /\ StackAt(u, k).depth = k
    BY DEF StackAt
  <2> QED
    BY <1>1, <1>2, <1>3, <1>5, <2>1 DEF thread_switch_to
<1> HIDE DEF front
<1>8. Entering \in [AllThreads -> Seq(Frame)]
  BY <1>1, EndContext
<1>9. stack'[u] = front /\ \A w \in AllThreads \ {u} : stack'[w] = Entering[w]
  BY <1>7, <1>8
<1>10. OwnCode(u, c, front)
  BY <1>4, <1>5, <1>6, <1>1 DEF OwnCode
<1>11. OwnCode(u, cpu', front) /\ cpu'.ax = own[u] /\ cpu'.if
  <2>1. cpu'.cs = c.cs /\ cpu'.esp = c.esp /\ cpu'.ax = c.ax /\ cpu'.if
    BY <1>7
  <2> QED
    BY <1>4, <1>10, <2>1, SameCode
<1>12. Owner' = u
  BY <1>1 DEF Owner
<1>13. Runs(u)'
  BY <1>1, <1>9, <1>11 DEF Runs
<1>14. KernelKept'
  BY <1>1, <1>7, EndContext DEF KernelKept
<1>15. SuspendedKept'
  <2> SUFFICES ASSUME NEW w \in threads' \ {u}
               PROVE  regs'[w].ax = own[w] /\ OwnCode(w, regs'[w], stack'[w])
    BY <1>1 DEF SuspendedKept
  <2>1. w \in threads /\ stack'[w] = Entering[w]
    BY <1>1, <1>9
  <2> QED
    BY <1>1, <2>1, EndContext
<1>16. stack' \in [AllThreads -> Seq(Frame)] /\ tss' \in Pointer /\ cpu' \in Context
  <2>1. kstack'[u] \in Pointer
    BY <1>1, EndContext
  <2>2. cpu' \in Context
    BY <1>7 DEF Context
  <2> QED
    BY <1>6, <1>7, <1>8, <2>1, <2>2
<1>17. ProcTypeOK'
  <2>1. regs' \in [AllThreads -> Context] /\ kstack' \in [AllThreads -> Pointer]
    BY <1>1, EndContext
  <2>2. own' \in [AllThreads -> Values] /\ threads' \subseteq AllThreads
        /\ g_current' \in threads' \cup {nothing}
    BY <1>1 DEF ContextInv, ProcTypeOK
  <2> QED
    BY <1>16, <2>1, <2>2, TimeTypes DEF ProcTypeOK
<1> QED
  BY <1>12, <1>13, <1>14, <1>15, <1>17 DEF ContextInv

\* execve destroys the process of the thread, which goes on until the next tick.
LEMMA DestroyStep ==
    ASSUME ContextInv, DestroySelf
    PROVE  ContextInv'
<1> PICK o \in AllThreads : o = Owner
  BY DEF ContextInv
<1>1. /\ cpu \in Context /\ g_current \in UserThreads /\ Innermost = 128 /\ o = g_current
      /\ threads \subseteq AllThreads /\ nothing \notin AllThreads
      /\ threads' = threads \ {o} /\ g_current' = nothing /\ cpu' = [cpu EXCEPT !.if = TRUE]
      /\ UNCHANGED <<tss, cr3, stack, regs, kstack, serving, own, tick, contextStart, consumed, ran>>
  BY ProcessorAssumption
     DEF DestroySelf, unchangedTime, ContextInv, ProcTypeOK, AllThreads, Owner
<1>2. OwnCode(o, cpu, stack[o])
  BY <1>1, WhoseCode
<1>3. cpu.esp.depth # 0 /\ TopFrame.vector = 128
  BY <1>1 DEF Innermost
<1>4. cpu.esp = StackAt(o, 1)
  BY <1>2, <1>3 DEF OwnCode, StackAt, NotIn
<1>5. cpu' \in Context /\ cpu'.cs = cpu.cs /\ cpu'.esp = cpu.esp /\ cpu'.if
  BY <1>1 DEF Context
<1>6. OwnCode(o, cpu', stack[o])
  BY <1>2, <1>5, SameCode
<1>7. cpu'.esp.of = o /\ cpu'.esp # NotIn /\ TopFrame'.vector = 128
  <2>1. cpu'.esp.of = o /\ cpu'.esp # NotIn
    BY <1>1, <1>4, <1>5 DEF StackAt, NotIn, AllThreads
  <2>2. TopFrame' = TopFrame
    BY <1>1, <1>5 DEF TopFrame
  <2> QED
    BY <1>3, <2>1, <2>2
<1>8. 128 \notin DeviceVectors
  BY DeviceGates DEF DeviceVectors
<1>9. Owner' = o
  BY <1>1, <1>7 DEF Owner
<1>10. Runs(o)'
  BY <1>1, <1>5, <1>6, <1>7, <1>8 DEF Runs, AllThreads
<1>11. KernelKept'
  BY <1>1 DEF ContextInv, KernelKept, AllThreads
<1>12. SuspendedKept'
  BY <1>1 DEF ContextInv, SuspendedKept
<1>13. ProcTypeOK' /\ o \in AllThreads
  BY <1>1, <1>5 DEF ContextInv, ProcTypeOK, AllThreads
<1> QED
  BY <1>9, <1>10, <1>11, <1>12, <1>13 DEF ContextInv

\* A new thread.
LEMMA CreateStep ==
    ASSUME ContextInv, NEW t \in UserThreads, CreateThread(t)
    PROVE  ContextInv'
<1> DEFINE new == [cs |-> USER_CS, ax |-> 0, esp |-> NotIn, if |-> FALSE]
<1>1. /\ g_current \in threads /\ t \notin threads /\ threads' = threads \cup {t}
      /\ regs' = [regs EXCEPT ![t] = new]
      /\ kstack' = [kstack EXCEPT ![t] = StackAt(t, 0)]
      /\ stack' = [stack EXCEPT ![t] = <<>>]
      /\ own' = [own EXCEPT ![t] = 0]
      /\ contextStart' = [contextStart EXCEPT ![t] = 0]
      /\ consumed' = [consumed EXCEPT ![t] = 0]
      /\ ran' = [ran EXCEPT ![t] = 0]
      /\ UNCHANGED <<cpu, tss, cr3, g_current, serving, tick>>
  BY DEF CreateThread, ContextInv, ProcTypeOK, StackAt
<1>2. /\ new \in Context /\ new.cs = USER_CS /\ new.ax = 0 /\ new.esp = NotIn
      /\ StackAt(t, 0) \in Pointer /\ 0 \in Values /\ t \in AllThreads
  BY ProcessorAssumption DEF Context, NotIn, Pointer, StackAt, AllThreads
<1> HIDE DEF new
<1>3. ProcTypeOK'
  <2>1. /\ regs' \in [AllThreads -> Context] /\ kstack' \in [AllThreads -> Pointer]
        /\ own' \in [AllThreads -> Values]
    BY <1>1, <1>2 DEF ContextInv, ProcTypeOK
  <2>2. stack' \in [AllThreads -> Seq(Frame)]
    <3>1. <<>> \in Seq(Frame)
      OBVIOUS
    <3> QED
      BY <1>1, <3>1 DEF ContextInv, ProcTypeOK
  <2>3. /\ contextStart' \in [AllThreads -> Int] /\ consumed' \in [AllThreads -> Int]
        /\ ran' \in [AllThreads -> Int]
    <3>1. PICK zero \in Int : zero = 0
      OBVIOUS
    <3> QED
      BY <1>1, <3>1 DEF ContextInv, ProcTypeOK
  <2> QED
    BY <1>1, <1>2, <2>1, <2>2, <2>3 DEF ContextInv, ProcTypeOK
<1>4. /\ \A w \in AllThreads \ {t} :
             /\ regs'[w] = regs[w] /\ kstack'[w] = kstack[w] /\ stack'[w] = stack[w]
             /\ own'[w] = own[w]
      /\ regs'[t] = new /\ kstack'[t] = StackAt(t, 0) /\ own'[t] = 0
  BY <1>1, <1>2 DEF ContextInv, ProcTypeOK
<1>5. Owner = g_current /\ Owner' = g_current /\ g_current # t /\ g_current # nothing
      /\ g_current \in AllThreads
  <2>1. g_current \in AllThreads
    BY <1>1 DEF ContextInv, ProcTypeOK
  <2>2. g_current # nothing
    BY <2>1, ProcessorAssumption DEF AllThreads
  <2> QED
    BY <1>1, <2>1, <2>2 DEF Owner
<1>6. Runs(g_current)
  BY <1>5 DEF ContextInv
<1>7. Runs(Owner)'
  <2>1. PICK o \in AllThreads : o = g_current
    BY <1>5
  <2>2. stack'[o] = stack[o] /\ own'[o] = own[o] /\ cpu' = cpu /\ g_current' = o /\ o # nothing
    BY <1>1, <1>4, <1>5, <2>1
  <2>3. InHandler(o) => InHandler(o)' /\ TopFrame' = TopFrame
    BY <2>2 DEF InHandler, TopFrame
  <2>4. Runs(o)'
    BY <1>6, <2>1, <2>2, <2>3 DEF Runs
  <2> QED
    BY <1>5, <2>1, <2>4
<1>8. KernelKept'
  BY <1>1, <1>4 DEF ContextInv, KernelKept, ProcTypeOK, AllThreads
<1>9. SuspendedKept'
  <2> SUFFICES ASSUME NEW w \in threads' \ {g_current}
               PROVE  regs'[w].ax = own'[w] /\ OwnCode(w, regs'[w], stack'[w])
    BY <1>1 DEF SuspendedKept
  <2>1. CASE w = t
    BY <1>2, <1>4, <2>1 DEF OwnCode
  <2>2. CASE w # t
    BY <1>1, <1>4, <2>2 DEF ContextInv, SuspendedKept, ProcTypeOK
  <2> QED
    BY <2>1, <2>2
<1> QED
  BY <1>3, <1>5, <1>7, <1>8, <1>9 DEF ContextInv

\* The time charged to a thread, and that since it went on.
TimesInv ==
    \A t \in threads :
        ran[t] = consumed[t] + (IF t = g_current THEN tick - contextStart[t] ELSE 0)

\* A tick keeps the times.
LEMMA TickTimes ==
    ASSUME ContextInv, TimesInv, NEW t \in AllThreads, NEW u \in AllThreads, TimerTick(t, u)
    PROVE  TimesInv'
<1>1. /\ tick \in Int /\ ran \in [AllThreads -> Int] /\ consumed \in [AllThreads -> Int]
      /\ contextStart \in [AllThreads -> Int] /\ threads \subseteq AllThreads
      /\ g_current \in threads \cup {nothing} /\ nothing \notin AllThreads
  BY ProcessorAssumption DEF ContextInv, ProcTypeOK, AllThreads
<1>2. /\ tick' = tick + 1 /\ contextStart' = [contextStart EXCEPT ![u] = tick + 1]
      /\ threads' \subseteq threads /\ g_current' = u
      /\ ran' = IF g_current = nothing THEN ran ELSE [ran EXCEPT ![g_current] = @ + 1]
      /\ consumed' = IF g_current = nothing THEN consumed
                     ELSE [consumed EXCEPT ![g_current] = @ + tick + 1 - contextStart[g_current]]
  BY DEF TimerTick, TimesAfterTick, start_context
<1> SUFFICES ASSUME NEW w \in threads'
             PROVE  ran'[w] = consumed'[w] +
                                  (IF w = u THEN tick' - contextStart'[w] ELSE 0)
  BY <1>2 DEF TimesInv
<1>3. w \in threads /\ w \in AllThreads
  BY <1>1, <1>2
<1>4. /\ ran[w] \in Int /\ consumed[w] \in Int /\ contextStart[w] \in Int
      /\ ran[w] = consumed[w] + (IF w = g_current THEN tick - contextStart[w] ELSE 0)
  BY <1>1, <1>3 DEF TimesInv
<1>5. ran'[w] = consumed'[w]
  <2>1. CASE w = g_current
    <3>1. ran'[w] = ran[w] + 1 /\ consumed'[w] = consumed[w] + tick + 1 - contextStart[w]
      BY <1>1, <1>2, <1>3, <2>1
    <3>2. ran[w] = consumed[w] + (tick - contextStart[w])
      BY <1>4, <2>1
    <3> QED
      BY <1>1, <1>4, <3>1, <3>2
  <2>2. CASE w # g_current
    <3>1. ran'[w] = ran[w] /\ consumed'[w] = consumed[w]
      BY <1>1, <1>2, <1>3, <2>2
    <3> QED
      BY <1>4, <2>2, <3>1
  <2> QED
    BY <2>1, <2>2
<1>6. consumed'[w] \in Int
  BY <1>3, TimeTypes
<1>7. w = u => tick' = tick + 1 /\ contextStart'[w] = tick + 1
  BY <1>1, <1>2, <1>3
<1> QED
  BY <1>1, <1>5, <1>6, <1>7

\* What the invariant says of the property.
LEMMA ContextInvShows == ContextInv /\ TimesInv => ContextKept
<1> SUFFICES ASSUME ContextInv, TimesInv PROVE ContextKept
  OBVIOUS
<1>1. /\ nothing \notin AllThreads /\ g_current \in threads \cup {nothing}
      /\ threads \subseteq AllThreads /\ USER_CS # KERNEL_CS
  BY ProcessorAssumption DEF ContextInv, ProcTypeOK, AllThreads, KERNEL_CS, USER_CS
<1>2. g_current # nothing => Owner = g_current
  BY DEF Owner
<1>3. g_current # nothing /\ Innermost \in {-1, 13, 128} => cpu.ax = own[g_current]
  BY <1>2, WhoseCode
<1>4. ASSUME NEW t \in threads \ {g_current}
      PROVE  /\ regs[t].ax = own[t]
             /\ regs[t].esp # NotIn => regs[t].esp.of = t /\ regs[t].cs = KERNEL_CS
  <2>1. regs[t].ax = own[t] /\ OwnCode(t, regs[t], stack[t])
    BY DEF ContextInv, SuspendedKept
  <2>2. StackAt(t, 0).of = t /\ StackAt(t, 1).of = t
    BY DEF StackAt
  <2> QED
    BY <2>1, <2>2 DEF OwnCode
<1>5. \/ OwnCode(Owner, cpu, stack[Owner])
      \/ InHandler(Owner)
  BY DEF ContextInv, Runs
<1>6. cpu.esp = NotIn \/ cpu.esp.of = Owner
  BY <1>5 DEF OwnCode, InHandler, StackAt
<1>7. g_current # nothing => cr3 = g_current /\ (cpu.esp = NotIn \/ cpu.esp.of = g_current)
  BY <1>2, <1>6 DEF ContextInv, KernelKept
<1>8. ASSUME cpu.esp = NotIn
      PROVE  /\ cpu.if /\ serving = {} /\ Privilege(cpu.cs) = 3
             /\ tss = [of |-> g_current, depth |-> 0]
  <2>1. cpu.if /\ serving = {} /\ g_current # nothing /\ Owner \in AllThreads
    BY <1>8 DEF ContextInv, Runs, KernelKept
  <2>2. ~InHandler(Owner)
    BY <1>1, <1>8, <2>1 DEF InHandler, NotIn
  <2>3. Owner \in UserThreads /\ cpu.cs = USER_CS
    BY <1>1, <1>5, <1>8, <2>1, <2>2 DEF OwnCode, NotIn, StackAt
  <2>4. tss = StackAt(g_current, 0)
    BY <1>2, <2>1, <2>3 DEF ContextInv, KernelKept
  <2> QED
    BY <2>1, <2>3, <2>4, Privileges DEF StackAt
<1> QED
  BY <1>3, <1>4, <1>7, <1>8 DEF ContextKept, TimesInv

\* When the scheduler starts there is the idle thread.
LEMMA BootInv == ProcessorInit => ContextInv /\ TimesInv
<1> SUFFICES ASSUME ProcessorInit PROVE ContextInv /\ TimesInv
  OBVIOUS
<1>1. /\ IdleThread \in AllThreads /\ nothing \notin AllThreads /\ IdleThread \notin UserThreads
      /\ 0 \in Values
  BY ProcessorAssumption DEF AllThreads
<1>2. /\ NotIn \in Pointer /\ StackAt(IdleThread, 0) \in Pointer
      /\ StackAt(IdleThread, 0) # NotIn
  BY <1>1 DEF NotIn, StackAt, Pointer
<1>3. ProcTypeOK
  <2>1. /\ cpu \in Context
    BY <1>1, <1>2 DEF ProcessorInit, Context, StackAt
  <2>2. regs \in [AllThreads -> Context] /\ kstack \in [AllThreads -> Pointer] /\ tss \in Pointer
    BY <1>1, <1>2 DEF ProcessorInit, Context
  <2>3. stack \in [AllThreads -> Seq(Frame)]
    <3>1. <<>> \in Seq(Frame)
      OBVIOUS
    <3> QED
      BY <3>1 DEF ProcessorInit
  <2>4. /\ tick \in Int /\ contextStart \in [AllThreads -> Int]
        /\ consumed \in [AllThreads -> Int] /\ ran \in [AllThreads -> Int]
    <3>1. 0 \in Int
      OBVIOUS
    <3> QED
      BY <3>1 DEF ProcessorInit
  <2> QED
    BY <1>1, <2>1, <2>2, <2>3, <2>4 DEF ProcessorInit, ProcTypeOK
<1>4. Owner = IdleThread
  BY <1>1 DEF ProcessorInit, Owner
<1>5. Runs(IdleThread)
  <2>1. OwnCode(IdleThread, cpu, stack[IdleThread]) /\ cpu.esp # NotIn
    BY <1>2 DEF ProcessorInit, OwnCode, StackAt
  <2> QED
    BY <1>1, <2>1 DEF ProcessorInit, Runs
<1>6. KernelKept /\ SuspendedKept
  BY <1>1 DEF ProcessorInit, KernelKept, SuspendedKept
<1>7. TimesInv
  <2>1. ran[IdleThread] = 0 /\ consumed[IdleThread] = 0 /\ contextStart[IdleThread] = 0 /\ tick = 0
    BY <1>1 DEF ProcessorInit
  <2> QED
    BY <2>1 DEF ProcessorInit, TimesInv
<1> QED
  BY <1>1, <1>3, <1>4, <1>5, <1>6, <1>7 DEF ContextInv

\* Every step keeps both.
LEMMA ProcessorSteps ==
    ContextInv /\ TimesInv /\ [ProcessorNext]_cpuVars => (ContextInv /\ TimesInv)'
<1> SUFFICES ASSUME ContextInv, TimesInv, [ProcessorNext]_cpuVars
             PROVE  ContextInv' /\ TimesInv'
  OBVIOUS
<1>1. ASSUME UNCHANGED <<threads, g_current, tick, contextStart, consumed, ran>>
      PROVE  TimesInv'
  BY <1>1 DEF TimesInv
<1>2. CASE \/ \E v \in Values : Compute(v)
           \/ HaltInCall \/ BootEnds \/ EndItself(128)
  <2>1. UNCHANGED <<threads, g_current, tick, contextStart, consumed, ran>>
    BY <1>2 DEF Compute, HaltInCall, BootEnds, EndItself, unchangedThreads, unchangedTime
  <2> QED
    BY <1>1, <1>2, <2>1, PlainSteps
<1>3. CASE Syscall \/ EndItself(13)
  <2>1. UNCHANGED <<threads, g_current, tick, contextStart, consumed, ran>>
    BY <1>3 DEF Syscall, EndItself, unchangedThreads, unchangedTime
  <2> QED
    BY <1>1, <1>3, <2>1, GateSteps
<1>4. ASSUME NEW v \in Values, SyscallReturn(v)
      PROVE  ContextInv' /\ TimesInv'
  <2>1. UNCHANGED <<threads, g_current, tick, contextStart, consumed, ran>>
    BY <1>4 DEF SyscallReturn, unchangedThreads, unchangedTime
  <2> QED
    BY <1>1, <1>4, <2>1, ReturnStep
<1>5. ASSUME NEW line \in Lines, Irq(line)
      PROVE  ContextInv' /\ TimesInv'
  <2>1. UNCHANGED <<threads, g_current, tick, contextStart, consumed, ran>>
    BY <1>5 DEF Irq, unchangedThreads, unchangedTime
  <2> QED
    BY <1>1, <1>5, <2>1, IrqStep
<1>6. CASE IrqReturn
  <2>1. UNCHANGED <<threads, g_current, tick, contextStart, consumed, ran>>
    BY <1>6 DEF IrqReturn, unchangedThreads, unchangedTime
  <2> QED
    BY <1>1, <1>6, <2>1, IrqReturnStep
<1>7. CASE DestroySelf
  <2>1. /\ threads' \subseteq threads \ {g_current} /\ g_current' = nothing
        /\ UNCHANGED <<tick, contextStart, consumed, ran>>
    BY <1>7 DEF DestroySelf, unchangedTime
  <2>2. nothing \notin threads
    BY ProcessorAssumption DEF ContextInv, ProcTypeOK, AllThreads
  <2>3. TimesInv'
    BY <2>1, <2>2 DEF TimesInv
  <2> QED
    BY <1>7, <2>3, DestroyStep
<1>8. ASSUME NEW t \in UserThreads, CreateThread(t)
      PROVE  ContextInv' /\ TimesInv'
  <2>1. /\ threads' = threads \cup {t} /\ t \notin threads /\ g_current \in threads
        /\ ran' = [ran EXCEPT ![t] = 0] /\ consumed' = [consumed EXCEPT ![t] = 0]
        /\ contextStart' = [contextStart EXCEPT ![t] = 0] /\ UNCHANGED <<tick, g_current>>
        /\ t \in AllThreads
    BY <1>8 DEF CreateThread, ContextInv, ProcTypeOK, AllThreads
  <2>2. /\ ran'[t] = 0 /\ consumed'[t] = 0
        /\ \A w \in threads : /\ ran'[w] = ran[w] /\ consumed'[w] = consumed[w]
                              /\ contextStart'[w] = contextStart[w]
    BY <2>1 DEF ContextInv, ProcTypeOK
  <2>3. TimesInv'
    BY <2>1, <2>2 DEF TimesInv
  <2> QED
    BY <1>8, <2>3, CreateStep
<1>9. CASE TickAlone
  <2>1. /\ threads = {IdleThread} /\ g_current = IdleThread /\ tick' = tick + 1
        /\ ran' = [ran EXCEPT ![IdleThread] = @ + 1]
        /\ UNCHANGED <<cpu, tss, cr3, stack, regs, kstack, threads, g_current, serving, own,
                       contextStart, consumed>>
    BY <1>9, ProcessorAssumption DEF TickAlone, TimesAfterTick, unchangedThreads
  <2>2. IdleThread \in AllThreads
    BY DEF AllThreads
  <2>3. /\ tick \in Int /\ ran \in [AllThreads -> Int] /\ consumed[IdleThread] \in Int
        /\ contextStart[IdleThread] \in Int
    BY <2>2 DEF ContextInv, ProcTypeOK
  <2>4. /\ ran' \in [AllThreads -> Int] /\ tick' \in Int
        /\ ran'[IdleThread] = ran[IdleThread] + 1
    BY <2>1, <2>2, <2>3
  <2>5. ran[IdleThread] = consumed[IdleThread] + (tick - contextStart[IdleThread])
    BY <2>1 DEF TimesInv
  <2>6. ran'[IdleThread] = consumed[IdleThread] + (tick' - contextStart[IdleThread])
    BY <2>1, <2>3, <2>4, <2>5
  <2>7. TimesInv'
    BY <2>1, <2>6 DEF TimesInv
  <2>8. ContextInv'
    BY <2>1, <2>4 DEF ContextInv, ProcTypeOK, KernelKept, SuspendedKept, Runs, InHandler,
                      TopFrame, Owner
  <2> QED
    BY <2>7, <2>8
<1>10. ASSUME NEW t \in AllThreads, NEW u \in AllThreads, TimerTick(t, u)
       PROVE  ContextInv' /\ TimesInv'
  BY <1>10, TickStep, TickTimes
<1>11. CASE UNCHANGED cpuVars
  BY <1>1, <1>11 DEF cpuVars, ContextInv, ProcTypeOK, KernelKept, SuspendedKept, Runs, InHandler,
                     TopFrame, Owner
<1> QED
  BY <1>2, <1>3, <1>4, <1>5, <1>6, <1>7, <1>8, <1>9, <1>10, <1>11 DEF ProcessorNext

\* The context switch: every thread finds its registers as it left them, on its own kernel
\* stack and in its own memory, and is charged the time that it ran.
THEOREM ContextsAreKept == ProcessorSpec => []ContextKept
  BY BootInv, ProcessorSteps, ContextInvShows, PTL DEF ProcessorSpec

-----------------------------------------------------------------------------
(* What input devices give their readers *)

\* Going once or more around a ring of k cells leads to the cell one is at.
LEMMA CellOf ==
    ASSUME NEW k \in Nat \ {0}, NEW turns \in Nat, NEW cell \in 0 .. k - 1
    PROVE  (turns * k + cell) % k = cell
<1>1. turns * k \in Nat
  OBVIOUS
<1> QED BY <1>1

\* The cells of the codes x and x + n of a ring; fewer than k codes in a row
\* have cells of their own.
LEMMA RingCells ==
    ASSUME NEW k \in Nat \ {0}, NEW x \in Nat, NEW n \in Nat
    PROVE  /\ x % k \in 0 .. k - 1
           /\ ((x % k) + n) % k = (x + n) % k
           /\ n \in 1 .. k - 1 => (x + n) % k # x % k
           /\ n = k => (x + n) % k = x % k
<1> DEFINE q == x \div k
           r == x % k
           p == (r + n) \div k
           s == (r + n) % k
<1>1. q \in Nat /\ r \in 0 .. k - 1 /\ x = q * k + r
  BY SMT
<1>2. r + n \in Nat
  BY <1>1
<1>3. p \in Nat /\ s \in 0 .. k - 1 /\ r + n = p * k + s
  BY <1>2, SMT
<1> HIDE DEF q, r, p, s
<1>4. q * k \in Nat /\ p * k \in Nat /\ (q + p) * k = q * k + p * k /\ q + p \in Nat
  BY <1>1, <1>3
<1>5. x + n = (q + p) * k + s
  BY <1>1, <1>3, <1>4
<1>6. (x + n) % k = s
  BY <1>3, <1>4, <1>5, CellOf
<1>7. ASSUME n \in 1 .. k - 1, s = r PROVE FALSE
  <2>1. p * k = n
    BY <1>1, <1>3, <1>4, <1>7
  <2>2. CASE p = 0
    BY <2>1, <2>2, <1>7
  <2>3. CASE p # 0
    <3>1. PICK b \in Nat : p = b + 1
      <4>1. p - 1 \in Nat /\ p = (p - 1) + 1
        BY <1>3, <2>3
      <4> QED BY <4>1
    <3>2. b * k \in Nat /\ (b + 1) * k = b * k + k
      OBVIOUS
    <3> QED BY <2>1, <3>1, <3>2, <1>7
  <2> QED BY <2>2, <2>3
<1>8. ASSUME n = k PROVE (x + n) % k = r
  <2>1. x + n = (q + 1) * k + r /\ q + 1 \in Nat
    <3>1. (q + 1) * k = q * k + k
      BY <1>1
    <3> QED BY <3>1, <1>1, <1>4, <1>8
  <2> QED BY <2>1, <1>1, CellOf
<1> QED BY <1>1, <1>6, <1>7, <1>8 DEF r, s

\* The elements of a sequence from one after m to n.
LEMMA PartOf ==
    ASSUME NEW S, NEW s \in Seq(S), NEW n \in 0 .. Len(s), NEW m \in 0 .. n
    PROVE  /\ SubSeq(s, m + 1, n) \in Seq(S)
           /\ Len(SubSeq(s, m + 1, n)) = n - m
           /\ \A i \in 1 .. n - m : SubSeq(s, m + 1, n)[i] = s[m + i]
<1>1. m + 1 \in Int /\ n \in Int /\ \A i \in m + 1 .. n : s[i] \in S
  OBVIOUS
<1>2. /\ SubSeq(s, m + 1, n) \in Seq(S)
      /\ Len(SubSeq(s, m + 1, n)) = IF m + 1 <= n THEN n - (m + 1) + 1 ELSE 0
  BY <1>1, SubSeqProperties
<1>3. Len(SubSeq(s, m + 1, n)) = n - m
  BY <1>2
<1>4. ASSUME NEW i \in 1 .. n - m PROVE SubSeq(s, m + 1, n)[i] = s[m + i]
  BY <1>3
<1> QED BY <1>2, <1>3, <1>4

\* The ring holds the last KeyBufferSize codes, each in its cell.
RingInv ==
    /\ keys \in Seq(Nat)
    /\ key_buffer \in [0 .. KeyBufferSize - 1 -> Nat]
    /\ key_write_index = Len(keys) % KeyBufferSize
    /\ \A i \in 1 .. Len(keys) :
          /\ keys[i] = i
          /\ Len(keys) - i < KeyBufferSize =>
                key_buffer[(i - 1) % KeyBufferSize] = i

\* How many codes a file has read or skipped.
Passed(r) == first[r] + Len(got[r])

\* A file is at the cell of its first unread code.  What it has read is in
\* order unless it was overrun; then it stays behind until it is opened again.
KeyFileInv(r) ==
    /\ first[r] \in Nat
    /\ got[r] \in Seq(Nat)
    /\ Passed(r) <= Len(keys)
    /\ key_read_index[r] = Passed(r) % KeyBufferSize
    /\ Len(keys) - Passed(r) < KeyBufferSize =>
          \A i \in 1 .. Len(got[r]) : got[r][i] = first[r] + i

KeyInv ==
    /\ RingInv
    /\ \A r \in KeyReaders : KeyFileInv(r)

InputTypeOK ==
    /\ DOMAIN key_read_index = KeyReaders
    /\ DOMAIN mouse_fifo = MouseReaders
    /\ DOMAIN first = InputReaders
    /\ DOMAIN got = InputReaders
    /\ wanted \in [InputReaders -> Nat]
    /\ \A r \in InputReaders : wanted[r] % PacketSize = 0
    /\ budget \in [{"key", "mouse", "serial"} -> Nat]

Bytes == Nat \X Nat

\* Three bytes make a packet.
Packets(s) ==
    /\ s \in Seq(Bytes)
    /\ Len(s) % PacketSize = 0
    /\ \A i \in 1 .. Len(s) :
          /\ s[i][2] = (i - 1) % PacketSize
          /\ i % PacketSize # 1 => s[i][1] = s[i - 1][1]

MouseInv ==
    /\ mouse_packet \in Seq(Bytes)
    /\ Len(mouse_packet) < PacketSize
    /\ \A i \in 1 .. Len(mouse_packet) :
          mouse_packet[i][2] = i - 1 /\ mouse_packet[i][1] = mouse_packet[1][1]
    /\ \A r \in MouseReaders : Packets(got[r]) /\ Packets(mouse_fifo[r])

InputInv == InputTypeOK /\ KeyInv /\ MouseInv

\* Initially nothing was typed or read.
LEMMA InputInitInv == InputInit => InputInv
<1> SUFFICES ASSUME InputInit PROVE InputInv
  OBVIOUS
<1> USE InputAssumption DEF InputInit
<1>1. <<>> \in Seq(Nat) /\ <<>> \in Seq(Bytes) /\ Len(<<>>) = 0
  OBVIOUS
<1>2. 0 % PacketSize = 0 /\ 0 % KeyBufferSize = 0
  BY DEF PacketSize
<1>3. InputTypeOK
  BY <1>2 DEF InputTypeOK
<1>4. RingInv
  BY <1>1, <1>2 DEF RingInv
<1>5. ASSUME NEW r \in KeyReaders PROVE KeyFileInv(r)
  BY <1>1, <1>2 DEF KeyFileInv, Passed, InputReaders
<1>6. Packets(<<>>)
  BY <1>1, <1>2 DEF Packets
<1>7. MouseInv
  BY <1>1, <1>6 DEF MouseInv, InputReaders, PacketSize
<1> QED BY <1>3, <1>4, <1>5, <1>7 DEF InputInv, KeyInv

\* What the invariant says of a file that was not overrun.
LEMMA KeysAreInOrder == InputInv => KeysInOrder
<1> SUFFICES ASSUME InputInv, NEW r \in KeyReaders \cap open,
                    Len(SubSeq(keys, first[r] + 1, Len(keys))) - Len(got[r])
                        \in 0 .. KeyBufferSize - 1
             PROVE  LET since == SubSeq(keys, first[r] + 1, Len(keys))
                        unread == Len(since) - Len(got[r])
                    IN  /\ got[r] = SubSeq(since, 1, Len(got[r]))
                        /\ \A i \in 1 .. unread :
                              key_buffer[(key_read_index[r] + i - 1) % KeyBufferSize]
                                  = since[Len(got[r]) + i]
  BY DEF KeysInOrder
<1> DEFINE since == SubSeq(keys, first[r] + 1, Len(keys))
           unread == Len(since) - Len(got[r])
<1>1. KeyBufferSize \in Nat \ {0}
  BY InputAssumption
<1>2. RingInv /\ KeyFileInv(r)
  BY DEF InputInv, KeyInv
<1>3. PICK f \in Nat : f = first[r]
  BY <1>2 DEF KeyFileInv
<1>4. PICK n \in Nat : n = Len(keys)
  BY <1>2 DEF RingInv
<1>5. PICK g \in Nat : g = Len(got[r])
  BY <1>2 DEF KeyFileInv
<1>6. keys \in Seq(Nat) /\ got[r] \in Seq(Nat) /\ f + g <= n
  BY <1>2, <1>3, <1>4, <1>5 DEF RingInv, KeyFileInv, Passed
<1>7. since \in Seq(Nat) /\ Len(since) = n - f /\ \A i \in 1 .. n - f : since[i] = f + i
  <2>1. f \in 0 .. n /\ n \in 0 .. Len(keys) /\ since = SubSeq(keys, f + 1, n)
    BY <1>3, <1>4, <1>6
  <2> HIDE DEF since
  <2>2. /\ since \in Seq(Nat) /\ Len(since) = n - f
        /\ \A i \in 1 .. n - f : since[i] = keys[f + i]
    BY <2>1, <1>6, PartOf
  <2>3. \A i \in 1 .. n - f : f + i \in 1 .. n /\ keys[f + i] = f + i
    BY <1>2, <1>4 DEF RingInv
  <2> QED BY <2>2, <2>3
<1>8. n - f - g \in 0 .. KeyBufferSize - 1 /\ unread = n - f - g
  BY <1>3, <1>4, <1>5, <1>6, <1>7
<1> HIDE DEF since
<1>9. got[r] = SubSeq(since, 1, g)
  <2>1. \A i \in 1 .. g : got[r][i] = f + i
    <3>1. Passed(r) = f + g /\ n - f - g < KeyBufferSize
      BY <1>1, <1>3, <1>5, <1>8 DEF Passed
    <3>2. Len(keys) - Passed(r) < KeyBufferSize
      BY <3>1, <1>4
    <3> QED BY <3>2, <1>2, <1>3, <1>5 DEF KeyFileInv
  <2>2. PICK s \in Seq(Nat) : s = since
    BY <1>7
  <2>3. g \in 0 .. Len(s)
    BY <1>6, <1>7, <2>2
  <2>4. /\ SubSeq(s, 1, g) \in Seq(Nat) /\ Len(SubSeq(s, 1, g)) = g
        /\ \A i \in 1 .. g : SubSeq(s, 1, g)[i] = s[i]
    <3>1. PICK m \in 0 .. g : m = 0
      BY <2>3
    <3>2. /\ SubSeq(s, m + 1, g) \in Seq(Nat) /\ Len(SubSeq(s, m + 1, g)) = g - m
          /\ \A i \in 1 .. g - m : SubSeq(s, m + 1, g)[i] = s[m + i]
      BY <2>3, PartOf
    <3>3. m + 1 = 1 /\ g - m = g /\ \A i \in 1 .. g : m + i = i
      BY <3>1
    <3> QED BY <3>2, <3>3
  <2>5. \A i \in 1 .. g : got[r][i] = SubSeq(s, 1, g)[i]
    <3>1. \A i \in 1 .. g : i \in 1 .. n - f
      BY <1>6
    <3> QED BY <3>1, <1>7, <2>1, <2>2, <2>4
  <2> QED BY <2>2, <2>4, <2>5, <1>5, <1>6, SeqEqual
<1>10. ASSUME NEW i \in 1 .. n - f - g
       PROVE  key_buffer[(key_read_index[r] + i - 1) % KeyBufferSize] = since[g + i]
  <2>1. PICK j \in Nat : j = i - 1
    OBVIOUS
  <2>2. key_read_index[r] = (f + g) % KeyBufferSize
    BY <1>2, <1>3, <1>5 DEF KeyFileInv, Passed
  <2>3. (((f + g) % KeyBufferSize) + j) % KeyBufferSize = (f + g + j) % KeyBufferSize
    <3>1. f + g \in Nat
      OBVIOUS
    <3> QED BY <1>1, <3>1, RingCells
  <2>4. (f + g) % KeyBufferSize \in Int
    BY <1>1
  <2>5. (key_read_index[r] + i - 1) % KeyBufferSize = ((f + g + i) - 1) % KeyBufferSize
    <3>1. key_read_index[r] + i - 1 = ((f + g) % KeyBufferSize) + j /\ (f + g + i) - 1 = f + g + j
      BY <2>1, <2>2, <2>4
    <3> QED BY <3>1, <2>3
  <2>6. key_buffer[((f + g + i) - 1) % KeyBufferSize] = f + g + i
    <3>1. f + g + i \in 1 .. n /\ n - (f + g + i) < KeyBufferSize
      BY <1>1, <1>8
    <3> QED BY <3>1, <1>2, <1>4 DEF RingInv
  <2>7. since[g + i] = f + (g + i)
    BY <1>7
  <2> QED BY <2>5, <2>6, <2>7
<1> QED BY <1>5, <1>8, <1>9, <1>10 DEF since

\* Packets put together.
LEMMA PacketsJoin ==
    ASSUME NEW s, NEW t, Packets(s), Packets(t)
    PROVE  Packets(s \o t) /\ Len(s \o t) = Len(s) + Len(t)
<1>1. s \in Seq(Bytes) /\ t \in Seq(Bytes) /\ Len(s) \in Nat /\ Len(t) \in Nat
  BY DEF Packets
<1>2. PICK a \in Nat : a = Len(s)
  BY <1>1
<1>3. PICK b \in Nat : b = Len(t)
  BY <1>1
<1>4. /\ s \o t \in Seq(Bytes) /\ Len(s \o t) = a + b
      /\ \A i \in 1 .. a + b : (s \o t)[i] = IF i <= a THEN s[i] ELSE t[i - a]
  BY <1>1, <1>2, <1>3, ConcatProperties
<1>5. a % 3 = 0 /\ b % 3 = 0 /\ (a + b) % 3 = 0
  <2>1. a % 3 = 0 /\ b % 3 = 0
    BY <1>2, <1>3 DEF Packets, PacketSize
  <2> QED BY <2>1
<1>6. ASSUME NEW i \in 1 .. a + b
      PROVE  /\ (s \o t)[i][2] = (i - 1) % 3
             /\ i % 3 # 1 => (s \o t)[i][1] = (s \o t)[i - 1][1]
  <2>1. CASE i <= a
    <3>1. i \in 1 .. a /\ (s \o t)[i] = s[i]
      BY <1>4, <2>1
    <3>2. s[i][2] = (i - 1) % 3 /\ (i % 3 # 1 => s[i][1] = s[i - 1][1])
      BY <3>1, <1>2 DEF Packets, PacketSize
    <3>3. i % 3 # 1 => i - 1 \in 1 .. a + b /\ i - 1 <= a
      BY <3>1
    <3> QED BY <3>1, <3>2, <3>3, <1>4
  <2>2. CASE i > a
    <3>1. PICK j \in 1 .. b : j = i - a
      BY <2>2
    <3>2. (s \o t)[i] = t[j]
      BY <1>4, <2>2, <3>1
    <3>3. t[j][2] = (j - 1) % 3 /\ (j % 3 # 1 => t[j][1] = t[j - 1][1])
      BY <1>3 DEF Packets, PacketSize
    <3>4. (j - 1) % 3 = (i - 1) % 3 /\ j % 3 = i % 3
      BY <3>1, <1>5
    <3>5. j % 3 # 1 => j - 1 \in 1 .. b /\ i - 1 \in 1 .. a + b /\ ~ (i - 1 <= a)
                        /\ (i - 1) - a = j - 1
      BY <3>1
    <3>6. j % 3 # 1 => (s \o t)[i - 1] = t[j - 1]
      BY <3>5, <1>4
    <3>7. (s \o t)[i][2] = (i - 1) % 3
      BY <3>2, <3>3, <3>4
    <3>8. ASSUME i % 3 # 1 PROVE (s \o t)[i][1] = (s \o t)[i - 1][1]
      <4>1. j % 3 # 1
        BY <3>4, <3>8
      <4> QED BY <4>1, <3>2, <3>3, <3>6
    <3> QED BY <3>7, <3>8
  <2>3. i <= a \/ i > a
    OBVIOUS
  <2> QED BY <2>1, <2>2, <2>3, Zenon
<1> QED BY <1>2, <1>3, <1>4, <1>5, <1>6 DEF Packets, PacketSize

\* The packets from one after m to n.
LEMMA PacketsPart ==
    ASSUME NEW s, Packets(s), NEW n \in 0 .. Len(s), NEW m \in 0 .. n,
           n % PacketSize = 0, m % PacketSize = 0
    PROVE  Packets(SubSeq(s, m + 1, n)) /\ Len(SubSeq(s, m + 1, n)) = n - m
<1> DEFINE t == SubSeq(s, m + 1, n)
<1>1. s \in Seq(Bytes) /\ m % 3 = 0 /\ n % 3 = 0 /\ n \in Nat /\ n <= Len(s) /\ m \in Nat /\ m <= n
  BY DEF Packets, PacketSize
<1>2. t \in Seq(Bytes) /\ Len(t) = n - m /\ \A i \in 1 .. n - m : t[i] = s[m + i]
  BY <1>1, PartOf
<1> HIDE DEF t
<1>3. (n - m) % 3 = 0
  BY <1>1
<1>4. ASSUME NEW i \in 1 .. n - m
      PROVE  t[i][2] = (i - 1) % 3 /\ (i % 3 # 1 => t[i][1] = t[i - 1][1])
  <2>1. PICK j \in 1 .. Len(s) : j = m + i
    BY <1>1
  <2>2. s[j][2] = (j - 1) % 3 /\ (j % 3 # 1 => s[j][1] = s[j - 1][1])
    BY DEF Packets, PacketSize
  <2>3. (j - 1) % 3 = (i - 1) % 3 /\ j % 3 = i % 3
    BY <2>1, <1>1
  <2>4. i % 3 # 1 => i - 1 \in 1 .. n - m /\ m + (i - 1) = j - 1
    BY <2>1, <1>1
  <2>5. i % 3 # 1 => t[i - 1] = s[j - 1]
    BY <2>4, <1>2
  <2> QED BY <1>2, <2>1, <2>2, <2>3, <2>5
<1>5. Packets(t)
  BY <1>2, <1>3, <1>4 DEF Packets, PacketSize
<1> QED BY <1>2, <1>5 DEF t

\* A reader's bytes and those waiting for it are packets.
LEMMA PacketsAreWhole == InputInv => PacketsWhole
<1> SUFFICES ASSUME InputInv, NEW r \in MouseReaders
             PROVE  LET bytes == got[r] \o mouse_fifo[r]
                    IN  \A i \in DOMAIN bytes :
                          /\ bytes[i][2] = (i - 1) % PacketSize
                          /\ i % PacketSize # 1 => bytes[i][1] = bytes[i - 1][1]
  BY DEF PacketsWhole
<1> DEFINE bytes == got[r] \o mouse_fifo[r]
<1>1. Packets(bytes)
  BY PacketsJoin DEF InputInv, MouseInv
<1> HIDE DEF bytes
<1>2. DOMAIN bytes = 1 .. Len(bytes)
  BY <1>1 DEF Packets
<1>3. \A i \in DOMAIN bytes :
          /\ bytes[i][2] = (i - 1) % PacketSize
          /\ i % PacketSize # 1 => bytes[i][1] = bytes[i - 1][1]
  BY <1>1, <1>2 DEF Packets
<1> QED BY <1>3 DEF bytes

LEMMA MinOfTwo ==
    ASSUME NEW a \in Nat, NEW b \in Nat
    PROVE  Min({a, b}) = IF a <= b THEN a ELSE b
<1> DEFINE least == IF a <= b THEN a ELSE b
<1>1. least \in {a, b} /\ \A y \in {a, b} : least <= y
  OBVIOUS
<1>2. \A x \in {a, b} : (\A y \in {a, b} : x <= y) => x = least
  OBVIOUS
<1> HIDE DEF least
<1>3. (CHOOSE x \in {a, b} : \A y \in {a, b} : x <= y) = least
  BY <1>1, <1>2
<1> QED BY <1>3 DEF Min, least

\* Nothing but got and read_index of a file changes what it still has to read.
LEMMA KeyFileKept ==
    ASSUME NEW r, KeyFileInv(r), keys' = keys,
           first'[r] = first[r], got'[r] = got[r], key_read_index'[r] = key_read_index[r]
    PROVE  KeyFileInv(r)'
BY DEF KeyFileInv, Passed

\* keyboard_read takes the code in the file's cell, if it takes one.
LEMMA TakeKeyInv ==
    ASSUME InputInv, NEW r \in KeyReaders, TakeKey(r),
           UNCHANGED <<key_buffer, key_write_index, keys, first>>
    PROVE  /\ KeyInv'
           /\ DOMAIN got' = InputReaders /\ DOMAIN key_read_index' = KeyReaders
           /\ \A x \in InputReaders : x # r => got'[x] = got[x]
<1>1. KeyBufferSize \in Nat \ {0} /\ r \in InputReaders
  BY InputAssumption DEF InputReaders
<1>2. /\ DOMAIN got = InputReaders /\ DOMAIN key_read_index = KeyReaders
      /\ RingInv /\ \A x \in KeyReaders : KeyFileInv(x)
  BY DEF InputInv, InputTypeOK, KeyInv
<1>3. RingInv'
  BY <1>2 DEF RingInv
<1>4. /\ DOMAIN got' = InputReaders /\ DOMAIN key_read_index' = KeyReaders
      /\ \A x \in InputReaders : x # r => got'[x] = got[x]
      /\ \A x \in KeyReaders : x # r => key_read_index'[x] = key_read_index[x]
  BY <1>2 DEF TakeKey
<1>5. \A x \in KeyReaders : x # r => KeyFileInv(x)'
  <2> SUFFICES ASSUME NEW x \in KeyReaders, x # r PROVE KeyFileInv(x)'
    OBVIOUS
  <2>1. x \in InputReaders /\ KeyFileInv(x) /\ keys' = keys /\ first'[x] = first[x]
    BY <1>2 DEF InputReaders
  <2> QED BY <2>1, <1>4, KeyFileKept
<1>6. KeyFileInv(r)'
  <2>1. CASE ~ TestReady(r)
    <3>1. got' = got /\ key_read_index' = key_read_index
      BY <2>1 DEF TakeKey
    <3> QED BY <3>1, <1>2, KeyFileKept
  <2>2. CASE TestReady(r)
    <3>1. key_read_index[r] # key_write_index
      BY <2>2, InputAssumption DEF TestReady
    <3>2. PICK f \in Nat : f = first[r]
      BY <1>2 DEF KeyFileInv
    <3>3. PICK g \in Nat : g = Len(got[r])
      BY <1>2 DEF KeyFileInv
    <3>4. PICK n \in Nat : n = Len(keys)
      BY <1>2 DEF RingInv
    <3>5. /\ got[r] \in Seq(Nat) /\ f + g <= n
          /\ key_read_index[r] = (f + g) % KeyBufferSize
          /\ n - (f + g) < KeyBufferSize => \A i \in 1 .. g : got[r][i] = f + i
      BY <1>2, <3>2, <3>3, <3>4 DEF KeyFileInv, Passed
    <3>6. /\ key_buffer \in [0 .. KeyBufferSize - 1 -> Nat]
          /\ key_write_index = n % KeyBufferSize
          /\ \A i \in 1 .. n : n - i < KeyBufferSize => key_buffer[(i - 1) % KeyBufferSize] = i
      BY <1>2, <3>4 DEF RingInv
    <3>7. /\ f + g \in Nat /\ (f + g) % KeyBufferSize \in 0 .. KeyBufferSize - 1
          /\ (((f + g) % KeyBufferSize) + 1) % KeyBufferSize = (f + g + 1) % KeyBufferSize
      <4>1. f + g \in Nat
        OBVIOUS
      <4>2. PICK u \in Nat : u = f + g
        BY <4>1
      <4>3. u % KeyBufferSize \in 0 .. KeyBufferSize - 1
        BY <1>1, RingCells
      <4>4. ((u % KeyBufferSize) + 1) % KeyBufferSize = (u + 1) % KeyBufferSize
        BY <1>1, RingCells
      <4> QED BY <4>1, <4>2, <4>3, <4>4
    <3>8. f + g < n
      <4>1. f + g # n
        BY <3>1, <3>5, <3>6
      <4> QED BY <4>1, <3>5
    <3>9. PICK c \in Nat : c = key_buffer[(f + g) % KeyBufferSize]
      BY <3>6, <3>7
    <3>10. /\ got'[r] = Append(got[r], c)
           /\ key_read_index'[r] = (key_read_index[r] + 1) % KeyBufferSize
      BY <1>1, <1>2, <2>2, <3>5, <3>9 DEF TakeKey
    <3>11. /\ got'[r] \in Seq(Nat) /\ Len(got'[r]) = g + 1
           /\ \A i \in 1 .. g : got'[r][i] = got[r][i]
           /\ got'[r][g + 1] = c
      BY <3>3, <3>5, <3>10
    <3>12. key_read_index'[r] = (f + g + 1) % KeyBufferSize
      BY <3>5, <3>7, <3>10
    <3>13. ASSUME n - (f + g + 1) < KeyBufferSize
           PROVE  \A i \in 1 .. g + 1 : got'[r][i] = f + i
      <4>1. n - (f + g) # KeyBufferSize
        <5>1. CASE n - (f + g) = KeyBufferSize
          <6>1. (f + g + KeyBufferSize) % KeyBufferSize = (f + g) % KeyBufferSize
            BY <1>1, <3>7, RingCells
          <6> QED BY <6>1, <5>1, <3>1, <3>5, <3>6
        <5> QED BY <5>1
      <4>2. n - (f + g) < KeyBufferSize
        BY <4>1, <3>13, <1>1
      <4>3. c = f + g + 1
        <5>1. f + g + 1 \in 1 .. n /\ n - (f + g + 1) < KeyBufferSize /\ (f + g + 1) - 1 = f + g
          BY <3>8, <3>13
        <5> QED BY <5>1, <3>6, <3>9
      <4>4. \A i \in 1 .. g : got'[r][i] = f + i
        BY <4>2, <3>5, <3>11
      <4>5. \A i \in 1 .. g + 1 : i \in 1 .. g \/ i = g + 1
        OBVIOUS
      <4>6. got'[r][g + 1] = f + (g + 1)
        BY <4>3, <3>11
      <4> QED BY <4>4, <4>5, <4>6
    <3>14. Len(got'[r]) = g + 1 /\ first'[r] = f /\ keys' = keys
      BY <3>2, <3>11
    <3>15. Passed(r)' = f + g + 1
      BY <3>14 DEF Passed
    <3> QED BY <3>4, <3>8, <3>11, <3>12, <3>13, <3>14, <3>15 DEF KeyFileInv
  <2> QED BY <2>1, <2>2
<1> QED BY <1>3, <1>4, <1>5, <1>6 DEF KeyInv

\* mouse_read takes packets from the front of the FIFO.
LEMMA TakeMouseInv ==
    ASSUME InputInv, NEW r \in MouseReaders, NEW size \in Nat, size % PacketSize = 0,
           TakeMouse(r, size), UNCHANGED mouse_packet
    PROVE  /\ MouseInv'
           /\ DOMAIN got' = InputReaders /\ DOMAIN mouse_fifo' = MouseReaders
           /\ \A x \in InputReaders : x # r => got'[x] = got[x]
<1> DEFINE fifo == mouse_fifo[r]
<1>1. r \in InputReaders
  BY DEF InputReaders
<1>2. /\ DOMAIN got = InputReaders /\ DOMAIN mouse_fifo = MouseReaders
      /\ MouseInv /\ Packets(fifo) /\ Packets(got[r])
  BY DEF InputInv, InputTypeOK, MouseInv
<1>3. PICK m \in Nat : m = Len(fifo)
  BY <1>2 DEF Packets
<1>4. PICK n \in Nat : n = Min({size, Len(fifo)}) /\ n <= m /\ n % PacketSize = 0
  <2>1. Min({size, m}) = IF size <= m THEN size ELSE m
    BY MinOfTwo
  <2>2. m % PacketSize = 0
    BY <1>2, <1>3 DEF Packets
  <2> QED BY <2>1, <2>2, <1>3
<1>5. /\ got' = [got EXCEPT ![r] = @ \o SubSeq(fifo, 1, n)]
      /\ mouse_fifo' = [mouse_fifo EXCEPT ![r] = SubSeq(@, n + 1, Len(@))]
  BY <1>4 DEF TakeMouse
<1>6. /\ got'[r] = got[r] \o SubSeq(fifo, 1, n)
      /\ mouse_fifo'[r] = SubSeq(fifo, n + 1, m)
      /\ \A x \in InputReaders : x # r => got'[x] = got[x]
      /\ \A x \in MouseReaders : x # r => mouse_fifo'[x] = mouse_fifo[x]
      /\ DOMAIN got' = InputReaders /\ DOMAIN mouse_fifo' = MouseReaders
  BY <1>1, <1>2, <1>3, <1>5
<1> HIDE DEF fifo
<1>7. Packets(SubSeq(fifo, 1, n))
  <2>1. n \in 0 .. Len(fifo) /\ 0 \in 0 .. n /\ 0 % PacketSize = 0 /\ 0 + 1 = 1
    BY <1>3, <1>4 DEF PacketSize
  <2>2. Packets(SubSeq(fifo, 0 + 1, n))
    BY <2>1, <1>2, <1>4, PacketsPart
  <2> QED BY <2>1, <2>2
<1>8. Packets(SubSeq(fifo, n + 1, m))
  <2>1. m \in 0 .. Len(fifo) /\ n \in 0 .. m /\ m % PacketSize = 0
    BY <1>2, <1>3, <1>4 DEF Packets
  <2> QED BY <2>1, <1>2, <1>4, PacketsPart
<1>9. Packets(got'[r]) /\ Packets(mouse_fifo'[r])
  BY <1>2, <1>6, <1>7, <1>8, PacketsJoin
<1>10. \A x \in MouseReaders : Packets(got'[x]) /\ Packets(mouse_fifo'[x])
  <2> SUFFICES ASSUME NEW x \in MouseReaders, x # r
               PROVE  Packets(got'[x]) /\ Packets(mouse_fifo'[x])
    BY <1>9
  <2>1. got'[x] = got[x] /\ mouse_fifo'[x] = mouse_fifo[x]
    BY <1>6 DEF InputReaders
  <2> QED BY <2>1, <1>2 DEF MouseInv
<1> QED BY <1>2, <1>6, <1>10 DEF MouseInv, Packets

\* Ring and keyboard files stay as they are when their own state does.
LEMMA KeysKept ==
    ASSUME InputInv, UNCHANGED <<key_buffer, key_write_index, keys>>,
           \A r \in KeyReaders : /\ first'[r] = first[r] /\ got'[r] = got[r]
                                 /\ key_read_index'[r] = key_read_index[r]
    PROVE  KeyInv'
<1>1. RingInv' /\ \A r \in KeyReaders : KeyFileInv(r)
  BY DEF InputInv, KeyInv, RingInv
<1>2. \A r \in KeyReaders : KeyFileInv(r)'
  BY <1>1, KeyFileKept
<1> QED BY <1>1, <1>2 DEF KeyInv

\* The same for mouse readers.
LEMMA MouseKept ==
    ASSUME InputInv, mouse_packet' = mouse_packet,
           \A r \in MouseReaders : got'[r] = got[r] /\ mouse_fifo'[r] = mouse_fifo[r]
    PROVE  MouseInv'
<1>1. \A r \in MouseReaders : Packets(got'[r]) /\ Packets(mouse_fifo'[r])
  BY DEF InputInv, MouseInv
<1>2. \A r \in MouseReaders : Packets(got[r])' /\ Packets(mouse_fifo[r])'
  BY <1>1 DEF Packets
<1> QED BY <1>2 DEF InputInv, MouseInv

\* A read keeps the invariant, whichever device it is of.
LEMMA TakeInv ==
    ASSUME InputInv, NEW r \in InputReaders, NEW size \in Nat, size % PacketSize = 0,
           Take(r, size),
           UNCHANGED <<key_buffer, key_write_index, mouse_packet, budget, keys, first, wanted>>
    PROVE  InputInv'
<1>1. /\ DOMAIN got = InputReaders /\ DOMAIN key_read_index = KeyReaders
      /\ DOMAIN mouse_fifo = MouseReaders
      /\ InputTypeOK
  BY DEF InputInv, InputTypeOK
<1>2. CASE r \in KeyReaders /\ TakeKey(r)
  <2>1. KeyInv' /\ DOMAIN got' = InputReaders /\ DOMAIN key_read_index' = KeyReaders
    BY <1>2, TakeKeyInv
  <2>2. mouse_fifo' = mouse_fifo
    BY <1>2 DEF TakeKey
  <2>3. \A x \in MouseReaders : got'[x] = got[x]
    <3>1. \A x \in InputReaders : x # r => got'[x] = got[x]
      BY <1>2, TakeKeyInv
    <3> QED BY <3>1, <1>2, InputAssumption DEF InputReaders
  <2>4. MouseInv'
    BY <2>2, <2>3, MouseKept
  <2> QED BY <1>1, <2>1, <2>2, <2>4 DEF InputInv, InputTypeOK
<1>3. CASE r \in MouseReaders /\ TakeMouse(r, size)
  <2>1. MouseInv' /\ DOMAIN got' = InputReaders /\ DOMAIN mouse_fifo' = MouseReaders
    BY <1>3, TakeMouseInv
  <2>2. key_read_index' = key_read_index
    BY <1>3 DEF TakeMouse
  <2>3. \A x \in KeyReaders : got'[x] = got[x]
    <3>1. \A x \in InputReaders : x # r => got'[x] = got[x]
      BY <1>3, TakeMouseInv
    <3> QED BY <3>1, <1>3, InputAssumption DEF InputReaders
  <2>4. KeyInv'
    BY <2>2, <2>3, KeysKept
  <2> QED BY <1>1, <2>1, <2>2, <2>4 DEF InputInv, InputTypeOK
<1>4. CASE r \in SerialReaders /\ TakeSerial(r, size)
  <2>1. /\ DOMAIN got' = InputReaders /\ key_read_index' = key_read_index
        /\ mouse_fifo' = mouse_fifo
        /\ \A x \in InputReaders : x # r => got'[x] = got[x]
    BY <1>1, <1>4 DEF TakeSerial
  <2>2. \A x \in KeyReaders \cup MouseReaders : got'[x] = got[x]
    BY <2>1, <1>4, InputAssumption DEF InputReaders
  <2>3. KeyInv' /\ MouseInv'
    BY <2>1, <2>2, KeysKept, MouseKept
  <2> QED BY <1>1, <2>1, <2>3 DEF InputInv, InputTypeOK
<1> QED BY <1>2, <1>3, <1>4 DEF Take

\* A new file starts at the cell the next code will be in.
LEMMA OpenInv ==
    ASSUME InputInv, NEW r \in InputReaders, NEW nonblock \in BOOLEAN,
           OpenDevice(r, nonblock)
    PROVE  InputInv'
<1>1. /\ DOMAIN got = InputReaders /\ DOMAIN key_read_index = KeyReaders
      /\ DOMAIN mouse_fifo = MouseReaders /\ DOMAIN first = InputReaders
      /\ InputTypeOK /\ RingInv /\ MouseInv /\ \A x \in KeyReaders : KeyFileInv(x)
  BY DEF InputInv, InputTypeOK, KeyInv
<1>2. /\ got' = [got EXCEPT ![r] = <<>>] /\ first' = [first EXCEPT ![r] = Len(keys)]
      /\ keys' = keys /\ key_buffer' = key_buffer /\ key_write_index' = key_write_index
      /\ mouse_packet' = mouse_packet /\ budget' = budget /\ wanted' = wanted
  BY DEF OpenDevice
<1>3. /\ DOMAIN key_read_index' = KeyReaders
      /\ \A x \in KeyReaders : key_read_index'[x] =
              IF x = r THEN key_write_index ELSE key_read_index[x]
  BY <1>1 DEF OpenDevice, NewReadIndex
<1>4. /\ DOMAIN mouse_fifo' = MouseReaders
      /\ \A x \in MouseReaders : mouse_fifo'[x] = IF x = r THEN <<>> ELSE mouse_fifo[x]
  BY <1>1 DEF OpenDevice
<1>5. /\ DOMAIN got' = InputReaders /\ DOMAIN first' = InputReaders
      /\ \A x \in InputReaders : /\ got'[x] = IF x = r THEN <<>> ELSE got[x]
                                /\ first'[x] = IF x = r THEN Len(keys) ELSE first[x]
  BY <1>1, <1>2
<1>6. InputTypeOK'
  BY <1>1, <1>2, <1>3, <1>4, <1>5 DEF InputTypeOK
<1>7. RingInv'
  BY <1>1, <1>2 DEF RingInv
<1>8. ASSUME NEW x \in KeyReaders PROVE KeyFileInv(x)'
  <2>1. x \in InputReaders /\ KeyFileInv(x)
    BY <1>1 DEF InputReaders
  <2>2. CASE x # r
    BY <2>1, <2>2, <1>2, <1>3, <1>5, KeyFileKept
  <2>3. CASE x = r
    <3>1. PICK n \in Nat : n = Len(keys) /\ key_write_index = n % KeyBufferSize
      BY <1>1 DEF RingInv
    <3>2. /\ got'[x] = <<>> /\ first'[x] = n /\ Len(keys') = n
          /\ key_read_index'[x] = n % KeyBufferSize
      BY <2>1, <2>3, <3>1, <1>2, <1>3, <1>5
    <3>3. <<>> \in Seq(Nat) /\ Len(<<>>) = 0
      OBVIOUS
    <3> QED BY <3>2, <3>3 DEF KeyFileInv, Passed
  <2> QED BY <2>2, <2>3
<1>9. Packets(<<>>)
  <2>1. <<>> \in Seq(Bytes) /\ Len(<<>>) = 0 /\ 0 % 3 = 0
    OBVIOUS
  <2> QED BY <2>1 DEF Packets, PacketSize
<1>10. ASSUME NEW x \in MouseReaders PROVE Packets(got'[x]) /\ Packets(mouse_fifo'[x])
  <2>1. Packets(got[x]) /\ Packets(mouse_fifo[x]) /\ x \in InputReaders
    BY <1>1 DEF MouseInv, InputReaders
  <2> QED BY <2>1, <1>4, <1>5, <1>9
<1>11. MouseInv'
  <2>1. \A x \in MouseReaders : Packets(got[x])' /\ Packets(mouse_fifo[x])'
    BY <1>10 DEF Packets
  <2> QED BY <2>1, <1>1, <1>2 DEF MouseInv
<1> QED BY <1>6, <1>7, <1>8, <1>11 DEF InputInv, KeyInv

\* A step that leaves buffers and what was read alone keeps the invariant.
LEMMA QuietInv ==
    ASSUME InputInv, UNCHANGED <<bufferVars, historyVars>>,
           wanted' \in [InputReaders -> Nat],
           \A r \in InputReaders : wanted'[r] % PacketSize = 0
    PROVE  InputInv'
<1>1. UNCHANGED <<key_buffer, key_write_index, key_read_index, mouse_packet, mouse_fifo,
                  budget, keys, first, got>>
  BY DEF bufferVars, historyVars
<1>2. KeyInv' /\ MouseInv'
  BY <1>1, KeysKept, MouseKept
<1> QED BY <1>1, <1>2 DEF InputInv, InputTypeOK

\* A call either takes what is there or notes the size it waits for.
LEMMA ReadInv ==
    ASSUME InputInv, NEW r \in InputReaders, NEW size \in MouseReadSizes, ReadDevice(r, size)
    PROVE  InputInv'
<1>1. size \in Nat /\ size % PacketSize = 0
  BY WholePacketReads
<1>2. wanted \in [InputReaders -> Nat] /\ \A x \in InputReaders : wanted[x] % PacketSize = 0
  BY DEF InputInv, InputTypeOK
<1>3. CASE TestReady(r) \/ r \in non_blocking
  BY <1>1, <1>3, TakeInv DEF ReadDevice
<1>4. CASE ~ (TestReady(r) \/ r \in non_blocking)
  <2>1. /\ UNCHANGED <<bufferVars, historyVars>>
        /\ wanted' = [wanted EXCEPT ![r] = size]
    BY <1>4 DEF ReadDevice, bufferVars, historyVars
  <2>2. /\ wanted' \in [InputReaders -> Nat]
        /\ \A x \in InputReaders : wanted'[x] = IF x = r THEN size ELSE wanted[x]
    BY <1>1, <1>2, <2>1
  <2>3. \A x \in InputReaders : wanted'[x] % PacketSize = 0
    BY <1>1, <1>2, <2>2
  <2> QED BY <2>1, <2>2, <2>3, QuietInv
<1> QED BY <1>3, <1>4

\* A scan code overwrites the cell of the one KeyBufferSize before it: an
\* unread code, only if the file is overrun.
LEMMA KeyInterruptInv ==
    ASSUME InputInv, KeyInterrupt
    PROVE  InputInv'
<1>1. KeyBufferSize \in Nat \ {0}
  BY InputAssumption
<1>2. RingInv /\ InputTypeOK /\ \A r \in KeyReaders : KeyFileInv(r)
  BY DEF InputInv, KeyInv
<1>3. PICK n \in Nat : n = Len(keys)
  BY <1>2 DEF RingInv
<1>4. PICK cell \in 0 .. KeyBufferSize - 1 : cell = n % KeyBufferSize
  BY <1>1, RingCells
<1>5. /\ keys \in Seq(Nat) /\ key_buffer \in [0 .. KeyBufferSize - 1 -> Nat]
      /\ key_write_index = cell
      /\ \A i \in 1 .. n :
            keys[i] = i /\ (n - i < KeyBufferSize =>
                              key_buffer[(i - 1) % KeyBufferSize] = i)
  BY <1>2, <1>3, <1>4 DEF RingInv
<1>6. /\ keys' = Append(keys, n + 1)
      /\ key_buffer' = [key_buffer EXCEPT ![cell] = n + 1]
      /\ key_write_index' = (cell + 1) % KeyBufferSize
      /\ UNCHANGED <<key_read_index, mouse_packet, mouse_fifo, wanted, first, got>>
  BY <1>3, <1>5 DEF KeyInterrupt
<1>7. /\ keys' \in Seq(Nat) /\ Len(keys') = n + 1 /\ keys'[n + 1] = n + 1
      /\ \A i \in 1 .. n : keys'[i] = keys[i]
  BY <1>3, <1>5, <1>6
<1>8. /\ key_buffer' \in [0 .. KeyBufferSize - 1 -> Nat]
      /\ key_buffer'[cell] = n + 1
      /\ \A c \in 0 .. KeyBufferSize - 1 : c # cell => key_buffer'[c] = key_buffer[c]
  BY <1>5, <1>6
<1>9. key_write_index' = (n + 1) % KeyBufferSize
  <2>1. ((n % KeyBufferSize) + 1) % KeyBufferSize = (n + 1) % KeyBufferSize
    BY <1>1, RingCells
  <2> QED BY <2>1, <1>4, <1>6
<1>10. ASSUME NEW i \in 1 .. n, (n + 1) - i < KeyBufferSize
       PROVE  key_buffer'[(i - 1) % KeyBufferSize] = i
  <2>1. PICK x \in Nat : x = i - 1
    OBVIOUS
  <2>2. PICK d \in 1 .. KeyBufferSize - 1 : n = x + d
    <3>1. n - x \in 1 .. KeyBufferSize - 1 /\ n = x + (n - x)
      BY <1>1, <2>1, <1>10
    <3> QED BY <3>1
  <2>3. x % KeyBufferSize \in 0 .. KeyBufferSize - 1 /\ (x + d) % KeyBufferSize # x % KeyBufferSize
    <3>1. d \in Nat
      BY <1>1
    <3> QED BY <3>1, <1>1, RingCells
  <2>4. key_buffer'[x % KeyBufferSize] = key_buffer[x % KeyBufferSize]
    BY <2>2, <2>3, <1>4, <1>8
  <2>5. n - i < KeyBufferSize
    BY <1>1, <1>10
  <2> QED BY <2>1, <2>4, <2>5, <1>5
<1>11. ASSUME NEW i \in 1 .. n + 1
       PROVE  /\ keys'[i] = i
              /\ (n + 1) - i < KeyBufferSize => key_buffer'[(i - 1) % KeyBufferSize] = i
  <2>1. CASE i = n + 1
    <3>1. i - 1 = n
      BY <2>1
    <3> QED BY <2>1, <3>1, <1>4, <1>7, <1>8
  <2>2. CASE i # n + 1
    <3>1. i \in 1 .. n
      BY <2>2
    <3> QED BY <3>1, <1>5, <1>7, <1>10
  <2> QED BY <2>1, <2>2
<1>12. RingInv'
  BY <1>7, <1>8, <1>9, <1>11 DEF RingInv
<1>13. ASSUME NEW r \in KeyReaders PROVE KeyFileInv(r)'
  <2>1. KeyFileInv(r) /\ first'[r] = first[r] /\ got'[r] = got[r]
        /\ key_read_index'[r] = key_read_index[r]
    BY <1>2, <1>6
  <2>2. PICK p \in Nat : p = Passed(r) /\ p <= n
    BY <2>1, <1>3 DEF KeyFileInv, Passed
  <2>3. Passed(r)' = p /\ p <= n + 1 /\ ((n + 1) - p < KeyBufferSize => n - p < KeyBufferSize)
    BY <1>1, <2>1, <2>2 DEF Passed
  <2> QED BY <1>3, <1>7, <2>1, <2>2, <2>3 DEF KeyFileInv
<1>14. MouseInv'
  BY <1>6, MouseKept
<1>15. InputTypeOK'
  <2>1. budget' \in [{"key", "mouse", "serial"} -> Nat]
    BY <1>2 DEF KeyInterrupt, Delivers, InputTypeOK
  <2> QED BY <2>1, <1>2, <1>6 DEF InputTypeOK
<1> QED BY <1>12, <1>13, <1>14, <1>15 DEF InputInv, KeyInv

\* A packet joins a FIFO whole or, if the FIFO is full, not at all.
LEMMA EnqueuedPackets ==
    ASSUME NEW fifo, NEW packet, Packets(fifo), Packets(packet)
    PROVE  Packets(Enqueued(fifo, packet, MouseFifoSize))
<1> DEFINE all == fifo \o packet
<1>1. Packets(all)
  BY PacketsJoin
<1> HIDE DEF all
<1>2. PICK n \in Nat : n = Len(all) /\ n % PacketSize = 0
  BY <1>1 DEF Packets
<1>3. PICK m \in Nat : m = Min({MouseFifoSize, Len(all)}) /\ m <= n /\ m % PacketSize = 0
  <2>1. Min({MouseFifoSize, n}) = IF MouseFifoSize <= n THEN MouseFifoSize ELSE n
    BY MinOfTwo, InputAssumption
  <2> QED BY <2>1, <1>2, InputAssumption
<1>4. Packets(SubSeq(all, 0 + 1, m))
  <2>1. m \in 0 .. Len(all) /\ 0 \in 0 .. m /\ 0 % PacketSize = 0
    BY <1>2, <1>3 DEF PacketSize
  <2> QED BY <2>1, <1>1, <1>3, PacketsPart
<1>5. Enqueued(fifo, packet, MouseFifoSize) = SubSeq(all, 0 + 1, m)
  BY <1>3 DEF Enqueued, all
<1> QED BY <1>4, <1>5

\* The third byte completes a packet for every open file.
LEMMA MouseInterruptInv ==
    ASSUME InputInv, MouseInterrupt
    PROVE  InputInv'
<1> DEFINE i == Len(mouse_packet)
           number == IF i = 0 THEN budget.mouse ELSE mouse_packet[1][1]
           packet == Append(mouse_packet, <<number, i>>)
<1>1. /\ UNCHANGED <<key_buffer, key_write_index, key_read_index, wanted, keys, first, got>>
      /\ Delivers("mouse")
      /\ IF PacketComplete(packet)
         THEN /\ mouse_packet' = <<>>
              /\ mouse_fifo' = [r \in MouseReaders |->
                                    IF r \in open
                                    THEN Enqueued(mouse_fifo[r], packet, MouseFifoSize)
                                    ELSE mouse_fifo[r]]
         ELSE mouse_packet' = packet /\ UNCHANGED mouse_fifo
  BY DEF MouseInterrupt
<1>2. InputTypeOK /\ MouseInv
  BY DEF InputInv
<1>3. mouse_packet \in Seq(Bytes) /\ i \in 0 .. 2
  <2>1. mouse_packet \in Seq(Bytes) /\ i < 3
    BY <1>2 DEF MouseInv, PacketSize
  <2>2. i \in Nat
    BY <2>1
  <2> HIDE DEF i
  <2>3. i \in 0 .. 2
    BY <2>1, <2>2
  <2> QED BY <2>1, <2>3
<1>4. number \in Nat
  <2>1. CASE i = 0
    BY <2>1, <1>2 DEF InputTypeOK
  <2>2. CASE i # 0
    <3>1. mouse_packet[1] \in Bytes
      BY <1>3, <2>2
    <3> QED BY <2>2, <3>1 DEF Bytes
  <2> QED BY <2>1, <2>2
<1>5. PICK num \in Nat : num = number
  BY <1>4
<1>6. PICK byte \in Bytes : byte = <<num, i>>
  <2>1. <<num, i>> \in Nat \X Nat
    BY <1>3
  <2> QED BY <2>1 DEF Bytes
<1>7. byte[1] = num /\ byte[2] = i
  BY <1>6
<1>8. packet = Append(mouse_packet, byte)
  <2> HIDE DEF i, number
  <2> QED BY <1>5, <1>6
<1>9. PICK n \in 0 .. 2 : n = Len(mouse_packet)
  BY <1>3
<1>10. PICK p \in Seq(Bytes) : p = packet /\ p = Append(mouse_packet, byte)
  <2> HIDE DEF i, packet
  <2>1. Append(mouse_packet, byte) \in Seq(Bytes)
    BY <1>3
  <2> QED BY <2>1, <1>8
<1>11. Len(p) = n + 1 /\ p[n + 1] = byte /\ \A j \in 1 .. n : p[j] = mouse_packet[j]
  BY <1>3, <1>9, <1>10
<1>12. \A j \in 1 .. n + 1 : p[j][2] = j - 1 /\ p[j][1] = num
  <2>1. ASSUME NEW j \in 1 .. n PROVE p[j][2] = j - 1 /\ p[j][1] = num
    <3>1. num = mouse_packet[1][1]
      BY <1>5, <1>9
    <3>2. mouse_packet[j][2] = j - 1 /\ mouse_packet[j][1] = mouse_packet[1][1]
      BY <1>2, <1>9 DEF MouseInv
    <3> QED BY <3>1, <3>2, <1>11
  <2>2. p[n + 1][2] = n /\ p[n + 1][1] = num
    BY <1>7, <1>9, <1>11
  <2>3. \A j \in 1 .. n + 1 : j \in 1 .. n \/ (j = n + 1 /\ j - 1 = n)
    OBVIOUS
  <2> QED BY <2>1, <2>2, <2>3
<1>13. /\ DOMAIN mouse_fifo = MouseReaders
       /\ \A r \in MouseReaders : Packets(got[r]) /\ Packets(mouse_fifo[r])
  BY <1>2 DEF InputTypeOK, MouseInv
<1> HIDE DEF i, number, packet
<1>14. ASSUME PacketComplete(packet)
       PROVE  MouseInv' /\ DOMAIN mouse_fifo' = MouseReaders
  <2>1. Len(p) = 3 /\ n = 2
    BY <1>10, <1>11, <1>14 DEF PacketComplete, PacketSize
  <2>2. Packets(p)
    <3>1. Len(p) % 3 = 0
      BY <2>1
    <3>2. ASSUME NEW j \in 1 .. 3
          PROVE  p[j][2] = (j - 1) % 3 /\ (j % 3 # 1 => p[j][1] = p[j - 1][1])
      <4>1. p[j][2] = j - 1 /\ p[j][1] = num /\ (j - 1) % 3 = j - 1
        BY <1>12, <2>1
      <4>2. j % 3 # 1 => j - 1 \in 1 .. n + 1
        BY <2>1
      <4>3. j % 3 # 1 => p[j - 1][1] = num
        BY <4>2, <1>12
      <4> QED BY <4>1, <4>3
    <3> QED BY <2>1, <3>1, <3>2 DEF Packets, PacketSize
  <2>3. /\ mouse_packet' = <<>> /\ DOMAIN mouse_fifo' = MouseReaders
        /\ \A r \in MouseReaders :
              mouse_fifo'[r] = IF r \in open THEN Enqueued(mouse_fifo[r], p, MouseFifoSize)
                                             ELSE mouse_fifo[r]
    BY <1>1, <1>10, <1>14
  <2>4. \A r \in MouseReaders : Packets(got'[r]) /\ Packets(mouse_fifo'[r])
    BY <1>1, <1>13, <2>2, <2>3, EnqueuedPackets
  <2>5. MouseInv'
    <3>1. \A r \in MouseReaders : Packets(got[r])' /\ Packets(mouse_fifo[r])'
      BY <2>4 DEF Packets
    <3>2. <<>> \in Seq(Bytes) /\ Len(<<>>) = 0 /\ 0 < 3
      OBVIOUS
    <3>3. /\ mouse_packet' \in Seq(Bytes) /\ Len(mouse_packet') < 3
          /\ \A j \in 1 .. Len(mouse_packet') :
                /\ mouse_packet'[j][2] = j - 1
                /\ mouse_packet'[j][1] = mouse_packet'[1][1]
      BY <2>3, <3>2
    <3> QED BY <3>1, <3>3 DEF MouseInv, PacketSize
  <2> QED BY <2>3, <2>5
<1>15. ASSUME ~ PacketComplete(packet)
       PROVE  MouseInv' /\ DOMAIN mouse_fifo' = MouseReaders
  <2>1. mouse_packet' = p /\ mouse_fifo' = mouse_fifo
    BY <1>1, <1>10, <1>15
  <2>2. Len(p) < 3
    BY <1>10, <1>11, <1>15 DEF PacketComplete, PacketSize
  <2>3. \A r \in MouseReaders : Packets(got[r])' /\ Packets(mouse_fifo[r])'
    BY <1>1, <1>13, <2>1 DEF Packets
  <2>4. \A j \in 1 .. Len(p) : p[j][2] = j - 1 /\ p[j][1] = p[1][1]
    BY <1>11, <1>12
  <2>5. MouseInv'
    <3>1. /\ mouse_packet' \in Seq(Bytes) /\ Len(mouse_packet') < 3
          /\ \A j \in 1 .. Len(mouse_packet') :
                /\ mouse_packet'[j][2] = j - 1
                /\ mouse_packet'[j][1] = mouse_packet'[1][1]
      BY <1>10, <2>1, <2>2, <2>4
    <3> QED BY <2>3, <3>1 DEF MouseInv, PacketSize
  <2> QED BY <1>13, <2>1, <2>5
<1>16. MouseInv' /\ DOMAIN mouse_fifo' = MouseReaders
  BY <1>14, <1>15
<1>17. KeyInv'
  BY <1>1, KeysKept
<1>18. budget' \in [{"key", "mouse", "serial"} -> Nat]
  BY <1>1, <1>2 DEF Delivers, InputTypeOK
<1> QED BY <1>1, <1>2, <1>16, <1>17, <1>18 DEF InputInv, InputTypeOK

\* The serial line has a buffer of its own.
LEMMA SerialInterruptInv ==
    ASSUME InputInv, SerialInterrupt
    PROVE  InputInv'
<1>1. UNCHANGED <<key_buffer, key_write_index, key_read_index, mouse_packet, mouse_fifo,
                  wanted, keys, first, got>>
  BY DEF SerialInterrupt
<1>2. KeyInv' /\ MouseInv'
  BY <1>1, KeysKept, MouseKept
<1>3. budget' \in [{"key", "mouse", "serial"} -> Nat]
  BY DEF SerialInterrupt, Delivers, InputInv, InputTypeOK
<1> QED BY <1>1, <1>2, <1>3 DEF InputInv, InputTypeOK

\* Every step of a reader or a device keeps the invariant.
LEMMA InputStep == InputInv /\ [InputNext]_inputVars => InputInv'
<1> SUFFICES ASSUME InputInv, [InputNext]_inputVars PROVE InputInv'
  OBVIOUS
<1>1. wanted \in [InputReaders -> Nat] /\ \A x \in InputReaders : wanted[x] % PacketSize = 0
  BY DEF InputInv, InputTypeOK
<1>2. ASSUME NEW r \in InputReaders, NEW nonblock \in BOOLEAN, OpenDevice(r, nonblock)
      PROVE  InputInv'
  BY <1>2, OpenInv
<1>3. ASSUME NEW r \in InputReaders, NEW size \in MouseReadSizes, ReadDevice(r, size)
      PROVE  InputInv'
  BY <1>3, ReadInv
<1>4. ASSUME NEW r \in InputReaders,
             CloseDevice(r) \/ SetReadMode(r) \/ TestAgain(r) \/ SleepAgain(r)
      PROVE  InputInv'
  <2>1. UNCHANGED <<bufferVars, historyVars, wanted>>
    BY <1>4 DEF CloseDevice, SetReadMode, TestAgain, SleepAgain
  <2> QED BY <1>1, <2>1, QuietInv
<1>5. ASSUME NEW r \in InputReaders, FinishRead(r) PROVE InputInv'
  <2>1. wanted[r] \in Nat /\ wanted[r] % PacketSize = 0
    BY <1>1
  <2> QED BY <2>1, <1>5, TakeInv DEF FinishRead
<1>6. ASSUME NEW r, RunReader(r) PROVE InputInv'
  BY <1>1, <1>6, QuietInv DEF RunReader
<1>7. CASE KeyInterrupt
  BY <1>7, KeyInterruptInv
<1>8. CASE MouseInterrupt
  BY <1>8, MouseInterruptInv
<1>9. CASE SerialInterrupt
  BY <1>9, SerialInterruptInv
<1>10. CASE UNCHANGED inputVars
  BY <1>1, <1>10, QuietInv DEF inputVars, bufferVars, historyVars
<1> QED BY <1>2, <1>3, <1>4, <1>5, <1>6, <1>7, <1>8, <1>9, <1>10 DEF InputNext

\* What interrupts put into the buffers, readers get in order and whole.
THEOREM InputsAreOrdered == InputSpec => []InputInOrder
<1>1. InputInv => InputInOrder
  BY KeysAreInOrder, PacketsAreWhole DEF InputInOrder
<1> QED BY <1>1, InputInitInv, InputStep, PTL DEF InputSpec

=============================================================================
