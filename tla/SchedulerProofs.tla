--------------------------- MODULE SchedulerProofs ---------------------------
(***************************************************************************)
(* TLAPS proofs about Scheduler for any number of process slots, any       *)
(* signal queue length and any sleep times: the type invariant, the        *)
(* integrity of the thread list, that the current thread is allocated,     *)
(* that a waiting parent keeps a child to wait for, and that the processor *)
(* is only given to runnable threads.                                      *)
(***************************************************************************)
EXTENDS Scheduler, SequenceTheorems, TLAPS

Distinct(seq) == \A i, j \in 1 .. Len(seq) : seq[i] = seq[j] => i = j

\* Appending a new element.
LEMMA AppendFacts ==
    ASSUME NEW S, NEW seq \in Seq(S), NEW e \in S
    PROVE  /\ Append(seq, e) \in Seq(S)
           /\ Members(Append(seq, e)) = Members(seq) \cup {e}
           /\ Distinct(seq) /\ e \notin Members(seq) => Distinct(Append(seq, e))
<1>1. /\ Append(seq, e) \in Seq(S) /\ Len(Append(seq, e)) = Len(seq) + 1
      /\ \A i \in 1 .. Len(seq) : Append(seq, e)[i] = seq[i]
      /\ Append(seq, e)[Len(seq) + 1] = e
      /\ Len(seq) \in Nat
  OBVIOUS
<1> DEFINE app == Append(seq, e)
<1> HIDE DEF app
<1>2. Members(app) = Members(seq) \cup {e}
  BY <1>1 DEF Members, app
<1>3. Distinct(seq) /\ e \notin Members(seq) => Distinct(app)
  BY <1>1 DEF Members, Distinct, app
<1> QED BY <1>1, <1>2, <1>3 DEF app

\* Unlinking the element at position i.
LEMMA UnlinkFacts ==
    ASSUME NEW S, NEW seq \in Seq(S), NEW i \in 1 .. Len(seq), Distinct(seq)
    PROVE  /\ Unlink(seq, i) \in Seq(S)
           /\ Members(Unlink(seq, i)) = Members(seq) \ {seq[i]}
           /\ Distinct(Unlink(seq, i))
<1> DEFINE u == Unlink(seq, i)
           a == SubSeq(seq, 1, i - 1)
           b == SubSeq(seq, i + 1, Len(seq))
<1>1. /\ a \in Seq(S) /\ Len(a) = i - 1
      /\ \A k \in 1 .. i - 1 : a[k] = seq[k]
  OBVIOUS
<1>2. /\ b \in Seq(S) /\ Len(b) = Len(seq) - i
      /\ \A k \in 1 .. Len(seq) - i : b[k] = seq[i + k]
  OBVIOUS
<1>3. u = a \o b
  BY DEF Unlink
<1>4. i \in Nat /\ Len(seq) \in Nat /\ i >= 1 /\ i <= Len(seq)
  OBVIOUS
<1> HIDE DEF u, a, b
<1>5. /\ u \in Seq(S) /\ Len(u) = Len(seq) - 1
      /\ \A k \in 1 .. Len(seq) - 1 : u[k] = IF k < i THEN seq[k] ELSE seq[k + 1]
  <2>1. /\ u \in Seq(S) /\ Len(u) = Len(seq) - 1
        /\ \A k \in 1 .. Len(u) : u[k] = IF k <= Len(a) THEN a[k] ELSE b[k - Len(a)]
    <3>1. /\ a \o b \in Seq(S) /\ Len(a \o b) = Len(a) + Len(b)
          /\ \A k \in 1 .. Len(a) + Len(b) :
                (a \o b)[k] = IF k <= Len(a) THEN a[k] ELSE b[k - Len(a)]
      <4>1. a \in Seq(S) /\ b \in Seq(S)
        BY <1>1, <1>2
      <4> QED BY <4>1, ConcatProperties
    <3>2. Len(a) + Len(b) = Len(seq) - 1
      BY <1>1, <1>2, <1>4
    <3> QED BY <1>3, <3>1, <3>2
  <2>2. ASSUME NEW k \in 1 .. Len(seq) - 1
        PROVE  u[k] = IF k < i THEN seq[k] ELSE seq[k + 1]
    <3>1. CASE k < i
      BY <2>1, <1>1, <1>4, <3>1
    <3>2. CASE ~(k < i)
      <4>1. k - (i - 1) \in 1 .. Len(seq) - i /\ i + (k - (i - 1)) = k + 1
        BY <1>4, <3>2
      <4>2. b[k - (i - 1)] = seq[k + 1]
        BY <4>1, <1>2
      <4> QED BY <2>1, <1>1, <1>4, <3>2, <4>2
    <3> QED BY <3>1, <3>2
  <2> QED BY <2>1, <2>2
<1>6. Distinct(u)
  BY <1>4, <1>5 DEF Distinct
<1>7. Members(u) = Members(seq) \ {seq[i]}
  <2>1. Members(u) \subseteq Members(seq) \ {seq[i]}
    BY <1>4, <1>5 DEF Distinct, Members
  <2>2. ASSUME NEW x \in Members(seq), x # seq[i]
        PROVE  x \in Members(u)
    <3>1. PICK j \in 1 .. Len(seq) : x = seq[j]
      BY DEF Members
    <3>2. CASE j < i
      <4>1. j \in 1 .. Len(u) /\ u[j] = x
        BY <1>4, <1>5, <3>1, <3>2
      <4> QED BY <4>1 DEF Members
    <3>3. CASE j > i
      <4>1. j - 1 \in 1 .. Len(u) /\ u[j - 1] = x
        BY <1>4, <1>5, <3>1, <3>3
      <4> QED BY <4>1 DEF Members
    <3> QED BY <2>2, <3>1, <3>2, <3>3, <1>4
  <2> QED BY <2>1, <2>2
<1> QED BY <1>5, <1>6, <1>7 DEF u

\* What look_threads returns: the idle thread or a runnable thread of the
\* search order; a thread's state changes only if its sleep or select is due.
LEMMA LookThreadsFacts ==
    ASSUME NEW order \in Seq(Slot), NEW T, NEW st \in [Slot -> T],
           NEW due \in SUBSET Slot
    PROVE  LET look == LookThreads(order, st, due) IN
           /\ look.state \in [Slot -> T \cup {"RUN"}]
           /\ \A t \in Slot : \/ look.state[t] = st[t]
                              \/ t \in due /\ look.state[t] = "RUN"
           /\ \/ look.thread = Idle
              \/ /\ look.thread \in Members(order)
                 /\ look.state[look.thread] = "RUN"
<1> DEFINE Updated(t) == IF t \in due THEN "RUN" ELSE st[t]
           Visited(i) == \A j \in 1 .. i - 1 : Updated(order[j]) # "RUN"
           Found(i) == Visited(i) /\ Updated(order[i]) = "RUN"
           At == 1 .. Len(order)
           Reached(t) == \E i \in At : order[i] = t /\ Visited(i)
           look == LookThreads(order, st, due)
           after == [t \in Slot |-> IF Reached(t) THEN Updated(t) ELSE st[t]]
           Some == \E i \in At : Found(i)
           first == CHOOSE i \in At : Found(i)
           th == IF Some THEN order[first] ELSE Idle
<1>1. look = [thread |-> th, state |-> after]
  BY DEF LookThreads
<1>2. look.thread = th /\ look.state = after
  BY <1>1
<1>3. Some => first \in At /\ Found(first)
  OBVIOUS
<1>4. \A i \in At : Found(i) => Reached(order[i])
  OBVIOUS
<1>5. \A i \in At : Found(i) => Updated(order[i]) = "RUN"
  OBVIOUS
<1>6. \A i \in At : order[i] \in Slot /\ order[i] \in Members(order)
  BY DEF Members
<1> HIDE DEF Reached, Found, Visited, first, Some, At
<1>7. ASSUME NEW t \in Slot
      PROVE  /\ after[t] = st[t] \/ (t \in due /\ after[t] = "RUN")
             /\ after[t] \in T \cup {"RUN"}
             /\ Reached(t) => after[t] = Updated(t)
  <2>1. after[t] = IF Reached(t) THEN Updated(t) ELSE st[t]
    OBVIOUS
  <2>2. st[t] \in T
    OBVIOUS
  <2> HIDE DEF after
  <2> QED BY <2>1, <2>2
<1>8. after \in [Slot -> T \cup {"RUN"}]
  BY <1>7
<1> HIDE DEF look, after, Updated
<1>9. th = Idle \/ (th \in Members(order) /\ after[th] = "RUN")
  <2>1. CASE Some
    <3>1. first \in At /\ Reached(order[first]) /\ Updated(order[first]) = "RUN"
      BY <2>1, <1>3, <1>4, <1>5
    <3>2. order[first] \in Slot /\ order[first] \in Members(order)
      BY <3>1, <1>6
    <3> QED BY <2>1, <3>1, <3>2, <1>7
  <2>2. CASE ~ Some
    BY <2>2
  <2> QED BY <2>1, <2>2
<1> HIDE DEF th
<1> QED BY <1>2, <1>7, <1>8, <1>9 DEF look

IInv == TypeOK /\ ListIntact /\ CurrentIsAllocated /\ WaiterHasChild

LEMMA PositionFacts ==
    ASSUME IInv, NEW t \in Live
    PROVE  Position(t) \in 1 .. Len(list) /\ list[Position(t)] = t /\ t \in Slot
<1>1. \E i \in 1 .. Len(list) : list[i] = t
  BY DEF Live, Members
<1> QED BY <1>1, SMTT(20) DEF Position, IInv, TypeOK

\* The search order visits threads of the list only.
LEMMA SearchOrderFacts ==
    ASSUME IInv
    PROVE  SearchOrder(current) \in Seq(Slot) /\ Members(SearchOrder(current)) \subseteq Live
<1>0. list \in Seq(Slot) /\ Len(list) \in Nat
  BY DEF IInv, TypeOK
<1>1. CASE current \in Live
  <2> DEFINE k == Position(current)
             a == SubSeq(list, k + 1, Len(list))
             b == SubSeq(list, 1, k)
             n == Len(list)
  <2>1. k \in 1 .. n
    BY <1>1, PositionFacts
  <2>2. SearchOrder(current) = a \o b
    BY <1>1 DEF SearchOrder
  <2> HIDE DEF k
  <2>3. a \in Seq(Slot) /\ Len(a) = n - k /\ \A i \in 1 .. n - k : a[i] = list[k + i]
    BY <1>0, <2>1
  <2>4. b \in Seq(Slot) /\ Len(b) = k /\ \A i \in 1 .. k : b[i] = list[i]
    BY <1>0, <2>1
  <2> HIDE DEF a, b
  <2>5. /\ a \o b \in Seq(Slot) /\ Len(a \o b) = n
        /\ \A i \in 1 .. n : (a \o b)[i] = IF i <= n - k THEN a[i] ELSE b[i - (n - k)]
    <3>1. Len(a) + Len(b) = n
      BY <1>0, <2>1, <2>3, <2>4
    <3>2. /\ a \o b \in Seq(Slot) /\ Len(a \o b) = Len(a) + Len(b)
          /\ \A i \in 1 .. Len(a) + Len(b) :
                (a \o b)[i] = IF i <= Len(a) THEN a[i] ELSE b[i - Len(a)]
      BY <2>3, <2>4, ConcatProperties
    <3> QED BY <3>1, <3>2, <2>3
  <2>6. ASSUME NEW i \in 1 .. n
        PROVE  \E j \in 1 .. n : (a \o b)[i] = list[j]
    <3>1. CASE i <= n - k
      <4>1. (a \o b)[i] = list[k + i] /\ k + i \in 1 .. n
        BY <1>0, <2>1, <2>3, <2>5, <3>1
      <4> QED BY <4>1
    <3>2. CASE ~(i <= n - k)
      <4>1. i - (n - k) \in 1 .. k /\ i - (n - k) \in 1 .. n
        BY <1>0, <2>1, <3>2
      <4>2. (a \o b)[i] = list[i - (n - k)]
        BY <2>4, <2>5, <3>2, <4>1
      <4> QED BY <4>1, <4>2
    <3> QED BY <3>1, <3>2
  <2> QED BY <2>2, <2>5, <2>6, SMTT(20) DEF Members, Live
<1>2. CASE current \notin Live
  BY <1>0, <1>2 DEF SearchOrder, Live
<1> QED BY <1>1, <1>2

-----------------------------------------------------------------------------
\* A step that relinks nothing keeps the other parts of the invariant if it
\* neither allocates nor frees a thread and puts none into TS_WAITCHILD.
LEMMA SameListSwitch ==
    ASSUME IInv, TypeOK', UNCHANGED <<list, parent>>,
           current' \in Live \cup {Idle, NULL},
           \A t \in Slot : state'[t] = "FREE" <=> state[t] = "FREE",
           \A t \in Slot : state'[t] = "WAITCHILD" => state[t] = "WAITCHILD"
    PROVE  IInv'
<1>2. Live' = Live /\ Live \subseteq Slot
  <2>1. list \in Seq(Slot) /\ list' = list
    BY DEF IInv, TypeOK
  <2> QED BY <2>1 DEF Live, Members
<1>1. ListIntact'
  BY <1>2 DEF IInv, ListIntact
<1>3. CurrentIsAllocated'
  BY <1>2 DEF CurrentIsAllocated
<1>4. WaiterHasChild'
  BY <1>2 DEF IInv, WaiterHasChild
<1> QED BY <1>1, <1>3, <1>4 DEF IInv

LEMMA SameListSteps ==
    ASSUME IInv, TypeOK', UNCHANGED <<list, parent, current>>,
           \A t \in Slot : state'[t] = "FREE" <=> state[t] = "FREE",
           \A t \in Slot : state'[t] = "WAITCHILD" => state[t] = "WAITCHILD"
    PROVE  IInv'
<1>1. current' \in Live \cup {Idle, NULL}
  BY DEF IInv, CurrentIsAllocated
<1> QED BY <1>1, SameListSwitch

LEMMA InitInv == Init => IInv
<1> SUFFICES ASSUME Init PROVE IInv
  OBVIOUS
<1>1. list \in Seq(Slot) /\ Len(list) = BootCount
  BY SchedulerAssumption DEF Init
<1>2. TypeOK
  <2>1. \A t \in Slot : signals[t] = <<>> /\ Len(signals[t]) <= SIGNAL_QUEUE_SIZE
    BY SchedulerAssumption DEF Init
  <2>2. signals \in [Slot -> Seq(Signal)]
    BY DEF Init
  <2>3. state \in [Slot -> ThreadState \cup {"FREE"}] /\ sleep \in [Slot -> 0 .. MaxSleep]
    BY SchedulerAssumption DEF Init, ThreadState
  <2>4. parent \in [Slot -> Slot \cup {Idle, NULL}] /\ where \in [Slot -> Where]
    BY DEF Init, Where
  <2> QED BY <1>1, <2>1, <2>2, <2>3, <2>4 DEF TypeOK, Init
<1>3. ListIntact
  <2>1. \A t \in Slot : state[t] # "FREE" <=> t \in Live
    BY DEF Init
  <2> QED BY <1>1, <2>1 DEF Init, ListIntact
<1>4. CurrentIsAllocated
  BY DEF Init, CurrentIsAllocated
<1>5. WaiterHasChild
  <2>1. \A t \in Slot : state[t] # "WAITCHILD"
    BY DEF Init
  <2> QED BY <1>1, <2>1 DEF WaiterHasChild, Live, Members
<1> QED BY <1>2, <1>3, <1>4, <1>5 DEF IInv

\* thread_signal keeps the queue within its size and frees nobody.
LEMMA SignalFacts ==
    ASSUME TypeOK, NEW t \in Slot, NEW sig \in Signal, thread_signal(t, sig)
    PROVE  /\ signals' \in [Slot -> Seq(Signal)]
           /\ \A u \in Slot : Len(signals'[u]) <= SIGNAL_QUEUE_SIZE
           /\ state' \in [Slot -> ThreadState \cup {"FREE"}]
           /\ \A u \in Slot : state'[u] = "WAITCHILD" => state[u] = "WAITCHILD"
           /\ state[t] # "FREE" =>
                \A u \in Slot : state'[u] = "FREE" <=> state[u] = "FREE"
<1>1. ASSUME NEW u \in Slot
      PROVE  signals'[u] \in Seq(Signal) /\ Len(signals'[u]) <= SIGNAL_QUEUE_SIZE
  <2>1. signals[u] \in Seq(Signal) /\ Len(signals[u]) <= SIGNAL_QUEUE_SIZE
    BY DEF TypeOK
  <2>2. signals'[u] = signals[u] \/ (/\ signals'[u] = Append(signals[u], sig)
                                    /\ Len(signals[u]) < SIGNAL_QUEUE_SIZE)
    BY DEF thread_signal, TypeOK
  <2>3. Len(Append(signals[u], sig)) = Len(signals[u]) + 1 /\ Len(signals[u]) \in Nat
    BY <2>1
  <2>4. Append(signals[u], sig) \in Seq(Signal)
    BY <2>1
  <2>5. CASE signals'[u] = signals[u]
    BY <2>1, <2>5
  <2>6. CASE signals'[u] = Append(signals[u], sig) /\ Len(signals[u]) < SIGNAL_QUEUE_SIZE
    <3>1. Len(signals'[u]) = Len(signals[u]) + 1 /\ SIGNAL_QUEUE_SIZE \in Nat
      BY <2>3, <2>6, SchedulerAssumption
    <3>2. Len(signals'[u]) <= SIGNAL_QUEUE_SIZE
      BY <2>3, <2>6, <3>1
    <3> QED BY <2>4, <2>6, <3>2
  <2> QED BY <2>2, <2>5, <2>6
<1>2. signals' \in [Slot -> Seq(Signal)]
  BY <1>1 DEF thread_signal, TypeOK
<1>3. /\ StateAfterSignal(t, sig) \in {"RUN", state[t]}
      /\ state' = [state EXCEPT ![t] = StateAfterSignal(t, sig)]
  BY DEF thread_signal, StateAfterSignal
<1> QED BY <1>1, <1>2, <1>3 DEF TypeOK, ThreadState

LEMMA SignalSteps ==
    ASSUME IInv, NEW t \in Slot, NEW sig \in Signal, t \in Live,
           thread_signal(t, sig), where' \in [Slot -> Where],
           UNCHANGED <<list, parent, sleep, current>>
    PROVE  IInv'
<1>1. TypeOK
  BY DEF IInv
<1>2. TypeOK'
  BY <1>1, SignalFacts DEF TypeOK
<1>3. state[t] # "FREE"
  BY DEF IInv, ListIntact
<1> QED BY <1>1, <1>2, <1>3, SignalFacts, SameListSteps

\* A thread that enters the kernel is in the list.
LEMMA UserIsLive ==
    ASSUME IInv, NEW t \in Slot, current = t
    PROVE  t \in Live /\ state[t] # "FREE"
BY SchedulerAssumption DEF IInv, CurrentIsAllocated, ListIntact

\* Exit, faults, blocking calls, wake-ups and signals.
LEMMA CallsInv ==
    ASSUME IInv, NEW t \in Slot,
           \/ Exit(t) \/ Fault(t)
           \/ \E target \in Slot, sig \in Sent : Kill(t, target, sig)
           \/ \E sig \in Sent : TerminalSignal(t, sig)
           \/ \E child \in Slot : Wait(t, child)
           \/ \E ticks \in 0 .. MaxSleep : Sleep(t, ticks)
           \/ Select(t)
           \/ \E others \in SUBSET Slot : BlockOnIo(t, others)
           \/ Return(t) \/ IoWake(t)
    PROVE  IInv'
<1>0. TypeOK /\ Sent \subseteq Signal /\ "TERM" \in Signal
  BY SchedulerAssumption DEF IInv, Signal
<1>1. CASE Exit(t) \/ Fault(t)
  <2>1. thread_signal(t, "TERM") /\ UNCHANGED <<list, parent, sleep, current>>
    BY <1>1 DEF Exit, Fault, RaiseAndHalt
  <2>2. where' \in [Slot -> Where]
    BY <1>0, <1>1 DEF Exit, Fault, RaiseAndHalt, TypeOK, Where
  <2>3. t \in Live
    BY <1>1, UserIsLive DEF Exit, Fault, InUser
  <2> QED BY <1>0, <2>1, <2>2, <2>3, SignalSteps
<1>2. ASSUME NEW target \in Slot, NEW sig \in Sent, Kill(t, target, sig)
      PROVE  IInv'
  <2>1. where' \in [Slot -> Where]
    BY <1>0, <1>2 DEF Kill, TypeOK
  <2> QED BY <1>0, <1>2, <2>1, SignalSteps DEF Kill, process_signal
<1>3. ASSUME NEW sig \in Sent, TerminalSignal(t, sig)
      PROVE  IInv'
  <2>1. where' \in [Slot -> Where]
    BY <1>0, <1>3 DEF TerminalSignal, TypeOK
  <2> QED BY <1>0, <1>3, <2>1, SignalSteps
          DEF TerminalSignal, process_signal
<1>4. ASSUME NEW child \in Slot, Wait(t, child)
      PROVE  IInv'
  <2>1. t \in Live /\ state[t] # "FREE"
    BY <1>4, UserIsLive DEF Wait, InUser
  <2>2. TypeOK'
    BY <1>0, <1>4 DEF Wait, TypeOK, Where, ThreadState
  <2>3. Live' = Live /\ Live \subseteq Slot
    BY <1>0, <1>4 DEF Wait, Live, Members, TypeOK
  <2>4. \A u \in Slot : state'[u] = IF u = t THEN "WAITCHILD" ELSE state[u]
    BY <1>0, <1>4 DEF Wait, TypeOK
  <2>5. ListIntact'
    BY <1>4, <2>1, <2>3, <2>4 DEF Wait, IInv, ListIntact
  <2>6. CurrentIsAllocated'
    BY <1>4, <2>3 DEF Wait, IInv, CurrentIsAllocated
  <2>7. WaiterHasChild'
    BY <1>4, <2>3, <2>4 DEF Wait, IInv, WaiterHasChild
  <2> QED BY <2>2, <2>5, <2>6, <2>7 DEF IInv
<1>5. ASSUME NEW ticks \in 0 .. MaxSleep, Sleep(t, ticks)
      PROVE  IInv'
  <2>1. state[t] # "FREE"
    BY <1>5, UserIsLive DEF Sleep, InUser
  <2>2. TypeOK'
    BY <1>0, <1>5 DEF Sleep, TypeOK, Where, ThreadState
  <2> QED BY <1>0, <1>5, <2>1, <2>2, SameListSteps DEF Sleep, TypeOK
<1>6. CASE Select(t)
  <2>1. state[t] # "FREE"
    BY <1>6, UserIsLive DEF Select, InUser
  <2>2. TypeOK'
    BY <1>0, <1>6 DEF Select, TypeOK, Where, ThreadState
  <2> QED BY <1>0, <1>6, <2>1, <2>2, SameListSteps DEF Select, TypeOK
<1>7. ASSUME NEW others \in SUBSET Slot, BlockOnIo(t, others)
      PROVE  IInv'
  <2>1. state[t] # "FREE" /\ \A u \in others : state[u] # "FREE"
    BY <1>7, UserIsLive DEF BlockOnIo, InUser, IInv, ListIntact
  <2>2. TypeOK'
    <3>1. sleep' \in [Slot -> 0 .. MaxSleep]
      BY <1>0, <1>7, SchedulerAssumption DEF BlockOnIo, TypeOK
    <3> QED BY <1>0, <1>7, <3>1 DEF BlockOnIo, TypeOK, Where, ThreadState
  <2> QED BY <1>0, <1>7, <2>1, <2>2, SameListSteps DEF BlockOnIo, TypeOK
<1>8. CASE Return(t)
  <2>2. TypeOK'
    BY <1>0, <1>8 DEF Return, TypeOK, Where
  <2> QED BY <1>0, <1>8, <2>2, SameListSteps DEF Return
<1>9. CASE IoWake(t)
  <2>2. TypeOK'
    BY <1>0, <1>9 DEF IoWake, TypeOK, ThreadState
  <2> QED BY <1>0, <1>9, <2>2, SameListSteps DEF IoWake, TypeOK
<1> QED BY <1>1, <1>2, <1>3, <1>4, <1>5, <1>6, <1>7, <1>8, <1>9

-----------------------------------------------------------------------------
\* A new thread at the end of the list.
LEMMA ExecuteInv ==
    ASSUME IInv, NEW t \in Slot, NEW child \in Slot, Execute(t, child)
    PROVE  IInv'
<1>0. TypeOK
  BY DEF IInv
<1>1. child \notin Live /\ state[child] = "FREE"
  BY DEF IInv, ListIntact, Execute
<1>2. list \in Seq(Slot) /\ Distinct(list)
  BY DEF IInv, ListIntact, TypeOK, Distinct
<1>3. list' \in Seq(Slot) /\ Live' = Live \cup {child} /\ Distinct(list')
  BY <1>1, <1>2, AppendFacts DEF Execute, Link, Live
<1>4. /\ state' \in [Slot -> ThreadState \cup {"FREE"}]
      /\ \A u \in Slot : state'[u] = IF u = child THEN "RUN" ELSE state[u]
  BY <1>0 DEF Execute, TypeOK, ThreadState
<1>5. /\ parent' \in [Slot -> Slot \cup {Idle, NULL}]
      /\ \A u \in Slot : u # child => parent'[u] = parent[u]
  BY <1>0 DEF Execute, TypeOK
<1>6. TypeOK'
  BY <1>0, <1>3, <1>4, <1>5 DEF Execute, TypeOK
<1>7. ListIntact'
  BY <1>3, <1>4 DEF IInv, ListIntact, Distinct
<1>8. CurrentIsAllocated'
  BY <1>3 DEF Execute, IInv, CurrentIsAllocated
<1>9. WaiterHasChild'
  <2>1. Live \subseteq Slot
    BY <1>2 DEF Live, Members
  <2> QED BY <1>1, <1>3, <1>4, <1>5, <2>1 DEF IInv, WaiterHasChild
<1> QED BY <1>6, <1>7, <1>8, <1>9 DEF IInv

\* process_destroy frees one thread and resumes the parent if it waits.
LEMMA DestroyFacts ==
    ASSUME NEW st \in [Slot -> ThreadState \cup {"FREE"}], NEW p \in Slot,
           NEW woken \in SUBSET (Waiting(st) \ {p})
    PROVE  LET after == StateAfterDestroy(st, p, woken) IN
           /\ after \in [Slot -> ThreadState \cup {"FREE"}]
           /\ \A t \in Slot : after[t] = "FREE" <=> (t = p \/ st[t] = "FREE")
           /\ \A t \in Slot : after[t] = "WAITCHILD" =>
                                st[t] = "WAITCHILD" /\ t # parent[p]
<1> DEFINE after == StateAfterDestroy(st, p, woken)
<1>1. after = [t \in Slot |->
                 IF t = p THEN "FREE"
                 ELSE IF t \in woken \/ (t = parent[p] /\ st[t] = "WAITCHILD")
                      THEN "RUN" ELSE st[t]]
  BY DEF StateAfterDestroy
<1>2. \A t \in woken : st[t] = "WAITIO"
  BY DEF Waiting
<1> HIDE DEF after
<1>3. after \in [Slot -> ThreadState \cup {"FREE"}]
  BY <1>1 DEF ThreadState
<1>4. \A t \in Slot : after[t] =
                 IF t = p THEN "FREE"
                 ELSE IF t \in woken \/ (t = parent[p] /\ st[t] = "WAITCHILD")
                      THEN "RUN" ELSE st[t]
  BY <1>1
<1>5. \A t \in Slot : after[t] = "FREE" <=> (t = p \/ st[t] = "FREE")
  BY <1>2, <1>4
<1>6. \A t \in Slot : after[t] = "WAITCHILD" => st[t] = "WAITCHILD" /\ t # parent[p]
  BY <1>2, <1>4
<1> QED BY <1>3, <1>5, <1>6 DEF after

LEMMA ExecveInv ==
    ASSUME IInv, NEW t \in Slot, NEW new \in Slot, NEW woken \in SUBSET Slot,
           Execve(t, new, woken)
    PROVE  IInv'
<1>0. TypeOK /\ list \in Seq(Slot) /\ Distinct(list)
  BY DEF IInv, ListIntact, TypeOK, Distinct
<1>1. t \in Live /\ state[t] # "FREE"
  BY UserIsLive DEF Execve, InUser
<1>2. Position(t) \in 1 .. Len(list) /\ list[Position(t)] = t
  BY <1>1, PositionFacts
<1> DEFINE ul == Unlink(list, Position(t))
           sd == StateAfterDestroy(state, t, woken)
<1>3. ul \in Seq(Slot) /\ Members(ul) = Live \ {t} /\ Distinct(ul)
  BY <1>0, <1>2, UnlinkFacts DEF Live
<1>4. /\ sd \in [Slot -> ThreadState \cup {"FREE"}]
      /\ \A u \in Slot : sd[u] = "FREE" <=> (u = t \/ state[u] = "FREE")
      /\ \A u \in Slot : sd[u] = "WAITCHILD" =>
                           state[u] = "WAITCHILD" /\ u # parent[t]
  <2>1. woken \in SUBSET (Waiting(state) \ {t}) /\ state \in [Slot -> ThreadState \cup {"FREE"}]
    BY <1>0 DEF Execve, TypeOK
  <2> QED BY <2>1, DestroyFacts
<1>5. list' = Append(ul, new) /\ state' = [sd EXCEPT ![new] = "RUN"]
  BY DEF Execve, Link
<1> HIDE DEF ul, sd
<1>6. new \notin Live /\ state[new] = "FREE" /\ new # t
  BY <1>1 DEF IInv, ListIntact, Execve
<1>7. list' \in Seq(Slot) /\ Live' = (Live \ {t}) \cup {new} /\ Distinct(list')
  BY <1>3, <1>5, <1>6, AppendFacts DEF Live
<1>8. /\ state' \in [Slot -> ThreadState \cup {"FREE"}]
      /\ \A u \in Slot : state'[u] = IF u = new THEN "RUN" ELSE sd[u]
  BY <1>4, <1>5 DEF ThreadState
<1>9. /\ parent' \in [Slot -> Slot \cup {Idle, NULL}]
      /\ \A u \in Slot : u # new /\ u # t => parent'[u] = parent[u]
  BY <1>0 DEF Execve, TypeOK
<1>10. TypeOK'
  <2>1. /\ signals' \in [Slot -> Seq(Signal)]
        /\ \A u \in Slot : Len(signals'[u]) <= SIGNAL_QUEUE_SIZE
    <3>1. signals' = [signals EXCEPT ![t] = <<>>]
      BY DEF Execve
    <3>2. \A u \in Slot : signals'[u] = <<>> \/ signals'[u] = signals[u]
      BY <1>0, <3>1 DEF TypeOK
    <3>3. Len(<<>>) <= SIGNAL_QUEUE_SIZE
      BY SchedulerAssumption
    <3> QED BY <1>0, <3>1, <3>2, <3>3 DEF TypeOK
  <2>2. sleep' \in [Slot -> 0 .. MaxSleep] /\ where' \in [Slot -> Where]
    BY <1>0, SchedulerAssumption DEF Execve, TypeOK, Where
  <2> QED BY <1>7, <1>8, <1>9, <2>1, <2>2 DEF Execve, TypeOK
<1>11. ListIntact'
  BY <1>4, <1>6, <1>7, <1>8 DEF IInv, ListIntact, Distinct
<1>12. CurrentIsAllocated'
  BY DEF Execve, CurrentIsAllocated
<1>13. WaiterHasChild'
  <2> SUFFICES ASSUME NEW u \in Live', state'[u] = "WAITCHILD"
               PROVE  \E c \in Live' : parent'[c] = u
    BY DEF WaiterHasChild
  <2>1. Live \subseteq Slot
    BY <1>0 DEF Live, Members
  <2>2. u \in Live /\ state[u] = "WAITCHILD" /\ u # parent[t]
    BY <1>4, <1>7, <1>8, <2>1
  <2>3. PICK c \in Live : parent[c] = u
    BY <2>2 DEF IInv, WaiterHasChild
  <2>4. c # t /\ c # new /\ c \in Slot
    BY <1>6, <2>1, <2>2, <2>3
  <2> QED BY <1>7, <1>9, <2>3, <2>4
<1> QED BY <1>10, <1>11, <1>12, <1>13 DEF IInv

-----------------------------------------------------------------------------
(* schedule() *)

LEMMA TickFacts ==
    ASSUME TypeOK
    PROVE  SleepAfterTick \in [Slot -> 0 .. MaxSleep]
BY SchedulerAssumption DEF TypeOK, SleepAfterTick

\* The first search: it resumes only sleeping and selecting threads.
LEMMA PickFacts ==
    ASSUME IInv, NEW finished \in SUBSET {t \in Slot : state[t] = "SELECT"}
    PROVE  LET due == Due(finished)
               pick == LookThreads(SearchOrder(current), state, due) IN
           /\ due \in SUBSET Slot
           /\ \A t \in due : state[t] \in {"SLEEP", "SELECT"}
           /\ pick.state \in [Slot -> ThreadState \cup {"FREE"}]
           /\ \A t \in Slot : pick.state[t] = "FREE" <=> state[t] = "FREE"
           /\ \A t \in Slot : pick.state[t] = "WAITCHILD" => state[t] = "WAITCHILD"
           /\ \/ pick.thread = Idle
              \/ pick.thread \in Live /\ pick.state[pick.thread] = "RUN"
<1> DEFINE due == Due(finished)
           T == ThreadState \cup {"FREE"}
           pick == LookThreads(SearchOrder(current), state, due)
<1>1. due \in SUBSET Slot /\ \A t \in due : state[t] \in {"SLEEP", "SELECT"}
  BY DEF Due
<1>2. SearchOrder(current) \in Seq(Slot) /\ Members(SearchOrder(current)) \subseteq Live
  BY SearchOrderFacts
<1>3. state \in [Slot -> T]
  BY DEF IInv, TypeOK
<1>4. T \cup {"RUN"} = T
  BY DEF ThreadState
<1> HIDE DEF due, T
<1>5. /\ pick.state \in [Slot -> T \cup {"RUN"}]
      /\ \A t \in Slot : \/ pick.state[t] = state[t]
                         \/ t \in due /\ pick.state[t] = "RUN"
      /\ \/ pick.thread = Idle
         \/ /\ pick.thread \in Members(SearchOrder(current))
            /\ pick.state[pick.thread] = "RUN"
  BY <1>1, <1>2, <1>3, LookThreadsFacts
<1> HIDE DEF pick
<1> QED BY <1>1, <1>2, <1>4, <1>5 DEF due, pick, T

LEMMA ScheduleRunInv ==
    ASSUME IInv, NEW pick, ScheduleRun(pick),
           pick.state \in [Slot -> ThreadState \cup {"FREE"}],
           \A t \in Slot : pick.state[t] = "FREE" <=> state[t] = "FREE",
           \A t \in Slot : pick.state[t] = "WAITCHILD" => state[t] = "WAITCHILD",
           pick.thread \in Live \cup {Idle}
    PROVE  IInv'
<1>0. TypeOK /\ Live \subseteq Slot
  BY SMTT(20) DEF IInv, TypeOK, Live, Members
<1>1. ASSUME NEW u \in Slot
      PROVE  signals'[u] \in Seq(Signal) /\ Len(signals'[u]) <= SIGNAL_QUEUE_SIZE
  <2>1. signals[u] \in Seq(Signal) /\ Len(signals[u]) <= SIGNAL_QUEUE_SIZE
        /\ Len(signals[u]) \in Nat /\ SIGNAL_QUEUE_SIZE \in Nat
    BY <1>0, SchedulerAssumption DEF TypeOK
  <2>2. CASE signals'[u] = signals[u]
    BY <2>1, <2>2
  <2>3. CASE signals'[u] = Tail(signals[u]) /\ signals[u] # <<>>
    <3>1. /\ Tail(signals[u]) \in Seq(Signal)
          /\ Len(Tail(signals[u])) = Len(signals[u]) - 1
      BY <2>1, <2>3
    <3> QED BY <2>1, <2>3, <3>1
  <2>4. signals'[u] = IF u = pick.thread /\ HasSignal(u) THEN Tail(signals[u]) ELSE signals[u]
    BY DEF ScheduleRun
  <2> QED BY <2>2, <2>3, <2>4 DEF HasSignal
<1>2. signals' \in [Slot -> Seq(Signal)]
  BY <1>1 DEF ScheduleRun
<1>3. TypeOK'
  BY <1>0, <1>1, <1>2, TickFacts DEF ScheduleRun, TypeOK
<1> QED BY <1>3, SameListSwitch DEF ScheduleRun

\* The second search, after a process is destroyed.
LEMMA ScheduleKillInv ==
    ASSUME IInv, NEW due \in SUBSET Slot, NEW pick, ScheduleKill(pick, due),
           \A t \in due : state[t] \in {"SLEEP", "SELECT"},
           pick.state \in [Slot -> ThreadState \cup {"FREE"}],
           \A t \in Slot : pick.state[t] = "FREE" <=> state[t] = "FREE",
           \A t \in Slot : pick.state[t] = "WAITCHILD" => state[t] = "WAITCHILD",
           pick.thread \in Live \cup {Idle}
    PROVE  IInv' /\ (current' = Idle \/ state'[current'] = "RUN")
<1> DEFINE p == pick.thread
           T == ThreadState \cup {"FREE"}
<1>0. TypeOK /\ list \in Seq(Slot) /\ Distinct(list) /\ Live \subseteq Slot
  BY SMTT(20) DEF IInv, ListIntact, TypeOK, Distinct, Live, Members
<1>1. p \in Live /\ p \in Slot
  BY <1>0 DEF ScheduleKill, HasSignal
<1>2. Position(p) \in 1 .. Len(list) /\ list[Position(p)] = p
  BY <1>1, PositionFacts
<1> DEFINE ul == Unlink(list, Position(p))
<1>3. ul \in Seq(Slot) /\ Members(ul) = Live \ {p} /\ Distinct(ul)
  BY <1>0, <1>2, UnlinkFacts DEF Live
<1>4. PICK woken \in SUBSET (Waiting(pick.state) \ {p}) :
        \E again \in {LookThreads(ul, StateAfterDestroy(pick.state, p, woken), due \ {p})} :
           state' = again.state /\ current' = again.thread
  BY DEF ScheduleKill
<1> DEFINE sd == StateAfterDestroy(pick.state, p, woken)
           again == LookThreads(ul, sd, due \ {p})
<1>5. state' = again.state /\ current' = again.thread
  BY <1>4
<1>6. list' = ul
  BY DEF ScheduleKill
<1>7. /\ sd \in [Slot -> T]
      /\ \A u \in Slot : sd[u] = "FREE" <=> (u = p \/ pick.state[u] = "FREE")
      /\ \A u \in Slot : sd[u] = "WAITCHILD" =>
                           pick.state[u] = "WAITCHILD" /\ u # parent[p]
  BY <1>1, DestroyFacts
<1>8. \A u \in due : sd[u] = "FREE" <=> u = p
  BY <1>7
<1>9. T \cup {"RUN"} = T
  BY DEF ThreadState
<1> HIDE DEF p, T, ul, sd
<1>10. /\ again.state \in [Slot -> T \cup {"RUN"}]
       /\ \A u \in Slot : \/ again.state[u] = sd[u]
                          \/ u \in due \ {p} /\ again.state[u] = "RUN"
       /\ \/ again.thread = Idle
          \/ again.thread \in Members(ul) /\ again.state[again.thread] = "RUN"
  <2> DEFINE rest == due \ {p}
  <2>1. rest \in SUBSET Slot
    OBVIOUS
  <2> HIDE DEF rest
  <2>2. again = LookThreads(ul, sd, rest)
    BY DEF rest
  <2>0. ul \in Seq(Slot) /\ sd \in [Slot -> T]
    BY <1>3, <1>7
  <2>3. LET look == LookThreads(ul, sd, rest) IN
        /\ look.state \in [Slot -> T \cup {"RUN"}]
        /\ \A u \in Slot : \/ look.state[u] = sd[u]
                           \/ u \in rest /\ look.state[u] = "RUN"
        /\ \/ look.thread = Idle
           \/ look.thread \in Members(ul) /\ look.state[look.thread] = "RUN"
    BY <2>0, <2>1, LookThreadsFacts
  <2> HIDE DEF again
  <2> QED BY <2>2, <2>3 DEF rest
<1> HIDE DEF again
<1>11. /\ \A u \in Slot : state'[u] = "FREE" <=> (u = p \/ state[u] = "FREE")
       /\ \A u \in Slot : state'[u] = "WAITCHILD" =>
                            state[u] = "WAITCHILD" /\ u # parent[p]
       /\ state' \in [Slot -> T]
  BY <1>5, <1>7, <1>8, <1>9, <1>10
<1>12. Live' = Live \ {p}
  BY <1>3, <1>6 DEF Live
<1>13. current' = Idle \/ (current' \in Live' /\ state'[current'] = "RUN")
  BY <1>3, <1>5, <1>10, <1>12
<1>14. /\ parent' \in [Slot -> Slot \cup {Idle, NULL}]
       /\ \A u \in Slot : u # p => parent'[u] = parent[u]
  BY <1>0 DEF ScheduleKill, TypeOK, p
<1>15. TypeOK'
  <2>1. /\ signals' \in [Slot -> Seq(Signal)]
        /\ \A u \in Slot : Len(signals'[u]) <= SIGNAL_QUEUE_SIZE
    <3>1. signals' = [signals EXCEPT ![p] = <<>>]
      BY DEF ScheduleKill, p
    <3>2. \A u \in Slot : signals'[u] = <<>> \/ signals'[u] = signals[u]
      BY <1>0, <3>1 DEF TypeOK
    <3>3. Len(<<>>) <= SIGNAL_QUEUE_SIZE
      BY SchedulerAssumption
    <3> QED BY <1>0, <1>1, <3>1, <3>2, <3>3 DEF TypeOK
  <2>2. sleep' \in [Slot -> 0 .. MaxSleep]
    <3>1. sleep' = [SleepAfterTick EXCEPT ![p] = 0]
      BY DEF ScheduleKill, p
    <3> QED BY <1>0, <1>1, <3>1, TickFacts, SchedulerAssumption
  <2>3. where' \in [Slot -> Where]
    BY <1>0 DEF ScheduleKill, TypeOK, Where
  <2>4. current' \in Slot \cup {Idle, NULL}
    BY <1>0, <1>12, <1>13
  <2> QED BY <1>3, <1>6, <1>11, <1>14, <2>1, <2>2, <2>3, <2>4 DEF TypeOK, T
<1>16. ListIntact'
  <2>1. \A i, j \in 1 .. Len(list') : list'[i] = list'[j] => i = j
    BY <1>3, <1>6 DEF Distinct
  <2>2. \A u \in Slot : u \in Live <=> state[u] # "FREE"
    BY DEF IInv, ListIntact
  <2>3. \A u \in Slot : u \in Live' <=> state'[u] # "FREE"
    BY <1>11, <1>12, <2>2
  <2> QED BY <2>1, <2>3 DEF ListIntact
<1>17. CurrentIsAllocated'
  BY <1>13 DEF CurrentIsAllocated
<1>18. WaiterHasChild'
  <2> SUFFICES ASSUME NEW u \in Live', state'[u] = "WAITCHILD"
               PROVE  \E c \in Live' : parent'[c] = u
    BY DEF WaiterHasChild
  <2>1. u \in Live /\ state[u] = "WAITCHILD" /\ u # parent[p]
    BY <1>0, <1>11, <1>12
  <2>2. PICK c \in Live : parent[c] = u
    BY <2>1 DEF IInv, WaiterHasChild
  <2>3. c # p /\ c \in Slot
    BY <1>0, <2>1, <2>2
  <2> QED BY <1>12, <1>14, <2>2, <2>3
<1> QED BY <1>13, <1>15, <1>16, <1>17, <1>18 DEF IInv

\* The second search, after a thread is suspended.
LEMMA ScheduleStopInv ==
    ASSUME IInv, NEW due \in SUBSET Slot, NEW pick, ScheduleStop(pick, due),
           \A t \in due : state[t] \in {"SLEEP", "SELECT"},
           pick.state \in [Slot -> ThreadState \cup {"FREE"}],
           \A t \in Slot : pick.state[t] = "FREE" <=> state[t] = "FREE",
           \A t \in Slot : pick.state[t] = "WAITCHILD" => state[t] = "WAITCHILD",
           pick.thread \in Live \cup {Idle}
    PROVE  IInv' /\ (current' = Idle \/ state'[current'] = "RUN")
<1> DEFINE p == pick.thread
           T == ThreadState \cup {"FREE"}
           ss == [pick.state EXCEPT ![p] = "SUSPEND"]
           again == LookThreads(list, ss, due \ {p})
<1>0. TypeOK /\ list \in Seq(Slot) /\ Live \subseteq Slot
  BY SMTT(20) DEF IInv, TypeOK, Live, Members
<1>1. p \in Live /\ p \in Slot /\ state[p] # "FREE" /\ signals[p] # <<>>
  BY <1>0 DEF ScheduleStop, HasSignal, IInv, ListIntact
<1>2. state' = again.state /\ current' = again.thread
  BY DEF ScheduleStop
<1>3. ss \in [Slot -> T] /\ \A u \in Slot : ss[u] = IF u = p THEN "SUSPEND" ELSE pick.state[u]
  BY DEF ThreadState
<1>4. T \cup {"RUN"} = T
  BY DEF ThreadState
<1> HIDE DEF p, T, ss
<1>5. /\ again.state \in [Slot -> T \cup {"RUN"}]
      /\ \A u \in Slot : \/ again.state[u] = ss[u]
                         \/ u \in due \ {p} /\ again.state[u] = "RUN"
      /\ \/ again.thread = Idle
         \/ again.thread \in Members(list) /\ again.state[again.thread] = "RUN"
  <2> DEFINE rest == due \ {p}
  <2>1. rest \in SUBSET Slot
    OBVIOUS
  <2> HIDE DEF rest
  <2>2. again = LookThreads(list, ss, rest)
    BY DEF rest
  <2>3. LET look == LookThreads(list, ss, rest) IN
        /\ look.state \in [Slot -> T \cup {"RUN"}]
        /\ \A u \in Slot : \/ look.state[u] = ss[u]
                           \/ u \in rest /\ look.state[u] = "RUN"
        /\ \/ look.thread = Idle
           \/ look.thread \in Members(list) /\ look.state[look.thread] = "RUN"
    BY <1>0, <1>3, <2>1, LookThreadsFacts
  <2> HIDE DEF again
  <2> QED BY <2>2, <2>3 DEF rest
<1> HIDE DEF again
<1>6. /\ \A u \in Slot : state'[u] = "FREE" <=> state[u] = "FREE"
      /\ \A u \in Slot : state'[u] = "WAITCHILD" => state[u] = "WAITCHILD"
      /\ state' \in [Slot -> T]
  BY <1>1, <1>2, <1>3, <1>4, <1>5
<1>7. current' = Idle \/ (current' \in Live /\ state'[current'] = "RUN")
  BY <1>2, <1>5 DEF Live
<1>8. TypeOK'
  <2>1. /\ signals' = [signals EXCEPT ![p] = Tail(signals[p])]
        /\ signals[p] \in Seq(Signal) /\ signals \in [Slot -> Seq(Signal)]
        /\ \A u \in Slot : Len(signals[u]) <= SIGNAL_QUEUE_SIZE
    BY <1>0, <1>1 DEF ScheduleStop, TypeOK, p
  <2>2. /\ Tail(signals[p]) \in Seq(Signal)
        /\ Len(Tail(signals[p])) = Len(signals[p]) - 1
        /\ Len(signals[p]) \in Nat
    BY <1>1, <2>1
  <2>3. Len(Tail(signals[p])) <= SIGNAL_QUEUE_SIZE
    BY <1>1, <2>1, <2>2, SchedulerAssumption
  <2>4. /\ signals' \in [Slot -> Seq(Signal)]
        /\ \A u \in Slot : signals'[u] = IF u = p THEN Tail(signals[p]) ELSE signals[u]
    BY <1>1, <2>1, <2>2
  <2>5. \A u \in Slot : Len(signals'[u]) <= SIGNAL_QUEUE_SIZE
    BY <2>1, <2>3, <2>4
  <2> QED BY <1>0, <1>6, <1>7, <2>4, <2>5, TickFacts DEF ScheduleStop, TypeOK, T
<1>9. UNCHANGED <<list, parent>>
  BY DEF ScheduleStop
<1>10. IInv'
  BY <1>6, <1>7, <1>8, <1>9, SameListSwitch
<1> QED BY <1>7, <1>10

LEMMA TimerInv ==
    ASSUME IInv, TimerInterrupt
    PROVE  IInv' /\ (current' = Idle \/ state'[current'] = "RUN")
<1>1. PICK finished \in SUBSET {t \in Slot : state[t] = "SELECT"} :
        LET due == Due(finished)
            pick == LookThreads(SearchOrder(current), state, due)
        IN  ScheduleRun(pick) \/ ScheduleKill(pick, due) \/ ScheduleStop(pick, due)
  BY DEF TimerInterrupt
<1> DEFINE due == Due(finished)
           pick == LookThreads(SearchOrder(current), state, due)
<1>2. ScheduleRun(pick) \/ ScheduleKill(pick, due) \/ ScheduleStop(pick, due)
  BY <1>1
<1>3. /\ due \in SUBSET Slot
      /\ \A t \in due : state[t] \in {"SLEEP", "SELECT"}
      /\ pick.state \in [Slot -> ThreadState \cup {"FREE"}]
      /\ \A t \in Slot : pick.state[t] = "FREE" <=> state[t] = "FREE"
      /\ \A t \in Slot : pick.state[t] = "WAITCHILD" => state[t] = "WAITCHILD"
      /\ \/ pick.thread = Idle
         \/ pick.thread \in Live /\ pick.state[pick.thread] = "RUN"
  BY PickFacts
<1> HIDE DEF due, pick
<1>4. CASE ScheduleRun(pick)
  <2>1. IInv'
    BY <1>3, <1>4, ScheduleRunInv
  <2> QED BY <1>3, <1>4, <2>1 DEF ScheduleRun
<1>5. CASE ScheduleKill(pick, due)
  BY <1>3, <1>5, ScheduleKillInv
<1>6. CASE ScheduleStop(pick, due)
  BY <1>3, <1>6, ScheduleStopInv
<1> QED BY <1>2, <1>4, <1>5, <1>6

-----------------------------------------------------------------------------
LEMMA StepInv == IInv /\ [Next]_vars => IInv'
<1> SUFFICES ASSUME IInv, [Next]_vars PROVE IInv'
  OBVIOUS
<1>1. CASE TimerInterrupt
  BY <1>1, TimerInv
<1>2. ASSUME NEW t \in Slot, SystemCall(t) PROVE IInv'
  BY <1>2, CallsInv, ExecuteInv, ExecveInv DEF SystemCall
<1>3. ASSUME NEW t \in Slot, IoWake(t) PROVE IInv'
  BY <1>3, CallsInv
<1>4. ASSUME NEW t \in Slot, NEW sig \in Sent, TerminalSignal(t, sig) PROVE IInv'
  BY <1>4, CallsInv
<1>5. CASE UNCHANGED vars
  BY <1>5 DEF vars, IInv, TypeOK, ListIntact, CurrentIsAllocated, WaiterHasChild,
              Live, Members
<1> QED BY <1>1, <1>2, <1>3, <1>4, <1>5 DEF Next

\* For any number of processes, any signal queue length and any sleep time the
\* variables of process.c keep their types and the signal queue its bound.
THEOREM TypeCorrect == Spec => []TypeOK
<1>1. IInv => TypeOK
  BY DEF IInv
<1> QED BY InitInv, StepInv, <1>1, PTL DEF Spec

\* The thread list holds exactly the allocated threads, each once, and
\* g_current_thread never points to freed memory, although execve, exit and
\* kill free the running thread.
THEOREM ThreadListSafe == Spec => [](ListIntact /\ CurrentIsAllocated)
<1>1. IInv => ListIntact /\ CurrentIsAllocated
  BY DEF IInv
<1> QED BY InitInv, StepInv, <1>1, PTL DEF Spec

\* A thread blocked in wait or wait4 always has a live process whose
\* destruction will resume it.
THEOREM WaitersHaveChildren == Spec => []WaiterHasChild
<1>1. IInv => WaiterHasChild
  BY DEF IInv
<1> QED BY InitInv, StepInv, <1>1, PTL DEF Spec

\* The timer interrupt switches to runnable threads only, and nothing else
\* switches.
THEOREM OnlyRunnableScheduled == Spec => SwitchesToRunnable
<1> DEFINE Switch == (current' # current /\ current' \in Slot) => state'[current'] = "RUN"
<1>1. IInv /\ [Next]_vars => [Switch]_vars
  <2> SUFFICES ASSUME IInv, Next PROVE Switch
    BY DEF vars
  <2>1. CASE TimerInterrupt
    BY <2>1, TimerInv, SchedulerAssumption
  <2>2. ASSUME NEW t \in Slot, SystemCall(t) \/ IoWake(t)
        PROVE  current' = current \/ current' = NULL
    BY <2>2 DEF SystemCall, IoWake, Execute, Execve, Exit, Fault, RaiseAndHalt, Kill,
                Wait, Sleep, Select, BlockOnIo, Return
  <2>3. ASSUME NEW t \in Slot, NEW sig \in Sent, TerminalSignal(t, sig)
        PROVE  current' = current
    BY <2>3 DEF TerminalSignal
  <2> QED BY <2>1, <2>2, <2>3, SchedulerAssumption DEF Next
<1> QED BY InitInv, StepInv, <1>1, PTL DEF Spec, SwitchesToRunnable
==============================================================================
