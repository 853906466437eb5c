---------------------------- MODULE SelectSleep ----------------------------
(***************************************************************************)
(* Waiting for time and for files: syscall_select.c, sleep.c, timer.c and  *)
(* the part of the scheduler that looks at sleeping threads                *)
(* (thread_update_state in process.c).                                     *)
(*                                                                         *)
(* A select is evaluated by the call itself and by the scheduler, on any   *)
(* timer tick at which it comes past the thread; files become ready and    *)
(* stop being ready in between.  The tick count and the date have 64 bits, *)
(* sleep and clock_gettime use the low 32: Wrap stands for 2^32.           *)
(***************************************************************************)
EXTENDS Integers, FiniteSets

CONSTANTS
    Waiters,        \* threads
    SelSets,        \* what select is asked for: sets of <<"r", fd>>, <<"w", fd>>
    Timeouts,       \* milliseconds passed to select; -1 for no timeval
    Naps,           \* milliseconds passed to sleep_ms
    Wrap,           \* the range of a 32-bit tick count
    TIMER_FREQ,     \* ticks, which are the code's milliseconds, in a second
    Dates,          \* seconds passed to clock_settime
    LastTick        \* bound on the ticks of a behaviour

ASSUME SelectAssumption ==
    /\ Wrap \in Nat \ {0} /\ TIMER_FREQ \in Nat \ {0}
    /\ Timeouts \subseteq Nat \cup {-1}
    /\ Naps \subseteq Nat /\ Dates \subseteq Nat
    /\ \A set \in SelSets : IsFiniteSet(set) /\ \A w \in set : w[2] \in Nat

VARIABLES
    ticks,          \* g_system_tick_count
    opened,         \* descriptors that refer to a file
    ready,          \* <<"r", fd>> and <<"w", fd>> whose test function says so
    tstate,         \* tstate[t]: "RUN", "SLEEP" or "SELECT"
    target,         \* target[t]: state_privateData of a sleeper
    select,         \* select[t]: Thread.select
    doing,          \* doing[t]: "user", "sleep" or "select"
    nap,            \* nap[t]: the last sleep: start, length asked for, length
    answer,         \* answer[t]: what the last select or sleep returned
    seen,           \* seen[t]: what was ready at some time during the select
    date,           \* g_system_date_ms
    told,           \* history: clock_gettime since the last setting; its tick or -1
    setting         \* history: the last clock_settime and its tick

clockVars == <<date, told, setting>>
selVars == <<ticks, opened, ready, tstate, target, select, doing, nap, answer,
             seen, clockVars>>

Wanted == UNION SelSets
SelFds == {w[2] : w \in Wanted}

NoSelect == [st |-> "none", nfds |-> 0, set |-> {}, result_set |-> {},
             result |-> 0, target_time |-> 0, since |-> 0, timeout |-> -1]
NoNap == [from |-> 0, ms |-> 0, took |-> -1]
NoAnswer == [n |-> -1, set |-> {}, waited |-> 0, timeout |-> -1, seen |-> {}]

SelInit ==
    /\ ticks \in 1 .. Wrap
    /\ opened \in {SelFds, {}}
    /\ ready = {}
    /\ tstate = [t \in Waiters |-> "RUN"]
    /\ target = [t \in Waiters |-> 0]
    /\ select = [t \in Waiters |-> NoSelect]
    /\ doing = [t \in Waiters |-> "user"]
    /\ nap = [t \in Waiters |-> NoNap]
    /\ answer = [t \in Waiters |-> NoAnswer]
    /\ seen = [t \in Waiters |-> {}]
    /\ date = ticks
    /\ told = [tv_sec |-> 0, extra_milli |-> 0, at |-> -1]
    /\ setting = [tv_sec |-> 0, at |-> 0]

-----------------------------------------------------------------------------
(* select *)

\* The files of a select that its tests find ready.
Found(s) ==
    {w \in s.set \cap ready : w[2] < s.nfds /\ w[2] \in opened}

\* Faulty variant: the count goes on from the earlier passes.
SelectUpdateCountsOn(s, now) ==
    LET found == Found(s)
    IN  IF found # {}
        THEN [s EXCEPT !.result_set = @ \cup found, !.st = "finished",
                       !.result = Cardinality(found) + (IF @ > 0 THEN @ ELSE 0)]
        ELSE IF s.target_time > 0 /\ now > s.target_time
             THEN [s EXCEPT !.result = 0, !.st = "finished"]
             ELSE s

\* select_update: the result sets only grow, from one pass to the next; the
\* count is that of the last pass that found something.
SelectUpdate(s, now) ==
    LET found == Found(s)
    IN  IF found # {}
        THEN [s EXCEPT !.result_set = @ \cup found,
                       !.result = Cardinality(found), !.st = "finished"]
        ELSE IF s.target_time > 0 /\ now > s.target_time
             THEN [s EXCEPT !.result = 0, !.st = "finished"]
             ELSE s

\* One pass of the loop of syscall_select with s as Thread.select: the answer
\* of select_finish, or TS_SELECT.
SelectPass(t, s0) ==
    LET s == SelectUpdate(s0, ticks)
    IN  IF s.st = "finished"
        THEN /\ answer' = [answer EXCEPT ![t] =
                  [n |-> s.result, set |-> s.result_set,
                   waited |-> ticks - s.since, timeout |-> s.timeout,
                   seen |-> seen[t] \cup (ready \cap s.set)]]
             /\ select' = [select EXCEPT ![t] = NoSelect]
             /\ tstate' = [tstate EXCEPT ![t] = "RUN"]
             /\ doing' = [doing EXCEPT ![t] = "user"]
             /\ seen' = [seen EXCEPT ![t] = {}]
        ELSE /\ select' = [select EXCEPT ![t] = s]
             /\ tstate' = [tstate EXCEPT ![t] = "SELECT"]
             /\ doing' = [doing EXCEPT ![t] = "select"]
             /\ seen' = [seen EXCEPT ![t] = @ \cup (ready \cap s.set)]
             /\ UNCHANGED answer

SelectCall(t, n, set, timeout) ==
    /\ doing[t] = "user"
    /\ SelectPass(t, [st |-> "started", nfds |-> n, set |-> set,
                      result_set |-> {}, result |-> -1,
                      target_time |-> IF timeout = -1 THEN 0
                                      ELSE ticks + timeout,
                      since |-> ticks, timeout |-> timeout])
    /\ nap' = [nap EXCEPT ![t] = NoNap]
    /\ UNCHANGED <<ticks, opened, ready, target, clockVars>>

\* The thread runs again and goes through the loop once more.
SelectAgain(t) ==
    /\ doing[t] = "select"
    /\ tstate[t] = "RUN"
    /\ SelectPass(t, select[t])
    /\ UNCHANGED <<ticks, opened, ready, target, nap, clockVars>>

-----------------------------------------------------------------------------
(* sleep *)

SleepCall(t, ms) ==
    /\ doing[t] = "user"
    /\ target' = [target EXCEPT ![t] = ((ticks % Wrap) + ms) % Wrap]
    /\ tstate' = [tstate EXCEPT ![t] = "SLEEP"]
    /\ doing' = [doing EXCEPT ![t] = "sleep"]
    /\ nap' = [nap EXCEPT ![t] = [from |-> ticks, ms |-> ms, took |-> -1]]
    /\ answer' = [answer EXCEPT ![t] = NoAnswer]
    /\ UNCHANGED <<ticks, opened, ready, select, seen, clockVars>>

SleepReturns(t) ==
    /\ doing[t] = "sleep"
    /\ tstate[t] # "SLEEP"
    /\ doing' = [doing EXCEPT ![t] = "user"]
    /\ nap' = [nap EXCEPT ![t].took = ticks - nap[t].from]
    /\ UNCHANGED <<ticks, opened, ready, tstate, target, select, answer, seen, clockVars>>

-----------------------------------------------------------------------------
(* The timer *)

\* Faulty variant: the comparison is off by one.
WakesEarly(t, now) == (now % Wrap) + 1 >= target[t]

Wakes(t, now) == now % Wrap >= target[t]

\* thread_update_state, for the threads look_threads comes past.
Tick(looked) ==
    LET now == ticks + 1
        updated(t) == IF t \in looked /\ tstate[t] = "SELECT"
                      THEN SelectUpdate(select[t], now) ELSE select[t]
    IN  /\ ticks < LastTick
        /\ ticks' = now
        /\ select' = [t \in Waiters |-> updated(t)]
        /\ tstate' = [t \in Waiters |->
              IF \/ t \in looked /\ tstate[t] = "SLEEP" /\ Wakes(t, now)
                 \/ updated(t).st = "finished"
              THEN "RUN" ELSE tstate[t]]
        /\ date' = date + 1
        /\ UNCHANGED <<opened, ready, target, doing, nap, answer, seen, told, setting>>

\* A file becomes ready, or another reader takes what there was.
Change(w) ==
    /\ w[2] \in opened
    /\ ready' = IF w \in ready THEN ready \ {w} ELSE ready \cup {w}
    /\ seen' = [t \in Waiters |-> IF doing[t] = "select"
                                     /\ w \in select[t].set
                                  THEN seen[t] \cup {w} ELSE seen[t]]
    /\ UNCHANGED <<ticks, opened, tstate, target, select, doing, nap, answer, clockVars>>

SelNext ==
    \/ \E t \in Waiters :
          \/ \E n \in {fd + 1 : fd \in SelFds}, set \in SelSets,
                timeout \in Timeouts : SelectCall(t, n, set, timeout)
          \/ SelectAgain(t)
          \/ \E ms \in Naps : SleepCall(t, ms)
          \/ SleepReturns(t)
    \/ \E looked \in SUBSET Waiters : Tick(looked)
    \/ \E w \in Wanted : Change(w)

-----------------------------------------------------------------------------
(* The clock *)

waitVars == <<ticks, opened, ready, tstate, target, select, doing, nap, answer, seen>>

\* clock_gettime64, from the low bits of the date.
ClockGettime ==
    LET uptime_milli == date % Wrap
        tv_sec == uptime_milli \div TIMER_FREQ
    IN  /\ told' = [tv_sec |-> tv_sec, at |-> ticks,
                    extra_milli |-> uptime_milli - (tv_sec * TIMER_FREQ)]
        /\ UNCHANGED <<waitVars, date, setting>>

\* clock_settime64, of whole seconds.
ClockSettime(tv_sec) ==
    /\ date' = tv_sec * TIMER_FREQ
    /\ setting' = [tv_sec |-> tv_sec, at |-> ticks]
    /\ told' = [told EXCEPT !.at = -1]
    /\ UNCHANGED waitVars

\* The system calls; clock_getres64 reports a constant.
ClockCall == ClockGettime \/ \E tv_sec \in Dates : ClockSettime(tv_sec)

ClockNext == Tick({}) \/ ClockCall

SelSpec == SelInit /\ [][SelNext \/ ClockNext]_selVars

-----------------------------------------------------------------------------
(* Properties *)

\* What select returns makes sense to its caller although up to any number of
\* passes, by the scheduler and by the thread, built the answer: a positive
\* count comes with marked descriptors, at least as many as it says, each of
\* them asked for and ready at some time during the call; zero comes only
\* after the time asked for has passed.  (It may come with descriptors that
\* the scheduler's pass has marked and that were ready no longer in the
\* thread's own, when that one runs past the target time.)
SelectAnswers ==
    \A t \in Waiters :
        LET a == answer[t]
        IN  /\ a.n > 0 => /\ a.n <= Cardinality(a.set)
                          /\ a.set \subseteq a.seen
            /\ a.n = 0 => /\ a.timeout # -1
                          /\ a.waited >= a.timeout

\* sleep_ms returns no earlier than asked, as long as the 32-bit tick count
\* does not wrap between the call and the target.
SleepsLongEnough ==
    \A t \in Waiters :
        nap[t].took >= 0 /\ (nap[t].from % Wrap) + nap[t].ms < Wrap =>
            nap[t].took >= nap[t].ms

\* The clock tells the time it was set to and the ticks since, in seconds and
\* milliseconds, up to the 49 days that 32 bits of them hold; ticks go on
\* counting from boot however the clock is set.
ClockFollows ==
    told.at >= 0 =>
        (told.tv_sec * TIMER_FREQ) + told.extra_milli =
            ((setting.tv_sec * TIMER_FREQ) + (told.at - setting.at)) % Wrap

\* Time is kept: for threads that sleep and for those that read the clock.
TimeKept == SleepsLongEnough /\ ClockFollows
=============================================================================
