---------------------------- MODULE UloopTimers ----------------------------
(***************************************************************************)
(* The timers of the uloop event loop (uloop.c): the list `timeouts`, the  *)
(* four uloop_timeout_ operations, and the part of uloop_run() that        *)
(* dispatches expired timers and computes how long epoll_wait may sleep.   *)
(* Callbacks run application code, which may use every timer operation and *)
(* may run the loop recursively.                                           *)
(*                                                                         *)
(* The clock counts microseconds; the code sees it as a struct timeval.    *)
(* File descriptors, processes and signals are in UloopFd, UloopProcess    *)
(* and UloopSignals: here they only are moments at which a callback may    *)
(* run.                                                                    *)
(***************************************************************************)
EXTENDS Integers, Sequences, SequencesExt

CONSTANTS
    Timers,      \* the struct uloop_timeout objects of the application
    Msecs,       \* the delays passed to uloop_timeout_set (an int, any sign)
    Steps,       \* by how much the clock may advance at once, in microseconds
    StartClock,  \* CLOCK_MONOTONIC when the program starts
    MaxClock,    \* bound on the clock, so that TLC terminates
    MaxDepth,    \* bound on the nesting of uloop_run
    MaxLag,      \* no pending timer, and no callback, is overdue for longer
    IntHalf      \* an int ranges over -IntHalf .. IntHalf - 1 (2^31 in C)

ASSUME ClockAssumption ==
    /\ StartClock \in Nat
    /\ MaxClock \in Nat
    /\ Steps \subseteq Nat
    /\ MaxDepth \in Nat

(***************************************************************************)
(* Differences of times are computed in milliseconds and stored in an int: *)
(* delays and lags stay below half of its range (12 days in C).            *)
(***************************************************************************)
ASSUME RangeAssumption ==
    /\ MaxLag \in Nat
    /\ IntHalf \in Nat
    /\ Msecs \subseteq Int
    /\ \A m \in Msecs : -MaxLag <= m * 1000 /\ m * 1000 <= MaxLag
    /\ 2 * MaxLag + 1000 < IntHalf * 1000

VARIABLES
    clock,           \* CLOCK_MONOTONIC, in microseconds
    timeouts,        \* the list of pending timers, as a sequence
    pending,         \* timeout->pending
    time,            \* timeout->time
    due,             \* the deadline the application asked for (a ghost)
    uloop_cancelled, \* set by uloop_end and by SIGINT / SIGTERM
    depth,           \* recursive_calls: how many uloop_run are active
    pc,              \* what each active uloop_run is doing
    tv               \* its local variable tv

vars == <<clock, timeouts, pending, time, due,
          uloop_cancelled, depth, pc, tv>>
timerVars == <<timeouts, pending, time, due>>

Time == [sec : Int, usec : Int]

Depths == 1..MaxDepth

(***************************************************************************)
(* The phases of uloop_run.  The three that end in _cb are callbacks.      *)
(***************************************************************************)
Phase == {"top", "timeouts", "timer_cb", "timed", "proc_cb", "procs",
          "polling", "event_cb"}
-----------------------------------------------------------------------------
(***************************************************************************)
(* C arithmetic: division truncates towards zero, and a value converted to *)
(* int keeps its residue modulo 2 * IntHalf.                               *)
(***************************************************************************)
TruncDiv(a, b) == IF a >= 0 THEN a \div b ELSE -((-a) \div b)

TruncMod(a, b) == a - b * TruncDiv(a, b)

ToInt(n) == ((n + IntHalf) % (2 * IntHalf)) - IntHalf

\* tv_diff: t1 - t2 in milliseconds
tv_diff(t1, t2) ==
    ToInt((t1.sec - t2.sec) * 1000 + TruncDiv(t1.usec - t2.usec, 1000))

\* uloop_gettime: CLOCK_MONOTONIC as a timeval
uloop_gettime(c) == [sec |-> c \div 1000000, usec |-> c % 1000000]

\* Mutant: the second is not carried.
CarryLost(sec, usec) ==
    [sec |-> sec, usec |-> IF usec > 1000000 THEN usec - 1000000 ELSE usec]

\* The carry of the microseconds into the seconds in uloop_timeout_set, which
\* leaves 1000000 as it is.
Carry(sec, usec) ==
    IF usec > 1000000 THEN [sec |-> sec + 1, usec |-> usec - 1000000]
                      ELSE [sec |-> sec, usec |-> usec]

\* What uloop_timeout_set stores in timeout->time when the clock shows c.
TimeAfter(c, msecs) ==
    Carry(uloop_gettime(c).sec + TruncDiv(msecs, 1000),
          uloop_gettime(c).usec + TruncMod(msecs, 1000) * 1000)

\* The instant, in microseconds, that a timeval denotes.
Micros(t) == t.sec * 1000000 + t.usec
-----------------------------------------------------------------------------
\* Mutants: a new timer goes to the tail; set does not cancel first.
InsertPositionsTail(list, tm) == {Len(list) + 1}
CancelledNot(t) == timeouts

(***************************************************************************)
(* The list.  InsertPositions holds the one position at which              *)
(* uloop_timeout_add links a timer with time tm: in front of the first     *)
(* entry that is at least one whole millisecond later.                     *)
(***************************************************************************)
InsertPositions(list, tm) ==
    { k \in 1..(Len(list) + 1) :
        /\ \A i \in 1..(k - 1) : tv_diff(time[list[i]], tm) <= 0
        /\ k <= Len(list) => tv_diff(time[list[k]], tm) > 0 }

\* list_del
Unlink(list, t) == RemoveAt(list, CHOOSE k \in 1..Len(list) : list[k] = t)

\* The list that uloop_timeout_set works on, once it cancelled t.
Cancelled(t) == IF pending[t] THEN Unlink(timeouts, t) ELSE timeouts

\* Application code runs outside uloop_run and inside callbacks.
InCallback(ph) == ph \in {"timer_cb", "proc_cb", "event_cb"}
InApplication  == depth > 0 => InCallback(pc[depth])

Goto(phase) == pc' = [pc EXCEPT ![depth] = phase]
-----------------------------------------------------------------------------
(***************************************************************************)
(* The operations of the application.                                      *)
(***************************************************************************)

\* uloop_timeout_add(t): t->time is the deadline the application chose, here
\* the one that is left in the struct.  An already pending timer is refused.
uloop_timeout_add(t) ==
    /\ InApplication
    /\ ~pending[t]
    /\ Micros(time[t]) \in (clock - MaxLag)..(clock + MaxLag)
    /\ \E k \in InsertPositions(timeouts, time[t]) :
          timeouts' = InsertAt(timeouts, k, t)
    /\ pending' = [pending EXCEPT ![t] = TRUE]
    /\ due' = [due EXCEPT ![t] = Micros(time[t])]
    /\ UNCHANGED <<clock, time, uloop_cancelled, depth, pc, tv>>

\* uloop_timeout_set(t, msecs): cancel, compute the deadline, add.
uloop_timeout_set(t, msecs) ==
    /\ InApplication
    /\ time' = [time EXCEPT ![t] = TimeAfter(clock, msecs)]
    /\ \E k \in InsertPositions(Cancelled(t), TimeAfter(clock, msecs)) :
          timeouts' = InsertAt(Cancelled(t), k, t)
    /\ pending' = [pending EXCEPT ![t] = TRUE]
    /\ due' = [due EXCEPT ![t] = clock + msecs * 1000]
    /\ UNCHANGED <<clock, uloop_cancelled, depth, pc, tv>>

\* uloop_timeout_cancel(t) of a pending timer; otherwise it returns -1.
uloop_timeout_cancel(t) ==
    /\ InApplication
    /\ pending[t]
    /\ timeouts' = Unlink(timeouts, t)
    /\ pending' = [pending EXCEPT ![t] = FALSE]
    /\ UNCHANGED <<clock, time, due, uloop_cancelled, depth, pc, tv>>

\* uloop_clear_timeouts, called by uloop_done.
uloop_clear_timeouts ==
    /\ InApplication
    /\ timeouts # <<>>
    /\ timeouts' = <<>>
    /\ pending' = [t \in Timers |->
                      IF \E k \in 1..Len(timeouts) : timeouts[k] = t
                      THEN FALSE ELSE pending[t]]
    /\ UNCHANGED <<clock, time, due, uloop_cancelled, depth, pc, tv>>

\* Mutant: the time since the deadline instead of the time until it.
RemainingNegated(t) ==
    IF pending[t] THEN tv_diff(uloop_gettime(clock), time[t]) ELSE -1

\* What uloop_timeout_remaining(t) returns.
uloop_timeout_remaining(t) ==
    IF pending[t] THEN tv_diff(time[t], uloop_gettime(clock)) ELSE -1
-----------------------------------------------------------------------------
(***************************************************************************)
(* uloop_run.                                                              *)
(***************************************************************************)

\* The call, from the main program or from a callback.
EnterRun ==
    /\ InApplication
    /\ depth < MaxDepth
    /\ depth' = depth + 1
    /\ pc' = [pc EXCEPT ![depth + 1] = "top"]
    /\ uloop_cancelled' = FALSE
    /\ UNCHANGED <<clock, timerVars, tv>>

\* while (!uloop_cancelled), and the first uloop_gettime(&tv)
StartIteration ==
    /\ depth > 0
    /\ pc[depth] = "top"
    /\ ~uloop_cancelled
    /\ tv' = [tv EXCEPT ![depth] = uloop_gettime(clock)]
    /\ Goto("timeouts")
    /\ UNCHANGED <<clock, timerVars, uloop_cancelled, depth>>

\* Mutants: off by one millisecond, late and early.
HeadExpiredLate ==
    timeouts # <<>> /\ tv_diff(time[Head(timeouts)], tv[depth]) < 0
HeadExpiredEarly ==
    timeouts # <<>> /\ tv_diff(time[Head(timeouts)], tv[depth]) <= 1

\* The head of the list has expired for uloop_process_timeouts(&tv).
HeadExpired ==
    /\ timeouts # <<>>
    /\ tv_diff(time[Head(timeouts)], tv[depth]) <= 0

\* One turn of uloop_process_timeouts: the timer is cancelled, and then its
\* callback starts.  A timer without callback is one whose callback returns
\* at once.
FireHead ==
    /\ depth > 0
    /\ pc[depth] = "timeouts"
    /\ HeadExpired
    /\ timeouts' = Unlink(timeouts, Head(timeouts))
    /\ pending' = [pending EXCEPT ![Head(timeouts)] = FALSE]
    /\ Goto("timer_cb")
    /\ UNCHANGED <<clock, time, due, uloop_cancelled, depth, tv>>

TimeoutsDone ==
    /\ depth > 0
    /\ pc[depth] = "timeouts"
    /\ ~HeadExpired
    /\ Goto("timed")
    /\ UNCHANGED <<clock, timerVars, uloop_cancelled, depth, tv>>

\* uloop_handle_processes may run callbacks after the timers.
ProcessCallback ==
    /\ depth > 0
    /\ pc[depth] \in {"timed", "procs"}
    /\ Goto("proc_cb")
    /\ UNCHANGED <<clock, timerVars, uloop_cancelled, depth, tv>>

\* Mutant: the time until an overdue deadline is not cut off at 0.
NextTimeoutUncut(now) ==
    IF timeouts = <<>> THEN -1 ELSE tv_diff(time[Head(timeouts)], now)

\* uloop_get_next_timeout(&tv): milliseconds until the head expires, -1 for
\* an empty list.
uloop_get_next_timeout(now) ==
    IF timeouts = <<>> THEN -1
    ELSE LET diff == tv_diff(time[Head(timeouts)], now)
         IN  IF diff < 0 THEN 0 ELSE diff

\* The second uloop_gettime(&tv), and the call of epoll_wait with the timeout
\* uloop_get_next_timeout(&tv).
Poll ==
    /\ depth > 0
    /\ pc[depth] \in {"timed", "procs"}
    /\ ~uloop_cancelled
    /\ tv' = [tv EXCEPT ![depth] = uloop_gettime(clock)]
    /\ Goto("polling")
    /\ UNCHANGED <<clock, timerVars, uloop_cancelled, depth>>

\* epoll_wait returns, with an event whose callback runs or without one.
Wake ==
    /\ depth > 0
    /\ pc[depth] = "polling"
    /\ \E phase \in {"event_cb", "top"} : Goto(phase)
    /\ UNCHANGED <<clock, timerVars, uloop_cancelled, depth, tv>>

CallbackReturns ==
    /\ depth > 0
    /\ \/ pc[depth] = "timer_cb" /\ Goto("timeouts")
       \/ pc[depth] = "proc_cb"  /\ Goto("procs")
       \/ pc[depth] = "event_cb" /\ Goto("top")
    /\ UNCHANGED <<clock, timerVars, uloop_cancelled, depth, tv>>

\* Mutant: recursive_calls is decremented twice.
LeaveRunTwice ==
    /\ depth > 0
    /\ pc[depth] \in {"top", "timed", "procs"}
    /\ uloop_cancelled
    /\ depth' = depth - 2
    /\ UNCHANGED <<clock, timerVars, uloop_cancelled, pc, tv>>

\* The loop condition, or the test before the poll, ends this uloop_run; its
\* local variables go out of scope.
LeaveRun ==
    /\ depth > 0
    /\ pc[depth] \in {"top", "timed", "procs"}
    /\ uloop_cancelled
    /\ depth' = depth - 1
    /\ pc' = [pc EXCEPT ![depth] = "top"]
    /\ tv' = [tv EXCEPT ![depth] = [sec |-> 0, usec |-> 0]]
    /\ UNCHANGED <<clock, timerVars, uloop_cancelled>>

\* uloop_end, or a signal handler that does the same at any moment.
Cancel ==
    /\ ~uloop_cancelled
    /\ uloop_cancelled' = TRUE
    /\ UNCHANGED <<clock, timerVars, depth, pc, tv>>

\* The clock advances, within the lag the program is assumed to keep: no
\* pending timer waits, and no callback of uloop_process_timeouts runs, for
\* longer than MaxLag.
Tick ==
    \E d \in Steps :
        /\ clock + d <= MaxClock
        /\ \A t \in Timers :
              pending[t] => clock + d - Micros(time[t]) <= MaxLag
        /\ \A i \in 1..depth :
              pc[i] \in {"timeouts", "timer_cb"}
                 => clock + d - Micros(tv[i]) <= MaxLag
        /\ clock' = clock + d
        /\ UNCHANGED <<timerVars, uloop_cancelled, depth, pc, tv>>
-----------------------------------------------------------------------------
Init ==
    /\ clock = StartClock
    /\ timeouts = <<>>
    /\ pending = [t \in Timers |-> FALSE]
    /\ time = [t \in Timers |-> [sec |-> 0, usec |-> 0]]
    /\ due = [t \in Timers |-> 0]
    /\ uloop_cancelled = FALSE
    /\ depth = 0
    /\ pc = [i \in Depths |-> "top"]
    /\ tv = [i \in Depths |-> [sec |-> 0, usec |-> 0]]

Next ==
    \/ \E t \in Timers : \/ uloop_timeout_add(t)
                         \/ \E msecs \in Msecs : uloop_timeout_set(t, msecs)
                         \/ uloop_timeout_cancel(t)
    \/ uloop_clear_timeouts
    \/ EnterRun
    \/ StartIteration
    \/ FireHead
    \/ TimeoutsDone
    \/ ProcessCallback
    \/ Poll
    \/ Wake
    \/ CallbackReturns
    \/ LeaveRun
    \/ Cancel
    \/ Tick

Spec == Init /\ [][Next]_vars
-----------------------------------------------------------------------------
TypeOK ==
    /\ clock \in Nat
    /\ timeouts \in Seq(Timers)
    /\ pending \in [Timers -> BOOLEAN]
    /\ time \in [Timers -> Time]
    /\ due \in [Timers -> Int]
    /\ uloop_cancelled \in BOOLEAN
    /\ depth \in 0..MaxDepth
    /\ pc \in [Depths -> Phase]
    /\ tv \in [Depths -> Time]

(***************************************************************************)
(* The flag `pending` of a timer says exactly whether it is linked, and no *)
(* timer is linked twice: list_del of an unlinked entry, or a second link  *)
(* of the same entry, would corrupt the list.                              *)
(***************************************************************************)
LinkedIffPending ==
    /\ \A t \in Timers :
          pending[t] <=> \E i \in 1..Len(timeouts) : timeouts[i] = t
    /\ \A i, j \in 1..Len(timeouts) : timeouts[i] = timeouts[j] => i = j

(***************************************************************************)
(* The struct timeval of a pending timer denotes the deadline that was     *)
(* asked for, across the carry of microseconds into seconds.               *)
(***************************************************************************)
DeadlineExact ==
    \A t \in Timers : pending[t] => Micros(time[t]) = due[t]

(***************************************************************************)
(* The list is not sorted, because tv_diff rounds to milliseconds: but no  *)
(* timer is linked behind one that is due a whole millisecond later, and   *)
(* where two are inverted the first does not have the later tv_sec.        *)
(***************************************************************************)
NearSorted ==
    \A i, j \in 1..Len(timeouts) :
        LET t == timeouts[i]
            u == timeouts[j]
        IN  i < j => /\ due[t] - due[u] < 1000
                     /\ due[t] > due[u] => time[t].sec <= time[u].sec

(***************************************************************************)
(* When uloop_process_timeouts returns, every timer that was due by the    *)
(* time tv it was called with has been run, even though it only looks at   *)
(* the head of a list that is not quite sorted.  Only a timer armed with a *)
(* negative delay, whose tv_usec is negative, can be missed, and then by   *)
(* less than a millisecond.                                                *)
(***************************************************************************)
TimelyDispatch ==
    (depth > 0 /\ pc[depth] = "timed") =>
        \A t \in Timers : pending[t] =>
            /\ due[t] > Micros(tv[depth]) - 1000
            /\ time[t].usec >= 0 => due[t] > Micros(tv[depth])

(***************************************************************************)
(* The time epoll_wait may sleep is computed from the head alone, yet it   *)
(* does not pass any pending deadline by two milliseconds or more, and it  *)
(* is unlimited only when no timer is pending.                             *)
(***************************************************************************)
SleepBounded ==
    (depth > 0 /\ pc[depth] = "polling") =>
        LET sleep == uloop_get_next_timeout(tv[depth])
        IN  \A t \in Timers : pending[t] =>
                \/ sleep = 0
                \/ /\ sleep > 0
                   /\ Micros(tv[depth]) + sleep * 1000 < due[t] + 2000

(***************************************************************************)
(* uloop_timeout_remaining is less than a millisecond off.                 *)
(***************************************************************************)
RemainingAccurate ==
    \A t \in Timers : pending[t] =>
        /\ uloop_timeout_remaining(t) * 1000 - (due[t] - clock) < 1000
        /\ (due[t] - clock) - uloop_timeout_remaining(t) * 1000 < 1000

(***************************************************************************)
(* A timer never fires a millisecond or more before the deadline that was  *)
(* asked for, nor a millisecond or more ahead of a timer due earlier, also *)
(* when nested loops run in the callbacks and tv is old.                   *)
(***************************************************************************)
NeverEarly ==
    [][\A t \in Timers :
          (FireHead /\ pending[t] /\ ~pending'[t]) =>
              /\ due[t] < clock + 1000
              /\ \A u \in Timers :
                    pending[u] => due[t] - due[u] < 1000]_vars
=============================================================================
