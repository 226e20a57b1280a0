------------------------------ MODULE Runqueue ------------------------------
(***************************************************************************)
(* runqueue.c: a queue of tasks of which a limited number runs at a time.  *)
(*                                                                         *)
(* The functions call back into the application (run, complete, cancel,    *)
(* kill, empty_cb), which may call any of them again.  `stack` holds the   *)
(* active calls, the innermost last: callbacks, in which the application   *)
(* is running, and the library functions that have something left to do    *)
(* when a callback returns.  An optional callback that is not set is one   *)
(* that returns at once.                                                   *)
(*                                                                         *)
(* The lists behave as SafeList is shown to: an iteration keeps the entry  *)
(* to visit next.  The timers are those of UloopTimers, and a pending one  *)
(* may expire whenever the event loop runs.  Callbacks do not run the      *)
(* event loop themselves.                                                  *)
(***************************************************************************)
EXTENDS Integers, Sequences, SequencesExt, FiniteSets

CONSTANTS
    Tasks,              \* the struct runqueue_task objects
    Processes,          \* those in a struct runqueue_process, with its
                        \* cancel and kill callbacks
    HasRunTimeout,      \* those with a run_timeout
    HasCancelTimeout,   \* those with a cancel_timeout
    max_running_tasks,  \* 0 for no limit
    NULL,
    MaxStack            \* bound on the active calls

ASSUME RunqueueAssumption ==
    /\ Processes \subseteq Tasks
    /\ HasRunTimeout \subseteq Tasks /\ HasCancelTimeout \subseteq Tasks
    /\ max_running_tasks \in Nat /\ MaxStack \in Nat
    /\ NULL \notin Tasks

VARIABLES
    tasks_active, tasks_inactive,
    queued, running, cancelled,   \* the flags, as the sets of tasks that
                                  \* have them
    task_timeout,   \* the tasks whose timeout is pending
    proc_pending,   \* the processes that uloop watches
    timeout,        \* q->timeout: "off", or pending with the callback "next"
                    \* (__runqueue_start_next) or "empty" (__runqueue_empty_cb)
    running_tasks, stopped, empty,
    stack,
    adopted,        \* ghost: the active tasks that were added as running
    wakeup          \* ghost: no task was added yet ("never"), or the last
                    \* wakeup was requested ("called") by runqueue_start_next
                    \* or "dropped" by runqueue_kill

lists == <<tasks_active, tasks_inactive>>
taskVars == <<queued, running, cancelled, task_timeout, adopted>>
timer == <<timeout, wakeup>>
vars == <<lists, taskVars, proc_pending, timer, running_tasks, stopped, empty,
          stack>>

Callbacks == {"run", "complete", "cancel", "kill", "empty"}
-----------------------------------------------------------------------------
\* A call of fn; `task` is the one it is about, or the one an iteration will
\* visit next, and wasRunning the variable `running` of runqueue_task_kill.
Call(fn, t) == [fn |-> fn, task |-> t, wasRunning |-> FALSE]

Innermost(fn) == stack # <<>> /\ Last(stack).fn = fn

\* The application runs, in the event loop or in a callback, and a call that
\* takes n entries of the stack is within the bound.
InApplication(n) ==
    /\ stack # <<>> => Last(stack).fn \in Callbacks
    /\ Len(stack) + n <= MaxStack

First(list) == IF list = <<>> THEN NULL ELSE Head(list)

PlaceIn(list, t) == CHOOSE i \in 1..Len(list) : list[i] = t

Without(list, t) ==
    IF t \in ToSet(list) THEN RemoveAt(list, PlaceIn(list, t)) ELSE list

\* The entry of the list behind t.
Behind(list, t) ==
    IF PlaceIn(list, t) = Len(list) THEN NULL ELSE list[PlaceIn(list, t) + 1]

\* The entry behind t in the list that t is on.
After(t) == Behind(IF t \in ToSet(tasks_active) THEN tasks_active
                                                ELSE tasks_inactive, t)

\* safe_list_del moves the iterations that wait for t on.
MovePast(calls, t) ==
    [k \in DOMAIN calls |->
        IF calls[k].fn = "for_each" /\ calls[k].task = t
        THEN [calls[k] EXCEPT !.task = After(t)] ELSE calls[k]]

\* The ghost: without a task so far the queue still counts as never woken.
Woken == IF wakeup = "never" /\ queued' = {} THEN "never" ELSE "called"

\* Mutant: no wakeup is requested for a queue that is stopped.
StartNextRunning(isEmpty) ==
    IF isEmpty \/ stopped THEN UNCHANGED timer
    ELSE timeout' = "next" /\ wakeup' = Woken

\* runqueue_start_next on a queue whose flag `empty` is isEmpty.
runqueue_start_next(isEmpty) ==
    IF isEmpty THEN UNCHANGED timer
    ELSE timeout' = "next" /\ wakeup' = Woken
-----------------------------------------------------------------------------
(***************************************************************************)
(* The functions on tasks that others call: `calls` is the stack they      *)
(* return to, `armed` the tasks whose timeout is pending.                  *)
(***************************************************************************)

\* Mutants: a task that was not running is counted, its timeout stays armed.
CountAfterAny(t) == running_tasks - 1
ArmedAfterAll(t) == task_timeout

\* What runqueue_task_complete leaves of running_tasks and of the timeouts.
CountAfter(t) == IF t \in running THEN running_tasks - 1 ELSE running_tasks
ArmedAfter(t) == task_timeout \ {t}

\* runqueue_task_complete of a queued task, up to its callback.
Complete(t, calls) ==
    /\ running_tasks' = CountAfter(t)
    /\ tasks_active' = Without(tasks_active, t)
    /\ tasks_inactive' = Without(tasks_inactive, t)
    /\ queued' = queued \ {t}
    /\ running' = running \ {t}
    /\ cancelled' = cancelled \ {t}
    /\ adopted' = adopted \ {t}
    /\ task_timeout' = ArmedAfter(t)
    /\ stack' = MovePast(calls, t)
                   \o <<Call("completing", t), Call("complete", t)>>
    /\ UNCHANGED <<timer, stopped, empty>>

\* runqueue_task_cancel of a queued task.
Cancel(t, calls, armed) ==
    \/ /\ t \notin running
       /\ Complete(t, calls)
    \/ /\ t \in running
       /\ cancelled' = cancelled \cup {t}
       /\ task_timeout' = armed \cup ({t} \cap HasCancelTimeout)
       /\ stack' = calls \o <<Call("cancel", t)>>
       /\ UNCHANGED <<lists, queued, running, adopted, timer, running_tasks,
                      stopped, empty>>

\* runqueue_task_kill of a queued task.
Kill(t, calls) ==
    Complete(t, Append(calls, [fn |-> "killing", task |-> t,
                               wasRunning |-> t \in running]))
-----------------------------------------------------------------------------
(***************************************************************************)
(* What the application calls.                                             *)
(***************************************************************************)

\* _runqueue_task_add; an already queued task is refused.
_runqueue_task_add(t, isRunning, first) ==
    /\ t \notin queued
    /\ IF isRunning
       THEN /\ tasks_active' = IF first THEN <<t>> \o tasks_active
                                        ELSE Append(tasks_active, t)
            /\ running_tasks' = running_tasks + 1
            /\ running' = running \cup {t}
            /\ adopted' = adopted \cup {t}
            /\ UNCHANGED tasks_inactive
       ELSE /\ tasks_inactive' = IF first THEN <<t>> \o tasks_inactive
                                          ELSE Append(tasks_inactive, t)
            /\ UNCHANGED <<tasks_active, running_tasks, running, adopted>>
    /\ queued' = queued \cup {t}
    /\ cancelled' = cancelled \ {t}
    /\ empty' = FALSE
    /\ runqueue_start_next(FALSE)
    /\ UNCHANGED <<task_timeout, stopped, stack>>

\* runqueue_task_add and runqueue_task_add_first
runqueue_task_add(t, isRunning, first) ==
    /\ InApplication(0)
    /\ _runqueue_task_add(t, isRunning, first)
    /\ UNCHANGED proc_pending

\* runqueue_process_add, from the run() callback of the task or for a task
\* that is not queued.
runqueue_process_add(t) ==
    /\ InApplication(0)
    /\ t \in Processes \ proc_pending
    /\ proc_pending' = proc_pending \cup {t}
    /\ \/ t \in running /\ UNCHANGED <<lists, taskVars, timer, running_tasks,
                                       stopped, empty, stack>>
       \/ _runqueue_task_add(t, TRUE, FALSE)

\* The application completes a task, but leaves a process to __runqueue_proc_cb.
runqueue_task_complete(t) ==
    /\ InApplication(2)
    /\ t \in queued \ proc_pending
    /\ Complete(t, stack)
    /\ UNCHANGED proc_pending

runqueue_task_cancel(t) ==
    /\ InApplication(2)
    /\ t \in queued
    /\ Cancel(t, stack, task_timeout)
    /\ UNCHANGED proc_pending

runqueue_task_kill(t) ==
    /\ InApplication(3)
    /\ t \in queued
    /\ Kill(t, stack)
    /\ UNCHANGED proc_pending

runqueue_stop ==
    /\ InApplication(0)
    /\ stopped' = TRUE
    /\ UNCHANGED <<lists, taskVars, proc_pending, timer, running_tasks, empty,
                   stack>>

runqueue_resume ==
    /\ InApplication(0)
    /\ stopped' = FALSE
    /\ UNCHANGED <<lists, taskVars, proc_pending, running_tasks, empty, stack>>
    /\ runqueue_start_next(empty)

\* runqueue_cancel_pending, runqueue_cancel_active, runqueue_cancel, which
\* does both, and runqueue_kill start their loops.
CancelOrKillAll ==
    /\ InApplication(4)
    /\ \E calls \in { <<Call("for_each", First(tasks_inactive))>>,
                      <<Call("cancel_active", NULL)>>,
                      <<Call("cancel_active", NULL),
                        Call("for_each", First(tasks_inactive))>>,
                      <<Call("kill_all", NULL)>> } :
          stack' = stack \o calls
    /\ UNCHANGED <<lists, taskVars, proc_pending, timer, running_tasks,
                   stopped, empty>>
-----------------------------------------------------------------------------
(***************************************************************************)
(* What the event loop calls: expired timers and exited processes.         *)
(***************************************************************************)
TimerExpires ==
    /\ stack = <<>>
    /\ timeout # "off"
    /\ timeout' = "off"
    /\ stack' = <<Call(IF timeout = "next" THEN "start_next" ELSE "empty",
                       NULL)>>
    /\ UNCHANGED <<lists, taskVars, proc_pending, running_tasks, stopped,
                   empty, wakeup>>

\* __runqueue_task_timeout, for a timer that is not pending any more
__runqueue_task_timeout(t) ==
    /\ stack = <<>>
    /\ t \in task_timeout
    /\ IF t \in cancelled THEN Kill(t, stack)
       ELSE Cancel(t, stack, task_timeout \ {t})
    /\ UNCHANGED proc_pending

\* uloop stops watching the process and calls __runqueue_proc_cb.
__runqueue_proc_cb(t) ==
    /\ stack = <<>>
    /\ t \in proc_pending
    /\ proc_pending' = proc_pending \ {t}
    /\ IF t \in queued THEN Complete(t, stack)
       ELSE UNCHANGED <<lists, taskVars, timer, running_tasks, stopped, empty,
                        stack>>
-----------------------------------------------------------------------------
(***************************************************************************)
(* The library functions go on when a callback has returned.               *)
(***************************************************************************)
Return ==
    /\ stack # <<>>
    /\ Last(stack).fn \in Callbacks
    /\ stack' = Front(stack)
    /\ UNCHANGED <<lists, taskVars, proc_pending, timer, running_tasks,
                   stopped, empty>>

\* Mutant: the limit is off by one.
MayStartOneMore ==
    /\ ~stopped
    /\ tasks_inactive # <<>>
    /\ max_running_tasks # 0 => running_tasks <= max_running_tasks

\* The conditions of the loop in __runqueue_start_next.
MayStart ==
    /\ ~stopped
    /\ tasks_inactive # <<>>
    /\ max_running_tasks # 0 => running_tasks < max_running_tasks

StartTask ==
    LET t == Head(tasks_inactive)
    IN  /\ Innermost("start_next")
        /\ MayStart
        /\ tasks_inactive' = Tail(tasks_inactive)
        /\ tasks_active' = Append(tasks_active, t)
        /\ running' = running \cup {t}
        /\ running_tasks' = running_tasks + 1
        /\ task_timeout' = task_timeout \cup ({t} \cap HasRunTimeout)
        /\ stack' = MovePast(stack, t) \o <<Call("run", t)>>
        /\ UNCHANGED <<queued, cancelled, proc_pending, timer, stopped, empty,
                       adopted>>

StartTasksDone ==
    /\ Innermost("start_next")
    /\ ~MayStart
    /\ IF ~empty /\ tasks_active = <<>> /\ tasks_inactive = <<>>
       THEN empty' = TRUE /\ timeout' = "empty"
       ELSE UNCHANGED <<empty, timeout>>
    /\ stack' = Front(stack)
    /\ UNCHANGED <<lists, taskVars, proc_pending, wakeup, running_tasks,
                   stopped>>

\* The last statement of runqueue_task_complete; the task is still, or again,
\* one of this queue.
TaskCompleted ==
    /\ Innermost("completing")
    /\ stack' = Front(stack)
    /\ UNCHANGED <<lists, taskVars, proc_pending, running_tasks, stopped,
                   empty>>
    /\ runqueue_start_next(empty)

\* uloop_process_delete in runqueue_process_kill_cb
Watched(t) == proc_pending \ {t}

\* The kill callback of runqueue_task_kill: the one of the application, or
\* runqueue_process_kill_cb.
KillCallback ==
    LET call == Last(stack)
    IN  /\ Innermost("killing")
        /\ call.wasRunning
        /\ proc_pending' = Watched(call.task)
        /\ stack' = Append(Front(stack), Call("killed", call.task))
                       \o (IF call.task \in Processes THEN <<>>
                           ELSE <<Call("kill", call.task)>>)
        /\ UNCHANGED <<lists, taskVars, timer, running_tasks, stopped, empty>>

TaskKilled ==
    /\ \/ Innermost("killed")
       \/ Innermost("killing") /\ ~Last(stack).wasRunning
    /\ stack' = Front(stack)
    /\ UNCHANGED <<lists, taskVars, proc_pending, running_tasks, stopped,
                   empty>>
    /\ runqueue_start_next(empty)

\* safe_list_for_each goes on to the next entry and __runqueue_cancel cancels
\* it.
ForEach ==
    LET t == Last(stack).task
    IN  /\ Innermost("for_each")
        /\ t # NULL
        /\ Cancel(t, [stack EXCEPT ![Len(stack)].task = After(t)], task_timeout)
        /\ UNCHANGED proc_pending

ForEachDone ==
    /\ Innermost("for_each")
    /\ Last(stack).task = NULL
    /\ stack' = Front(stack)
    /\ UNCHANGED <<lists, taskVars, proc_pending, timer, running_tasks,
                   stopped, empty>>

CancelActive ==
    /\ Innermost("cancel_active")
    /\ stack' = Append(Front(stack), Call("for_each", First(tasks_active)))
    /\ UNCHANGED <<lists, taskVars, proc_pending, timer, running_tasks,
                   stopped, empty>>

\* The loop of runqueue_kill over the active tasks, the cancelling of the
\* pending ones, and its last statement.
KillNext ==
    /\ Innermost("kill_all")
    /\ tasks_active # <<>>
    /\ Kill(Head(tasks_active), stack)
    /\ UNCHANGED proc_pending

KillPending ==
    /\ Innermost("kill_all")
    /\ tasks_active = <<>>
    /\ stack' = Front(stack) \o <<Call("kill_done", NULL),
                                  Call("for_each", First(tasks_inactive))>>
    /\ UNCHANGED <<lists, taskVars, proc_pending, timer, running_tasks,
                   stopped, empty>>

KillDone ==
    /\ Innermost("kill_done")
    /\ timeout' = "off"
    /\ wakeup' = IF timeout = "next" /\ wakeup = "called" THEN "dropped"
                                                         ELSE wakeup
    /\ stack' = Front(stack)
    /\ UNCHANGED <<lists, taskVars, proc_pending, running_tasks, stopped,
                   empty>>
-----------------------------------------------------------------------------
\* runqueue_init, and the zeroed struct it is called for
Init ==
    /\ tasks_active = <<>> /\ tasks_inactive = <<>>
    /\ queued = {} /\ running = {} /\ cancelled = {}
    /\ task_timeout = {} /\ proc_pending = {}
    /\ timeout = "off"
    /\ running_tasks = 0 /\ stopped = FALSE /\ empty = FALSE
    /\ stack = <<>>
    /\ adopted = {} /\ wakeup = "never"

Next ==
    \/ \E t \in Tasks : \/ \E isRunning, first \in BOOLEAN :
                               runqueue_task_add(t, isRunning, first)
                        \/ runqueue_process_add(t)
                        \/ runqueue_task_complete(t)
                        \/ runqueue_task_cancel(t)
                        \/ runqueue_task_kill(t)
                        \/ __runqueue_task_timeout(t)
                        \/ __runqueue_proc_cb(t)
    \/ runqueue_stop \/ runqueue_resume \/ CancelOrKillAll \/ TimerExpires
    \/ Return \/ StartTask \/ StartTasksDone \/ TaskCompleted
    \/ KillCallback \/ TaskKilled \/ ForEach \/ ForEachDone \/ CancelActive
    \/ KillNext \/ KillPending \/ KillDone

Spec == Init /\ [][Next]_vars
-----------------------------------------------------------------------------
(***************************************************************************)
(* The flags of a task say on which list it is, it is on no list twice,    *)
(* and running_tasks counts the active ones, whatever the callbacks do.    *)
(***************************************************************************)
ListsConsistent ==
    /\ queued = ToSet(tasks_active \o tasks_inactive)
    /\ running = ToSet(tasks_active)
    /\ IsInjective(tasks_active \o tasks_inactive)
    /\ running_tasks = Len(tasks_active)

(***************************************************************************)
(* At most max_running_tasks tasks run that the queue has started, also    *)
(* when run() adds, completes or kills tasks.                              *)
(***************************************************************************)
LimitKept ==
    max_running_tasks # 0 =>
        Cardinality(running \ adopted) <= max_running_tasks

(***************************************************************************)
(* No wakeup is lost: when the event loop runs and a task could be         *)
(* started, the timer that will start it is pending, unless runqueue_kill  *)
(* has disarmed it behind the back of tasks that its callbacks added; and  *)
(* a queue that has run out of tasks has noticed it or will, again unless  *)
(* runqueue_kill was called.  The flag `empty`, which suppresses wakeups,  *)
(* is set only while both lists are empty.                                 *)
(***************************************************************************)
NoLostWakeup ==
    /\ (stack = <<>> /\ MayStart /\ wakeup # "dropped") => timeout = "next"
    /\ (stack = <<>> /\ queued = {} /\ wakeup = "called") =>
           empty \/ timeout = "next"
    /\ empty \/ timeout = "empty" => queued = {} /\ empty

(***************************************************************************)
(* A task that the queue started and that has a run_timeout is watched by  *)
(* its timer until it is cancelled, a cancelled task with a cancel_timeout *)
(* until it is killed, and no timer is left pending for a task that has    *)
(* completed and may have been freed.  Nor is its process watched then,    *)
(* but between the complete and the kill callback of runqueue_task_kill.   *)
(***************************************************************************)
TasksWatched ==
    /\ task_timeout \subseteq running
    /\ cancelled \subseteq running
    /\ cancelled \cap HasCancelTimeout \subseteq task_timeout
    /\ (running \ (adopted \cup cancelled)) \cap HasRunTimeout
          \subseteq task_timeout
    /\ \A t \in proc_pending \ running :
          \E k \in 1..Len(stack) :
              /\ stack[k].fn = "killing"
              /\ stack[k].task = t
              /\ stack[k].wasRunning
=============================================================================
