---------------------------- MODULE UloopProcess ----------------------------
(***************************************************************************)
(* Child processes in uloop: the list of watched processes, the flag the   *)
(* SIGCHLD handler sets, the waitpid loop of uloop_handle_processes, and   *)
(* the control of uloop_run around it, with loops nested in callbacks and  *)
(* uloop_cancelled, which all of them share.                               *)
(*                                                                         *)
(* `stack` holds one record per active uloop_run, the innermost first;     *)
(* its field `at` is the place the loop has reached.  Signals arrive       *)
(* between any two steps.  The kernel is external.                         *)
(***************************************************************************)
EXTENDS Integers, Sequences, SequencesExt, FiniteSets

CONSTANTS
    Procs,     \* the struct uloop_process objects of the application
    MaxPid,    \* bound: the children are forked with the pids 1..MaxPid
    MaxDepth,  \* bound on nested calls of uloop_run
    NULL, Dangling  \* the end of the list; what a removed entry points to

ASSUME ProcAssumption ==
    /\ IsFiniteSet(Procs)
    /\ MaxPid \in Nat /\ MaxDepth \in Nat \ {0}
    /\ NULL \notin Procs /\ Dangling \notin Procs /\ NULL # Dangling

Pids == 1..MaxPid

VARIABLES
    processes,        \* the list, ordered by pid
    pending,          \* p->pending
    pid,              \* p->pid
    do_sigchld,
    uloop_cancelled,
    stack,            \* the active calls of uloop_run, innermost first
    child,            \* the kernel: the state of each child
    unsignalled       \* ghost: children that exited while no uloop_run was
                      \* active, so that SIGCHLD had its default action

vars == <<processes, pending, pid, do_sigchld, uloop_cancelled, stack, child,
          unsignalled>>
listVars == <<processes, pending, pid>>
kernelVars == <<child, unsignalled>>

\* Code of the application is running: the main program, or a callback of a
\* timer, of an fd or of a process.
AppCode ==
    stack # <<>> => stack[1].at \in {"timerCb", "fdCb", "procCb"}

Top(place) == stack # <<>> /\ stack[1].at = place
Goto(place) == [stack EXCEPT ![1].at = place]
-----------------------------------------------------------------------------
(***************************************************************************)
(* The list.                                                               *)
(***************************************************************************)

\* mutant: a new entry goes to the head of the list
InsertPositionsHead(n) == {1}

\* The one position at which uloop_process_add links an entry with pid n: in
\* front of the first one with a greater pid.
InsertPositions(n) ==
    { k \in 1..(Len(processes) + 1) :
        /\ \A i \in 1..(k - 1) : pid[processes[i]] <= n
        /\ k <= Len(processes) => pid[processes[k]] > n }

Linked(p) == \E i \in 1..Len(processes) : processes[i] = p
PlaceOf(p) == CHOOSE i \in 1..Len(processes) : processes[i] = p

\* uloop_process_delete of a pending entry
Unlink(p) ==
    /\ processes' = RemoveAt(processes, PlaceOf(p))
    /\ pending' = [pending EXCEPT ![p] = FALSE]

First(list) == IF list = <<>> THEN NULL ELSE Head(list)

\* p->list.next: list_del sets it to NULL in an entry it removes, and
\* following that is fatal.
Successor(p) ==
    IF ~Linked(p) THEN Dangling
    ELSE IF PlaceOf(p) = Len(processes) THEN NULL
    ELSE processes[PlaceOf(p) + 1]

\* A walk whose callback is running has saved p as its next entry.  It will
\* look at p whatever becomes of it, so it is safe only to leave it with a
\* pid that ends the walk, greater than the one the walk is about.  The code
\* leaves this to the application.
SavedByWalk(p) ==
    { f \in 1..Len(stack) : stack[f].at = "procCb" /\ stack[f].cursor = p }

SafeForWalks(p, n) == \A f \in SavedByWalk(p) : n > stack[f].pid

\* uloop_process_add, for a child that nobody has waited for yet
uloop_process_add(p, n) ==
    /\ AppCode
    /\ ~pending[p]
    /\ child[n] \in {"running", "zombie"}
    /\ SafeForWalks(p, n)
    /\ pid' = [pid EXCEPT ![p] = n]
    /\ \E k \in InsertPositions(n) : processes' = InsertAt(processes, k, p)
    /\ pending' = [pending EXCEPT ![p] = TRUE]
    /\ UNCHANGED <<do_sigchld, uloop_cancelled, stack, kernelVars>>

\* uloop_process_delete by the application, which may not delete the second
\* watcher of a child from the callback of the first.
uloop_process_delete(p) ==
    /\ AppCode
    /\ pending[p]
    /\ SafeForWalks(p, pid[p])
    /\ Unlink(p)
    /\ UNCHANGED <<pid, do_sigchld, uloop_cancelled, stack, kernelVars>>

\* uloop_clear_processes, from uloop_done; it is called by the main program.
uloop_done ==
    /\ stack = <<>>
    /\ processes' = <<>>
    /\ pending' = [p \in Procs |-> FALSE]
    /\ UNCHANGED <<pid, do_sigchld, uloop_cancelled, stack, kernelVars>>
-----------------------------------------------------------------------------
(***************************************************************************)
(* Children and signals.                                                   *)
(***************************************************************************)

\* Pids grow: a pid is not given out again before all others were.
Fork(n) ==
    /\ AppCode
    /\ child[n] = "none" /\ \A m \in 1..(n - 1) : child[m] # "none"
    /\ child' = [child EXCEPT ![n] = "running"]
    /\ UNCHANGED <<listVars, do_sigchld, uloop_cancelled, stack, unsignalled>>

\* A handled signal makes epoll_wait return with EINTR; one that arrives
\* just before epoll_wait does not.
Interrupted == IF Top("asleep") THEN Goto("loop") ELSE stack

\* A child exits.  uloop_sigchld is installed while uloop_run is active.
Exit(n) ==
    /\ child[n] = "running"
    /\ child' = [child EXCEPT ![n] = "zombie"]
    /\ IF stack # <<>>
       THEN do_sigchld' = TRUE /\ UNCHANGED unsignalled
       ELSE unsignalled' = unsignalled \cup {n} /\ UNCHANGED do_sigchld
    /\ stack' = Interrupted
    /\ UNCHANGED <<listVars, uloop_cancelled>>

\* SIGINT or SIGTERM: uloop_handle_sigint
Interrupt ==
    /\ stack # <<>>
    /\ uloop_cancelled' = TRUE
    /\ stack' = Interrupted
    /\ UNCHANGED <<listVars, do_sigchld, kernelVars>>

uloop_end ==
    /\ AppCode
    /\ uloop_cancelled' = TRUE
    /\ UNCHANGED <<listVars, do_sigchld, stack, kernelVars>>
-----------------------------------------------------------------------------
(***************************************************************************)
(* uloop_run.                                                              *)
(***************************************************************************)
EnterRun ==
    /\ AppCode
    /\ Len(stack) < MaxDepth
    /\ uloop_cancelled' = FALSE
    /\ stack' = <<[at |-> "loop", pid |-> 0, cursor |-> NULL]>> \o stack
    /\ UNCHANGED <<listVars, do_sigchld, kernelVars>>

\* while (!uloop_cancelled), and the test before epoll_wait
TestCancelled(place, onward) ==
    /\ Top(place)
    /\ stack' = IF uloop_cancelled THEN Tail(stack) ELSE Goto(onward)
    /\ UNCHANGED <<listVars, do_sigchld, uloop_cancelled, kernelVars>>

LoopTest == TestCancelled("loop", "timers")
BreakTest == TestCancelled("break", "poll")

\* uloop_process_timeouts calls the expired timers.
TimerCallback ==
    /\ Top("timers")
    /\ stack' = Goto("timerCb")
    /\ UNCHANGED <<listVars, do_sigchld, uloop_cancelled, kernelVars>>

\* if (do_sigchld) uloop_handle_processes(), which clears the flag first
CheckSigchld ==
    /\ Top("timers")
    /\ stack' = Goto(IF do_sigchld THEN "waitpid" ELSE "break")
    /\ do_sigchld' = FALSE
    /\ UNCHANGED <<listVars, uloop_cancelled, kernelVars>>

\* waitpid(-1, WNOHANG) finds a dead child, and the walk starts.
WaitpidSome ==
    /\ Top("waitpid")
    /\ \E n \in Pids :
          /\ child[n] = "zombie"
          /\ child' = [child EXCEPT ![n] = "reaped"]
          /\ stack' = [stack EXCEPT ![1] =
                [at |-> "walk", pid |-> n, cursor |-> First(processes)]]
    /\ UNCHANGED <<listVars, do_sigchld, uloop_cancelled, unsignalled>>

WaitpidNone ==
    /\ Top("waitpid")
    /\ \A n \in Pids : child[n] # "zombie"
    /\ stack' = Goto("break")
    /\ UNCHANGED <<listVars, do_sigchld, uloop_cancelled, kernelVars>>

\* mutants: the walk does not stop at a greater pid; it ends one entry early
WalkNeverDone(f) == f.cursor \notin Procs
WalkDoneEarly(f) == f.cursor \in Procs => pid[f.cursor] >= f.pid

\* The walk is past the watchers of the child: the list ends, or p->pid > pid.
WalkDone(f) == f.cursor \in Procs => pid[f.cursor] > f.pid

WalkMatches(f) == pid[f.cursor] = f.pid

\* mutant: one child is waited for per signal
WalkEndsOnce ==
    /\ Top("walk")
    /\ WalkDone(stack[1])
    /\ stack' = Goto("break")
    /\ UNCHANGED <<listVars, do_sigchld, uloop_cancelled, kernelVars>>

WalkEnds ==
    /\ Top("walk")
    /\ WalkDone(stack[1])
    /\ stack' = Goto("waitpid")
    /\ UNCHANGED <<listVars, do_sigchld, uloop_cancelled, kernelVars>>

\* p->pid < pid
WalkSkips ==
    /\ Top("walk")
    /\ ~WalkDone(stack[1])
    /\ ~WalkMatches(stack[1])
    /\ stack' = [stack EXCEPT ![1].cursor = Successor(@)]
    /\ UNCHANGED <<listVars, do_sigchld, uloop_cancelled, kernelVars>>

\* p->pid == pid: the watcher is removed and its callback called, while the
\* walk remembers the entry after it.
WalkCalls ==
    /\ Top("walk")
    /\ ~WalkDone(stack[1])
    /\ WalkMatches(stack[1])
    /\ LET p == stack[1].cursor
       IN  /\ stack' = [stack EXCEPT ![1].at = "procCb",
                                     ![1].cursor = Successor(p)]
           /\ Unlink(p)
    /\ UNCHANGED <<pid, do_sigchld, uloop_cancelled, kernelVars>>

\* uloop_run_events: an event is there, or epoll_wait sleeps until one
\* comes, its timeout is over, or a signal interrupts it.
FdCallback ==
    /\ Top("poll") \/ Top("asleep")
    /\ stack' = Goto("fdCb")
    /\ UNCHANGED <<listVars, do_sigchld, uloop_cancelled, kernelVars>>

FallAsleep ==
    /\ Top("poll")
    /\ stack' = Goto("asleep")
    /\ UNCHANGED <<listVars, do_sigchld, uloop_cancelled, kernelVars>>

PollTimesOut ==
    /\ Top("asleep")
    /\ stack' = Goto("loop")
    /\ UNCHANGED <<listVars, do_sigchld, uloop_cancelled, kernelVars>>

CallbackReturns ==
    /\ AppCode
    /\ stack # <<>>
    /\ stack' = Goto(CASE stack[1].at = "timerCb" -> "timers"
                       [] stack[1].at = "procCb"  -> "walk"
                       [] stack[1].at = "fdCb"    -> "loop")
    /\ UNCHANGED <<listVars, do_sigchld, uloop_cancelled, kernelVars>>
-----------------------------------------------------------------------------
Init ==
    /\ processes = <<>>
    /\ pending = [p \in Procs |-> FALSE]
    /\ pid = [p \in Procs |-> 0]
    /\ do_sigchld = FALSE
    /\ uloop_cancelled = FALSE
    /\ stack = <<>>
    /\ child = [n \in Pids |-> "none"]
    /\ unsignalled = {}

Next ==
    \/ \E p \in Procs :
          \/ \E n \in Pids : uloop_process_add(p, n)
          \/ uloop_process_delete(p)
    \/ \E n \in Pids : Fork(n) \/ Exit(n)
    \/ uloop_done
    \/ Interrupt
    \/ uloop_end
    \/ EnterRun
    \/ LoopTest
    \/ TimerCallback
    \/ CheckSigchld
    \/ WaitpidSome
    \/ WaitpidNone
    \/ WalkEnds
    \/ WalkSkips
    \/ WalkCalls
    \/ BreakTest
    \/ FdCallback
    \/ FallAsleep
    \/ PollTimesOut
    \/ CallbackReturns

Spec == Init /\ [][Next]_vars

(***************************************************************************)
(* The thread of the program runs on, callbacks return, and the timers     *)
(* that have expired are finite, because uloop_process_timeouts compares   *)
(* with a time taken before it.  Nothing is assumed about when epoll_wait  *)
(* returns.                                                                *)
(***************************************************************************)
Fairness ==
    /\ WF_vars(LoopTest \/ WaitpidSome \/ WaitpidNone \/ WalkEnds
                \/ WalkSkips \/ WalkCalls \/ BreakTest
                \/ FallAsleep)
    /\ SF_vars(CheckSigchld)
    /\ SF_vars(CallbackReturns)

FairSpec == Spec /\ Fairness
-----------------------------------------------------------------------------
Walking(f) == f.at \in {"walk", "procCb"}

(***************************************************************************)
(* The list holds exactly the pending processes, once each, by ascending   *)
(* pid: the walk of uloop_handle_processes stops at the first greater one. *)
(***************************************************************************)
ListSorted ==
    /\ \A p \in Procs : pending[p] <=> Linked(p)
    /\ \A i, j \in 1..Len(processes) :
          i < j => /\ processes[i] # processes[j]
                   /\ pid[processes[i]] <= pid[processes[j]]

(***************************************************************************)
(* The walk over the list never reads through a removed entry: the entry   *)
(* it saved before a callback may be removed by the callback, or by a loop *)
(* nested in it, but then its pid is greater than the one looked for and   *)
(* the walk stops there.                                                   *)
(***************************************************************************)
WalkNotLost ==
    \A i \in 1..Len(stack) : stack[i].at = "walk" => stack[i].cursor # Dangling

(***************************************************************************)
(* A child that exited under a uloop_run is not forgotten: as long as one  *)
(* is watched and nobody waited for it, the flag is set or a waitpid loop  *)
(* is still under way.                                                     *)
(***************************************************************************)
ZombieNoticed ==
    \A p \in Procs :
        /\ pending[p]
        /\ child[pid[p]] = "zombie"
        /\ pid[p] \notin unsignalled
        => \/ do_sigchld
           \/ \E i \in 1..Len(stack) : Walking(stack[i])
                                          \/ stack[i].at = "waitpid"

(***************************************************************************)
(* A watcher of a child that was waited for, which the kernel will not     *)
(* report again, is still ahead of the walk for that child: no watcher is  *)
(* left behind, however the callbacks change the list.                     *)
(***************************************************************************)
NoWatcherLeftBehind ==
    \A p \in Procs :
        pending[p] /\ child[pid[p]] = "reaped" =>
            \E f \in 1..Len(stack) : \E i, j \in 1..Len(processes) :
                /\ Walking(stack[f])
                /\ stack[f].pid = pid[p]
                /\ processes[i] = stack[f].cursor
                /\ processes[j] = p
                /\ i <= j

(***************************************************************************)
(* A watched child that exited under a uloop_run is waited for, or the     *)
(* program leaves the loop, provided that epoll_wait does not sleep        *)
(* forever and that process callbacks come to an end.  Both are needed: a  *)
(* SIGCHLD between the test of do_sigchld and epoll_wait wakes nobody, and *)
(* a loop nested in a process callback does not see the flag that the      *)
(* waitpid loop around it has cleared.                                     *)
(***************************************************************************)
ZombieReaped ==
    /\ []<>~Top("asleep")
    /\ []<>(\A i \in 1..Len(stack) : stack[i].at # "procCb")
    => \A n \in Pids :
          (child[n] = "zombie" /\ n \notin unsignalled)
              ~> (child[n] = "reaped" \/ stack = <<>>)
=============================================================================
