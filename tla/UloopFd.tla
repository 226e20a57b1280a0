------------------------------ MODULE UloopFd ------------------------------
(***************************************************************************)
(* File descriptors of the uloop event loop, with the epoll backend: the   *)
(* batch cur_fds that epoll_wait filled and that is dispatched one entry   *)
(* at a time, the stack fd_stack of callbacks that are running, and the    *)
(* operations uloop_fd_add and uloop_fd_delete.                            *)
(*                                                                         *)
(* A callback may run uloop_run recursively, which goes on with the batch  *)
(* of the outer loop.  Between any two dispatches a timer or a process     *)
(* callback may use the operations too, so they are always enabled.  The   *)
(* kernel's side of epoll is external: it is modelled by what the code     *)
(* relies on.  fd->eof, which is set beside the events and which only      *)
(* applications read, is left out.                                         *)
(***************************************************************************)
EXTENDS Integers, Sequences, SequencesExt, FiniteSets

CONSTANTS
    Fds,        \* the struct uloop_fd objects of the application
    EdgeFds,    \* those it always adds with ULOOP_EDGE_TRIGGER
    ErrorFds,   \* those it always adds with ULOOP_ERROR_CB
    Events,     \* ULOOP_READ and ULOOP_WRITE, or one of them
    MaxEvents,  \* ULOOP_MAX_EVENTS
    MaxDepth,   \* bound on the nesting of callbacks
    NULL, HUP   \* no fd; the event EPOLLHUP (or EPOLLERR)

ASSUME FdAssumption ==
    /\ IsFiniteSet(Fds)
    /\ EdgeFds \subseteq Fds
    /\ ErrorFds \subseteq Fds
    /\ NULL \notin Fds
    /\ HUP \notin Events
    /\ \A ev \in SUBSET Events : ev # NULL
    /\ MaxEvents \in Nat \ {0}
    /\ MaxDepth \in Nat

VARIABLES
    registered,  \* fd->registered
    flags,       \* fd->flags, of which ET is the member "ET"
    error,       \* fd->error
    cur_fds,     \* what is left of the batch: cur_fds[cur_fd ..]
    fd_stack,    \* the running callbacks, innermost first
    inLoop,      \* the innermost active code is uloop_run, not a callback
    poll_fd,     \* poll_fd >= 0
    interest,    \* the kernel: what each fd is polled for, or NULL
    ready,       \* the kernel: the conditions that hold of each fd
    armed,       \* the kernel: an edge that was not reported yet
    deleted,     \* ghost: the application deleted the fd, or never added it
    owed,        \* ghost: edges taken from the kernel but not delivered
    reopened     \* ghost: uloop_done was called

vars == <<registered, flags, error, cur_fds, fd_stack, inLoop, poll_fd,
          interest, ready, armed, deleted, owed, reopened>>
kernelVars == <<interest, ready, armed>>
-----------------------------------------------------------------------------
(***************************************************************************)
(* uloop_fd_stack_event.  A callback frame buffers events of its fd if the *)
(* fd is edge-triggered at that moment; `fd` becomes NULL when it is       *)
(* deleted.  Only the innermost frame of the fd is looked at.              *)
(***************************************************************************)
FrameOf(stack, fd) ==
    { i \in 1..Len(stack) : /\ stack[i].fd = fd
                            /\ \A j \in 1..(i - 1) : stack[j].fd # fd }

BuffersNothing(fl, stack, fd) == FALSE \* mutant: no check of the stack

Buffers(fl, stack, fd) == "ET" \in fl[fd] /\ FrameOf(stack, fd) # {}

StackForget(fl, stack, fd) ==
    [i \in 1..Len(stack) |->
        IF "ET" \in fl[fd] /\ i \in FrameOf(stack, fd)
        THEN [stack[i] EXCEPT !.fd = NULL]
        ELSE stack[i]]
-----------------------------------------------------------------------------
(***************************************************************************)
(* epoll, as the code uses it.  Adding or modifying an fd arms it again.   *)
(***************************************************************************)
Reportable(fd) ==
    /\ interest[fd] # NULL
    /\ ready[fd] \cap (interest[fd] \cup {HUP}) # {}
    /\ fd \in EdgeFds => armed[fd]

EpollCtl(fd, what) ==
    /\ interest' = [interest EXCEPT ![fd] = what]
    /\ armed' = [armed EXCEPT ![fd] = TRUE]
    /\ UNCHANGED ready

\* A condition of the open file becomes true, or true again.
Arrive(fd, e) ==
    /\ ~(e \in ready[fd] /\ armed[fd])
    /\ ready' = [ready EXCEPT ![fd] = @ \cup {e}]
    /\ armed' = [armed EXCEPT ![fd] = TRUE]
    /\ UNCHANGED <<registered, flags, error, cur_fds, fd_stack, inLoop,
                   poll_fd, interest, deleted, owed, reopened>>

\* The application reads or writes until the condition is gone.
Consume(fd, e) ==
    /\ ~inLoop
    /\ e \in ready[fd]
    /\ ready' = [ready EXCEPT ![fd] = @ \ {e}]
    /\ UNCHANGED <<registered, flags, error, cur_fds, fd_stack, inLoop,
                   poll_fd, interest, armed, deleted, owed, reopened>>
-----------------------------------------------------------------------------
(***************************************************************************)
(* The operations.                                                         *)
(***************************************************************************)

ForgetNothing(batch, fd) == batch \* mutant: the batch is not cleaned

\* cur_fds with the entries of fd set to NULL
Forget(batch, fd) ==
    [i \in 1..Len(batch) |->
        IF batch[i].fd = fd THEN [batch[i] EXCEPT !.fd = NULL] ELSE batch[i]]

\* uloop_fd_delete: the batch is cleaned even if the fd is not registered,
\* because epoll errors unregister it behind the application's back.
Delete(fd) ==
    /\ cur_fds' = Forget(cur_fds, fd)
    /\ IF registered[fd]
       THEN /\ registered' = [registered EXCEPT ![fd] = FALSE]
            /\ fd_stack' = StackForget(flags, fd_stack, fd)
            /\ flags' = [flags EXCEPT ![fd] = {}]
            /\ interest' = [interest EXCEPT ![fd] = NULL]
       ELSE UNCHANGED <<registered, fd_stack, flags, interest>>
    /\ deleted' = [deleted EXCEPT ![fd] = TRUE]
    /\ owed' = [owed EXCEPT ![fd] = {}]
    /\ UNCHANGED <<error, inLoop, poll_fd, ready, armed, reopened>>

uloop_fd_delete(fd) == Delete(fd)

\* register_poll succeeds: EPOLL_CTL_ADD of a new fd, _MOD of a known one.
AddSucceeds(fd, ev) ==
    /\ poll_fd
    /\ registered[fd] <=> interest[fd] # NULL
    /\ registered' = [registered EXCEPT ![fd] = TRUE]
    /\ error' = [error EXCEPT ![fd] = FALSE]
    /\ deleted' = [deleted EXCEPT ![fd] = FALSE]
    /\ EpollCtl(fd, ev)

\* mutant: the fd counts as registered when that fails
AddFailsRegistering(fd) ==
    /\ registered' = [registered EXCEPT ![fd] = TRUE]
    /\ UNCHANGED <<error, deleted, kernelVars>>

\* It fails: a bad fd, no memory, EPOLL_CTL_MOD of an unknown fd.
AddFails(fd) == UNCHANGED <<registered, error, deleted, kernelVars>>

\* uloop_fd_add with the events ev and the mode of the fd.  register_poll
\* writes fd->flags before epoll_ctl, which may fail.
uloop_fd_add(fd, ev) ==
    LET mode == (IF fd \in EdgeFds THEN {"ET"} ELSE {})
                   \cup (IF fd \in ErrorFds THEN {"ERROR_CB"} ELSE {})
    IN  IF ev = {}
        THEN Delete(fd)
        ELSE /\ flags' = [flags EXCEPT ![fd] = mode]
             /\ AddSucceeds(fd, ev) \/ AddFails(fd)
             /\ UNCHANGED <<cur_fds, fd_stack, inLoop, poll_fd, owed, reopened>>

\* uloop_done and uloop_init: the fds stay marked as registered.
uloop_done ==
    /\ poll_fd
    /\ poll_fd' = FALSE
    /\ interest' = [fd \in Fds |-> NULL]
    /\ reopened' = TRUE
    /\ UNCHANGED <<registered, flags, error, cur_fds, fd_stack, inLoop,
                   ready, armed, deleted, owed>>

uloop_init ==
    /\ ~poll_fd
    /\ poll_fd' = TRUE
    /\ UNCHANGED <<registered, flags, error, cur_fds, fd_stack, inLoop,
                   kernelVars, deleted, owed, reopened>>
-----------------------------------------------------------------------------
(***************************************************************************)
(* The loop.                                                               *)
(***************************************************************************)

\* uloop_run is called by the main program or by a callback, and returns.
EnterRun ==
    /\ ~inLoop
    /\ Len(fd_stack) < MaxDepth
    /\ inLoop' = TRUE
    /\ UNCHANGED <<registered, flags, error, cur_fds, fd_stack, poll_fd,
                   kernelVars, deleted, owed, reopened>>

LeaveRun ==
    /\ inLoop
    /\ inLoop' = FALSE
    /\ UNCHANGED <<registered, flags, error, cur_fds, fd_stack, poll_fd,
                   kernelVars, deleted, owed, reopened>>

\* Batches epoll_wait may return: all reportable fds, up to the limit, in
\* some order.
Batches ==
    LET R == {fd \in Fds : Reportable(fd)}
        n == IF Cardinality(R) < MaxEvents THEN Cardinality(R) ELSE MaxEvents
    IN  {b \in [1..n -> R] : \A i, j \in 1..n : b[i] = b[j] => i = j}

\* The events of a reported fd that the callback is told of.
ReportedEvents(fd) == ready[fd] \cap interest[fd]

\* uloop_fetch_events.  An fd in error that has no error callback is deleted
\* from here; its entry stays in the batch, so that its callback learns of
\* the error.  Events that a running callback of it had buffered are lost
\* with the frame: the fd is deleted.
uloop_fetch_events(b) ==
    LET reported(fd) == \E i \in 1..Len(b) : b[i] = fd
        inError(fd)  == reported(fd) /\ HUP \in ready[fd]
        dropped(fd)  == inError(fd) /\ "ERROR_CB" \notin flags[fd]
    IN  /\ cur_fds' = [i \in 1..Len(b) |->
              [fd |-> b[i], events |-> ReportedEvents(b[i])]]
        /\ error' = [fd \in Fds |-> error[fd] \/ inError(fd)]
        /\ registered' = [fd \in Fds |-> registered[fd] /\ ~dropped(fd)]
        /\ flags' = [fd \in Fds |->
                        IF dropped(fd) /\ registered[fd] THEN {} ELSE flags[fd]]
        /\ fd_stack' = [i \in 1..Len(fd_stack) |->
                          IF /\ fd_stack[i].fd # NULL
                             /\ dropped(fd_stack[i].fd)
                             /\ registered[fd_stack[i].fd]
                             /\ "ET" \in flags[fd_stack[i].fd]
                             /\ i \in FrameOf(fd_stack, fd_stack[i].fd)
                          THEN [fd_stack[i] EXCEPT !.fd = NULL]
                          ELSE fd_stack[i]]
        /\ interest' = [fd \in Fds |->
                           IF dropped(fd) /\ registered[fd] THEN NULL
                           ELSE interest[fd]]
        /\ armed' = [fd \in Fds |-> armed[fd] /\ ~reported(fd)]
        /\ owed' = [fd \in Fds |->
                       IF ~reported(fd) \/ fd \notin EdgeFds THEN owed[fd]
                       ELSE IF dropped(fd) THEN ReportedEvents(fd)
                       ELSE owed[fd] \cup ReportedEvents(fd)]

\* uloop_run_events on an empty batch: fetch one.  The dispatch is below.
Fetch ==
    /\ inLoop
    /\ cur_fds = <<>>
    /\ poll_fd
    /\ \E b \in Batches : b # <<>> /\ uloop_fetch_events(b)
    /\ UNCHANGED <<inLoop, poll_fd, ready, deleted, reopened>>

\* The entries of the batch that are skipped, being deleted or buffered.
Skipped(e) == e.fd # NULL => Buffers(flags, fd_stack, e.fd)

FirstCallable ==
    { k \in 1..Len(cur_fds) : /\ ~Skipped(cur_fds[k])
                              /\ \A i \in 1..(k - 1) : Skipped(cur_fds[i]) }

BufferedNothing(n) == fd_stack \* mutant: they are dropped instead

\* fd_stack after the events of the entries 1..n of the batch are buffered
Buffered(n) ==
    [i \in 1..Len(fd_stack) |->
        [fd_stack[i] EXCEPT !.events = @ \cup
            UNION { cur_fds[j].events :
                    j \in {m \in 1..n : /\ cur_fds[m].fd # NULL
                                        /\ "ET" \in flags[cur_fds[m].fd]
                                        /\ i \in FrameOf(fd_stack,
                                                    cur_fds[m].fd)} }]]

\* uloop_run_events: skip to the first entry that can be called, and call it.
Dispatch ==
    /\ inLoop
    /\ Len(fd_stack) < MaxDepth
    /\ \E k \in FirstCallable :
          LET fd == cur_fds[k].fd
          IN  /\ fd_stack' = <<[fd |-> fd, cb |-> fd, events |-> {}]>>
                                \o Buffered(k - 1)
              /\ cur_fds' = SubSeq(cur_fds, k + 1, Len(cur_fds))
              /\ owed' = [owed EXCEPT ![fd] = @ \ cur_fds[k].events]
    /\ inLoop' = FALSE
    /\ UNCHANGED <<registered, flags, error, poll_fd, kernelVars, deleted,
                   reopened>>

\* The same when every entry is skipped: no callback runs.
DispatchNone ==
    /\ inLoop
    /\ cur_fds # <<>>
    /\ \A k \in 1..Len(cur_fds) : Skipped(cur_fds[k])
    /\ fd_stack' = Buffered(Len(cur_fds))
    /\ cur_fds' = <<>>
    /\ UNCHANGED <<registered, flags, error, inLoop, poll_fd, kernelVars,
                   deleted, owed, reopened>>

\* fd->cb returns: it is called again for events that were buffered while it
\* ran, unless the fd was deleted.
CallbackAgain ==
    /\ ~inLoop
    /\ fd_stack # <<>>
    /\ fd_stack[1].fd # NULL
    /\ fd_stack[1].events # {}
    /\ fd_stack' = [fd_stack EXCEPT ![1].events = {}]
    /\ owed' = [owed EXCEPT ![fd_stack[1].cb] = @ \ fd_stack[1].events]
    /\ UNCHANGED <<registered, flags, error, cur_fds, inLoop, poll_fd,
                   kernelVars, deleted, reopened>>

CallbackReturns ==
    /\ ~inLoop
    /\ fd_stack # <<>>
    /\ fd_stack[1].fd = NULL \/ fd_stack[1].events = {}
    /\ fd_stack' = Tail(fd_stack)
    /\ inLoop' = TRUE
    /\ UNCHANGED <<registered, flags, error, cur_fds, poll_fd, kernelVars,
                   deleted, owed, reopened>>
-----------------------------------------------------------------------------
Init ==
    /\ registered = [fd \in Fds |-> FALSE]
    /\ flags = [fd \in Fds |-> {}]
    /\ error = [fd \in Fds |-> FALSE]
    /\ cur_fds = <<>>
    /\ fd_stack = <<>>
    /\ inLoop = FALSE
    /\ poll_fd = TRUE
    /\ interest = [fd \in Fds |-> NULL]
    /\ ready = [fd \in Fds |-> {}]
    /\ armed = [fd \in Fds |-> FALSE]
    /\ deleted = [fd \in Fds |-> TRUE]
    /\ owed = [fd \in Fds |-> {}]
    /\ reopened = FALSE

Next ==
    \/ \E fd \in Fds :
          \/ \E e \in Events \cup {HUP} : Arrive(fd, e)
          \/ \E e \in Events : Consume(fd, e)
          \/ \E ev \in SUBSET Events : uloop_fd_add(fd, ev)
          \/ uloop_fd_delete(fd)
    \/ uloop_done
    \/ uloop_init
    \/ EnterRun
    \/ LeaveRun
    \/ Fetch
    \/ Dispatch
    \/ DispatchNone
    \/ CallbackAgain
    \/ CallbackReturns

Spec == Init /\ [][Next]_vars
-----------------------------------------------------------------------------
(***************************************************************************)
(* No callback is called for an fd that the application has deleted and    *)
(* not added again, whether its event waits in the batch or is buffered in *)
(* a frame when it is deleted, and whichever callback deletes it.  An fd   *)
(* that uloop_fetch_events has deleted for an error is still called, for   *)
(* the event in the batch, and can tell by fd->error: it is the only way a *)
(* callback of an unregistered fd is called.                               *)
(***************************************************************************)
NoCallbackAfterDelete ==
    [][Dispatch \/ CallbackAgain =>
          LET fd == fd_stack'[1].cb
          IN  ~deleted[fd] /\ (registered[fd] \/ error[fd])]_vars

(***************************************************************************)
(* An edge that was taken from the kernel, which will not report it again, *)
(* is still in the batch or in the frame of a running callback until the   *)
(* callback was called with it or the fd was deleted.                      *)
(***************************************************************************)
EdgesKept ==
    \A fd \in EdgeFds : \A e \in owed[fd] :
        \/ \E i \in 1..Len(cur_fds) :
              cur_fds[i].fd = fd /\ e \in cur_fds[i].events
        \/ \E i \in 1..Len(fd_stack) :
              fd_stack[i].fd = fd /\ e \in fd_stack[i].events

(***************************************************************************)
(* However deep the loops are nested, the callback of an edge-triggered fd *)
(* is entered again while it runs only if the running call was cut off:    *)
(* the fd was deleted meanwhile, by the application or by                  *)
(* uloop_fetch_events for an error, and the callback will not be called    *)
(* again from that frame.                                                  *)
(***************************************************************************)
NotReentered ==
    \A fd \in EdgeFds : \A i, j \in 1..Len(fd_stack) :
        i < j /\ fd_stack[i].cb = fd /\ fd_stack[j].cb = fd
            => fd_stack[j].fd = NULL

(***************************************************************************)
(* Until uloop_done, fd->registered is what the kernel knows: the choice   *)
(* between EPOLL_CTL_ADD and EPOLL_CTL_MOD is right.                       *)
(***************************************************************************)
RegisteredIffPolled ==
    ~reopened => \A fd \in Fds : registered[fd] <=> interest[fd] # NULL
=============================================================================
