---------------------------- MODULE UloopSignals ----------------------------
(***************************************************************************)
(* The signal dispositions that uloop_run changes and restores:            *)
(* uloop_setup_signals is called by the outermost of nested calls, before  *)
(* its loop and after it, while the application may set dispositions of    *)
(* its own before, between and during the runs.                            *)
(***************************************************************************)
EXTENDS Integers

CONSTANT MaxDepth \* bound on nested calls of uloop_run
ASSUME DepthAssumption == MaxDepth \in Nat \ {0}

Handled == {"SIGINT", "SIGTERM", "SIGCHLD"}  \* given a handler by the loop
Signals == Handled \cup {"SIGPIPE"}          \* and ignored by it

\* SIG_DFL, SIG_IGN, a handler of the application, the handler of uloop
Dispositions == {"DFL", "IGN", "custom", "uloop"}

VARIABLES
    handler,          \* the kernel: sa_handler of each signal
    old,              \* old_sigint, old_sigterm and old_sigchld
    recursive_calls,
    before,           \* ghost: the dispositions when the outermost run began
    touched           \* ghost: signals the application changed since then

vars == <<handler, old, recursive_calls, before, touched>>
-----------------------------------------------------------------------------
InstallAlways(h, o) == \* mutant: any disposition is overridden
    <<[s \in Signals |-> IF s \in Handled THEN "uloop" ELSE h[s]],
      [s \in Handled |-> h[s]]>>

\* uloop_install_handler with add, for each of the three signals: the
\* dispositions and the saved ones after it
Install(h, o) ==
    LET free == {s \in Handled : h[s] = "DFL"}
    IN  <<[s \in Signals |-> IF s \in free THEN "uloop" ELSE h[s]],
          [s \in Handled |-> IF s \in free THEN h[s] ELSE o[s]]>>

\* uloop_install_handler without add
Uninstall(h, o) ==
    [s \in Signals |-> IF s \in Handled /\ h[s] = "uloop" THEN o[s] ELSE h[s]]

\* uloop_ignore_signal(SIGPIPE, ignore).  new_handler starts as NULL, and so
\* does SIG_DFL: "DFL" stands for both, and `if (new_handler)` is # "DFL".
uloop_ignore_signal(h, ignore) ==
    LET new_handler == IF ignore /\ h["SIGPIPE"] = "DFL" THEN "IGN" ELSE "DFL"
    IN  IF new_handler # "DFL" THEN [h EXCEPT !["SIGPIPE"] = new_handler] ELSE h
-----------------------------------------------------------------------------
\* uloop_run: the first of the nested calls sets the signals up.
EnterRun ==
    /\ recursive_calls < MaxDepth
    /\ recursive_calls' = recursive_calls + 1
    /\ IF recursive_calls = 0
       THEN LET installed == Install(handler, old)
            IN  /\ handler' = uloop_ignore_signal(installed[1], TRUE)
                /\ old' = installed[2]
                /\ before' = handler
                /\ touched' = {}
       ELSE UNCHANGED <<handler, old, before, touched>>

\* mutant: every return from a nested call restores the signals
LeaveRunAlways ==
    /\ recursive_calls > 0
    /\ recursive_calls' = recursive_calls - 1
    /\ handler' = uloop_ignore_signal(Uninstall(handler, old), FALSE)
    /\ UNCHANGED <<old, before, touched>>

\* The end of uloop_run: the last of them restores the signals.
LeaveRun ==
    /\ recursive_calls > 0
    /\ recursive_calls' = recursive_calls - 1
    /\ handler' = IF recursive_calls = 1
                  THEN uloop_ignore_signal(Uninstall(handler, old), FALSE)
                  ELSE handler
    /\ UNCHANGED <<old, before, touched>>

\* The application calls sigaction, anywhere.
Sigaction(s, d) ==
    /\ d \in Dispositions \ {"uloop", handler[s]}
    /\ handler' = [handler EXCEPT ![s] = d]
    /\ touched' = touched \cup {s}
    /\ UNCHANGED <<old, recursive_calls, before>>

Init ==
    /\ handler \in [Signals -> {"DFL", "IGN"}] \* as inherited through exec
    /\ old = [s \in Handled |-> "DFL"]         \* static storage: zeroes
    /\ recursive_calls = 0
    /\ before = handler
    /\ touched = {}

Next ==
    \/ EnterRun
    \/ LeaveRun
    \/ \E s \in Signals, d \in Dispositions : Sigaction(s, d)

Spec == Init /\ [][Next]_vars
-----------------------------------------------------------------------------
(***************************************************************************)
(* A signal the application left at its default is handled by uloop        *)
(* throughout the outermost run, nested runs that end inside it included,  *)
(* and when that run is done, SIGINT, SIGTERM and SIGCHLD have the         *)
(* dispositions they had before it, save where the application itself has  *)
(* changed them since: "restored when this call is done".                  *)
(***************************************************************************)
HandledDuringRuns ==
    \A s \in Handled :
        /\ recursive_calls = 0 =>
              /\ handler[s] # "uloop"
              /\ s \notin touched => handler[s] = before[s]
        /\ recursive_calls > 0 /\ s \notin touched /\ before[s] = "DFL"
              => handler[s] = "uloop"

\* SIGPIPE is ignored because uloop_run did so, not the application.
IgnoredByLoop(s) ==
    /\ s = "SIGPIPE"
    /\ recursive_calls > 0
    /\ before[s] = "DFL"
    /\ s \notin touched

(***************************************************************************)
(* What the application has chosen stays, be it a handler or SIG_IGN, when *)
(* a run begins, however deep, and when it ends: "Do not override existing *)
(* custom signal handlers", "Do not restore if someone modified our        *)
(* handler" (uloop_install_handler), and for SIGPIPE "Ignore only if there *)
(* isn't any custom handler" (uloop_ignore_signal).  What uloop_run itself *)
(* has set, SIG_IGN for SIGPIPE included, it may take back.                *)
(***************************************************************************)
CustomKept ==
    [][\A s \in Signals :
          /\ EnterRun \/ LeaveRun
          /\ handler[s] \in {"custom", "IGN"}
          /\ ~IgnoredByLoop(s)
          => handler'[s] = handler[s]]_vars

(***************************************************************************)
(* SIGPIPE too is restored when the outermost call is done: the comment in *)
(* uloop_run says so of the handlers, and uloop_ignore_signal has a branch *)
(* for it, "Restore only if noone modified our SIG_IGN".                   *)
(***************************************************************************)
SigpipeRestored ==
    recursive_calls = 0 /\ "SIGPIPE" \notin touched
        => handler["SIGPIPE"] = before["SIGPIPE"]
=============================================================================
