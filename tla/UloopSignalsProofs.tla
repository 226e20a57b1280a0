------------------------- MODULE UloopSignalsProofs -------------------------
(***************************************************************************)
(* Proofs about UloopSignals, for every bound on the nesting of uloop_run. *)
(*                                                                         *)
(* HandledDuringRuns is not inductive: that uloop_setup_signals restores   *)
(* the right disposition rests on what it has saved, which the property    *)
(* does not mention.  The invariant adds that a signal that has the        *)
(* handler of uloop had the default disposition when the outermost run     *)
(* began, and that this is what was saved for it (InstalledOverDefault).   *)
(***************************************************************************)
EXTENDS UloopSignals, TLAPS
-----------------------------------------------------------------------------
TypeOK ==
    /\ handler \in [Signals -> Dispositions]
    /\ old \in [Handled -> Dispositions]
    /\ recursive_calls \in Nat
    /\ before \in [Signals -> Dispositions]
    /\ touched \subseteq Signals

\* The handler of uloop is in place of the default only.
InstalledOverDefault ==
    \A s \in Handled :
        handler[s] = "uloop" => /\ recursive_calls > 0
                                /\ old[s] = "DFL"
                                /\ before[s] = "DFL"

\* What the application did not touch during the run is as it was before,
\* but for the handler of uloop in place of the default.
UntouchedKept ==
    \A s \in Handled \ touched :
        IF recursive_calls > 0 /\ before[s] = "DFL"
        THEN handler[s] = "uloop"
        ELSE handler[s] = before[s]

Inv == TypeOK /\ InstalledOverDefault /\ UntouchedKept
-----------------------------------------------------------------------------
(* What uloop_install_handler and uloop_ignore_signal leave of the         *)
(* dispositions when the outermost run begins, and what they save.         *)
LEMMA SetUpFacts ==
    ASSUME TypeOK, EnterRun, recursive_calls = 0
    PROVE  /\ handler' \in [Signals -> Dispositions]
           /\ old' \in [Handled -> Dispositions]
           /\ \A s \in Handled :
                 /\ handler[s] = "DFL"
                       => handler'[s] = "uloop" /\ old'[s] = "DFL"
                 /\ handler[s] # "DFL"
                       => handler'[s] = handler[s] /\ old'[s] = old[s]
           /\ handler["SIGPIPE"] # "DFL"
                 => handler'["SIGPIPE"] = handler["SIGPIPE"]
<1> DEFINE free == {s \in Handled : handler[s] = "DFL"}
           i == [s \in Signals |-> IF s \in free THEN "uloop" ELSE handler[s]]
           o == [s \in Handled |-> IF s \in free THEN handler[s] ELSE old[s]]
<1>1. handler' = uloop_ignore_signal(i, TRUE) /\ old' = o
  BY DEF EnterRun, Install
<1>2. /\ i \in [Signals -> Dispositions]
      /\ i["SIGPIPE"] = handler["SIGPIPE"]
      /\ \A s \in Handled :
            i[s] = IF handler[s] = "DFL" THEN "uloop" ELSE handler[s]
  BY DEF TypeOK, Signals, Handled, Dispositions
<1>3. /\ o \in [Handled -> Dispositions]
      /\ \A s \in Handled :
            o[s] = IF handler[s] = "DFL" THEN "DFL" ELSE old[s]
  BY DEF TypeOK, Signals, Dispositions
<1> HIDE DEF i, o
<1>4. handler' = IF handler["SIGPIPE"] = "DFL"
                 THEN [i EXCEPT !["SIGPIPE"] = "IGN"] ELSE i
  BY <1>1, <1>2 DEF uloop_ignore_signal
<1>5. \A s \in Handled : s # "SIGPIPE"
  BY DEF Handled
<1>6. "IGN" \in Dispositions
  BY DEF Dispositions
<1> QED
  BY <1>1, <1>2, <1>3, <1>4, <1>5, <1>6 DEF Signals

(* What they leave when the outermost run ends.                            *)
LEMMA RestoreFacts ==
    ASSUME TypeOK, LeaveRun, recursive_calls = 1
    PROVE  /\ handler' \in [Signals -> Dispositions]
           /\ \A s \in Handled :
                 handler'[s] = IF handler[s] = "uloop" THEN old[s]
                               ELSE handler[s]
           /\ handler'["SIGPIPE"] = handler["SIGPIPE"]
<1>1. handler' = Uninstall(handler, old)
  BY DEF LeaveRun, uloop_ignore_signal
<1> QED
  BY <1>1 DEF TypeOK, Uninstall, Signals, Handled

(* uloop_run begins. *)
LEMMA EnterRunInv == ASSUME Inv, EnterRun PROVE Inv'
<1>3. TypeOK /\ InstalledOverDefault /\ UntouchedKept
  BY DEF Inv
<1>1. CASE recursive_calls = 0
  <2>1. before' = handler /\ touched' = {} /\ recursive_calls' = 1
    BY <1>1 DEF EnterRun
  <2>2. TypeOK'
    BY <1>1, <1>3, <2>1, SetUpFacts DEF TypeOK
  <2>3. \A s \in Handled : handler[s] # "uloop"
    BY <1>1, <1>3 DEF InstalledOverDefault
  <2>4. \A s \in Handled :
           /\ before'[s] = "DFL" => handler'[s] = "uloop" /\ old'[s] = "DFL"
           /\ before'[s] # "DFL" => handler'[s] = before'[s]
    BY <1>1, <1>3, <2>1, SetUpFacts
  <2>5. InstalledOverDefault'
    BY <2>1, <2>3, <2>4 DEF InstalledOverDefault
  <2>6. UntouchedKept'
    BY <2>1, <2>4 DEF UntouchedKept
  <2> QED
    BY <2>2, <2>5, <2>6 DEF Inv
<1>2. CASE recursive_calls # 0
  <2>1. /\ recursive_calls > 0 /\ recursive_calls' > 0
        /\ recursive_calls' \in Nat
        /\ UNCHANGED <<handler, old, before, touched>>
    BY <1>2, <1>3 DEF EnterRun, TypeOK
  <2> QED
    BY <1>3, <2>1 DEF Inv, TypeOK, InstalledOverDefault, UntouchedKept
<1> QED
  BY <1>1, <1>2

(* uloop_run ends. *)
LEMMA LeaveRunInv == ASSUME Inv, LeaveRun PROVE Inv'
<1> USE DEF Inv
<1>1. /\ recursive_calls \in Nat \ {0} /\ recursive_calls' = recursive_calls - 1
      /\ UNCHANGED <<old, before, touched>>
  BY DEF LeaveRun, TypeOK
<1>2. CASE recursive_calls = 1
  <2>2. /\ handler' \in [Signals -> Dispositions]
        /\ \A s \in Handled :
              handler'[s] = IF handler[s] = "uloop" THEN old[s] ELSE handler[s]
    BY <1>2, RestoreFacts
  <2>3. TypeOK'
    BY <1>1, <2>2 DEF TypeOK
  <2>4. InstalledOverDefault'
    BY <2>2 DEF InstalledOverDefault
  <2>5. UntouchedKept'
    BY <1>1, <1>2, <2>2 DEF UntouchedKept, InstalledOverDefault
  <2> QED
    BY <2>3, <2>4, <2>5
<1>3. CASE recursive_calls # 1
  <2>1. recursive_calls' > 0 /\ recursive_calls > 0 /\ handler' = handler
    BY <1>1, <1>3 DEF LeaveRun
  <2> QED
    BY <1>1, <2>1 DEF TypeOK, InstalledOverDefault, UntouchedKept
<1> QED
  BY <1>2, <1>3

(* The application calls sigaction. *)
LEMMA SigactionInv ==
    ASSUME Inv, NEW s \in Signals, NEW d \in Dispositions, Sigaction(s, d)
    PROVE  Inv'
  BY DEF Inv, Sigaction, TypeOK, InstalledOverDefault, UntouchedKept, Signals

LEMMA InvAlways == Spec => []Inv
<1>1. Init => Inv
  BY DEF Init, Inv, TypeOK, InstalledOverDefault, UntouchedKept, Signals,
         Handled, Dispositions
<1>2. Inv /\ [Next]_vars => Inv'
  <2> SUFFICES ASSUME Inv, [Next]_vars PROVE Inv'
    OBVIOUS
  <2>1. CASE UNCHANGED vars
    BY <2>1 DEF vars, Inv, TypeOK, InstalledOverDefault, UntouchedKept
  <2> QED
    BY <2>1, EnterRunInv, LeaveRunInv, SigactionInv DEF Next
<1> QED
  BY <1>1, <1>2, PTL DEF Spec
-----------------------------------------------------------------------------
(* Signals left at their default are handled by uloop throughout a run,    *)
(* nested runs included, and restored after it (uloop_setup_signals,       *)
(* uloop_install_handler).                                                 *)
THEOREM SignalsHandledAndRestored == Spec => []HandledDuringRuns
<1>1. Inv => HandledDuringRuns
  <2> SUFFICES ASSUME Inv PROVE HandledDuringRuns
    OBVIOUS
  <2>1. recursive_calls \in Nat
    BY DEF Inv, TypeOK
  <2> QED
    BY <2>1 DEF Inv, InstalledOverDefault, UntouchedKept, HandledDuringRuns
<1> QED
  BY <1>1, InvAlways, PTL

(* Neither the begin nor the end of a run touches a handler or SIG_IGN     *)
(* that the application has chosen: "Do not override existing custom       *)
(* signal handlers" (uloop_install_handler).  The SIG_IGN that uloop_run   *)
(* itself has set for SIGPIPE is not among them.                           *)
THEOREM CustomHandlersKept == Spec => CustomKept
<1>1. Inv /\ [Next]_vars =>
         [\A s \in Signals :
             /\ EnterRun \/ LeaveRun
             /\ handler[s] \in {"custom", "IGN"}
             /\ ~IgnoredByLoop(s)
             => handler'[s] = handler[s]]_vars
  <2> SUFFICES ASSUME Inv, NEW s \in Signals, EnterRun \/ LeaveRun,
                      handler[s] \in {"custom", "IGN"}
               PROVE  handler'[s] = handler[s]
    OBVIOUS
  <2>1. s \in Handled \/ s = "SIGPIPE"
    BY DEF Signals
  <2>2. handler[s] # "DFL" /\ handler[s] # "uloop"
    OBVIOUS
  <2>3. CASE EnterRun
    <3>1. CASE recursive_calls = 0
      BY <2>1, <2>2, <2>3, <3>1, SetUpFacts DEF Inv
    <3> QED
      BY <2>3, <3>1 DEF EnterRun
  <2>4. CASE LeaveRun
    <3>1. CASE recursive_calls = 1
      BY <2>1, <2>2, <2>4, <3>1, RestoreFacts DEF Inv
    <3> QED
      BY <2>4, <3>1 DEF LeaveRun
  <2> QED
    BY <2>3, <2>4
<1> QED
  BY <1>1, InvAlways, PTL DEF CustomKept, Spec
=============================================================================
