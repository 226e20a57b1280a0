--------------------------- MODULE UloopFdProofs ---------------------------
(***************************************************************************)
(* Proofs about UloopFd, for every set of fds and events, every size of    *)
(* the batch and every depth of nesting.                                   *)
(*                                                                         *)
(* None of the properties is inductive alone.  What holds them together is *)
(* the state of an fd that is not registered although its callback runs: a *)
(* callback that deleted its fd, or one that was called for the last event *)
(* of an fd that epoll reported in error.  uloop_fd_delete looks at the    *)
(* stack of callbacks only for a registered fd, so the frame of such an fd *)
(* must not hold buffered events, and the batch no event that would be     *)
(* buffered there or called a second time (FramesExact).                   *)
(***************************************************************************)
EXTENDS UloopFd, ListLemmas, FiniteSetTheorems

Entry == [fd : Fds \cup {NULL}, events : SUBSET Events]
Frame == [fd : Fds \cup {NULL}, cb : Fds, events : SUBSET Events]

TypeOK ==
    /\ registered \in [Fds -> BOOLEAN]
    /\ flags \in [Fds -> SUBSET {"ET", "ERROR_CB"}]
    /\ error \in [Fds -> BOOLEAN]
    /\ cur_fds \in Seq(Entry)
    /\ fd_stack \in Seq(Frame)
    /\ inLoop \in BOOLEAN /\ poll_fd \in BOOLEAN /\ reopened \in BOOLEAN
    /\ interest \in [Fds -> (SUBSET Events) \cup {NULL}]
    /\ ready \in [Fds -> SUBSET (Events \cup {HUP})]
    /\ armed \in [Fds -> BOOLEAN]
    /\ deleted \in [Fds -> BOOLEAN]
    /\ owed \in [Fds -> SUBSET Events]

\* What is polled is registered, what is registered was not deleted, what is
\* neither is in error, and a registered fd has its mode in the flags.
Registration ==
    \A fd \in Fds :
        /\ interest[fd] # NULL => registered[fd]
        /\ registered[fd] => ~deleted[fd]
        /\ ~registered[fd] /\ ~deleted[fd] => error[fd]
        /\ registered[fd] /\ fd \in EdgeFds => "ET" \in flags[fd]
        /\ "ET" \in flags[fd] => fd \in EdgeFds

\* The batch has at most one entry of an fd, and none of a deleted one.
BatchExact ==
    \A i \in 1..Len(cur_fds) :
        cur_fds[i].fd # NULL =>
            /\ ~deleted[cur_fds[i].fd]
            /\ \A j \in 1..Len(cur_fds) :
                  cur_fds[j].fd = cur_fds[i].fd => j = i

\* A frame that was not cut off is one of the fd whose callback runs in it;
\* it buffers events of registered, edge-triggered fds only, and the batch
\* has no event for the frame of an fd that is not registered.
FramesExact ==
    \A i \in 1..Len(fd_stack) :
        fd_stack[i].fd # NULL =>
            /\ fd_stack[i].cb = fd_stack[i].fd
            /\ fd_stack[i].events # {} =>
                  fd_stack[i].fd \in EdgeFds /\ registered[fd_stack[i].fd]
            /\ fd_stack[i].fd \in EdgeFds /\ ~registered[fd_stack[i].fd] =>
                  \A k \in 1..Len(cur_fds) : cur_fds[k].fd # fd_stack[i].fd

\* An edge-triggered fd has at most one frame that was not cut off.
OpenFrameUnique ==
    \A fd \in EdgeFds : \A i, j \in 1..Len(fd_stack) :
        fd_stack[i].fd = fd /\ fd_stack[j].fd = fd => i = j

Inv ==
    /\ TypeOK
    /\ Registration
    /\ BatchExact
    /\ FramesExact
    /\ OpenFrameUnique
    /\ NotReentered
    /\ EdgesKept
    /\ RegisteredIffPolled
-----------------------------------------------------------------------------
(* What the batch and the stack of callbacks consist of.                   *)
LEMMA ElementFacts ==
    ASSUME TypeOK
    PROVE  /\ Len(cur_fds) \in Nat
           /\ \A i \in 1..Len(cur_fds) :
                 /\ cur_fds[i] \in Entry
                 /\ cur_fds[i].fd \in Fds \cup {NULL}
                 /\ cur_fds[i].events \subseteq Events
           /\ Len(fd_stack) \in Nat
           /\ \A i \in 1..Len(fd_stack) :
                 /\ fd_stack[i] \in Frame
                 /\ fd_stack[i].fd \in Fds \cup {NULL}
                 /\ fd_stack[i].cb \in Fds
                 /\ fd_stack[i].events \subseteq Events
<1>1. cur_fds \in Seq(Entry) /\ fd_stack \in Seq(Frame)
  BY DEF TypeOK
<1>2. /\ Len(cur_fds) \in Nat
      /\ \A i \in 1..Len(cur_fds) : cur_fds[i] \in Entry
  BY <1>1, ElementOfSeq
<1>3. /\ Len(fd_stack) \in Nat
      /\ \A i \in 1..Len(fd_stack) : fd_stack[i] \in Frame
  BY <1>1, ElementOfSeq
<1>4. \A x \in Entry : x.fd \in Fds \cup {NULL} /\ x.events \subseteq Events
  BY DEF Entry
<1>5. \A x \in Frame : /\ x.fd \in Fds \cup {NULL} /\ x.cb \in Fds
                       /\ x.events \subseteq Events
  BY DEF Frame
<1> QED
  BY <1>2, <1>3, <1>4, <1>5

(* FrameOf finds the innermost frame of an fd, if there is one.            *)
LEMMA FrameOfFacts ==
    ASSUME TypeOK, OpenFrameUnique, NEW fd \in EdgeFds
    PROVE  FrameOf(fd_stack, fd)
              = {i \in 1..Len(fd_stack) : fd_stack[i].fd = fd}
<1>1. Len(fd_stack) \in Nat
  BY DEF TypeOK
<1> QED
  BY <1>1 DEF FrameOf, OpenFrameUnique

(* uloop_fd_delete, or uloop_fd_add without events: no entry of the batch  *)
(* is of the fd any more, and the frames of a registered edge-triggered fd *)
(* are cut off.                                                            *)
LEMMA DeleteFacts ==
    ASSUME Inv, NEW fd \in Fds, Delete(fd)
    PROVE  /\ TypeOK'
           /\ Len(cur_fds') = Len(cur_fds)
           /\ \A i \in 1..Len(cur_fds) :
                 /\ cur_fds'[i].events = cur_fds[i].events
                 /\ cur_fds'[i].fd = IF cur_fds[i].fd = fd THEN NULL
                                     ELSE cur_fds[i].fd
           /\ Len(fd_stack') = Len(fd_stack)
           /\ \A i \in 1..Len(fd_stack) :
                 /\ fd_stack'[i].cb = fd_stack[i].cb
                 /\ fd_stack'[i].events = fd_stack[i].events
                 /\ fd_stack'[i].fd =
                       IF fd_stack[i].fd = fd /\ fd \in EdgeFds
                            /\ registered[fd]
                       THEN NULL ELSE fd_stack[i].fd
           /\ \A f \in Fds :
                 /\ registered'[f] <=> registered[f] /\ f # fd
                 /\ interest'[f] = IF f = fd THEN NULL ELSE interest[f]
                 /\ "ET" \in flags'[f] => "ET" \in flags[f]
                 /\ f # fd => flags'[f] = flags[f]
                 /\ deleted'[f] <=> deleted[f] \/ f = fd
                 /\ owed'[f] = IF f = fd THEN {} ELSE owed[f]
<1>1. /\ TypeOK /\ Registration /\ OpenFrameUnique
      /\ cur_fds \in Seq(Entry) /\ fd_stack \in Seq(Frame)
      /\ fd # NULL
  BY FdAssumption DEF Inv, TypeOK
<1>2. /\ cur_fds' \in Seq(Entry)
      /\ Len(cur_fds') = Len(cur_fds)
      /\ \A i \in 1..Len(cur_fds) :
            /\ cur_fds'[i].events = cur_fds[i].events
            /\ cur_fds'[i].fd = IF cur_fds[i].fd = fd THEN NULL
                                ELSE cur_fds[i].fd
  <2>1. cur_fds' = Forget(cur_fds, fd)
    BY DEF Delete
  <2>3. Len(cur_fds) \in Nat /\ \A i \in 1..Len(cur_fds) : cur_fds[i] \in Entry
    BY <1>1, ElementOfSeq
  <2>2. cur_fds' \in [1..Len(cur_fds) -> Entry]
    BY <2>1, <2>3 DEF Forget, Entry
  <2> QED
    BY <1>1, <2>1, <2>2, <2>3, FunctionIsSeq DEF Forget, Entry
<1>3. /\ fd_stack' \in Seq(Frame)
      /\ Len(fd_stack') = Len(fd_stack)
      /\ \A i \in 1..Len(fd_stack) :
            /\ fd_stack'[i].cb = fd_stack[i].cb
            /\ fd_stack'[i].events = fd_stack[i].events
            /\ fd_stack'[i].fd =
                  IF fd_stack[i].fd = fd /\ fd \in EdgeFds /\ registered[fd]
                  THEN NULL ELSE fd_stack[i].fd
  <2>1. CASE ~registered[fd]
    BY <1>1, <2>1 DEF Delete
  <2>2. CASE registered[fd]
    <3>1. fd_stack' = StackForget(flags, fd_stack, fd)
      BY <2>2 DEF Delete
    <3>2. ("ET" \in flags[fd]) <=> fd \in EdgeFds
      BY <1>1, <2>2 DEF Registration
    <3>3. \A i \in 1..Len(fd_stack) :
             (fd \in EdgeFds /\ i \in FrameOf(fd_stack, fd))
                <=> (fd \in EdgeFds /\ fd_stack[i].fd = fd)
      BY <1>1, FrameOfFacts
    <3>4. fd_stack' = [i \in 1..Len(fd_stack) |->
                          IF fd \in EdgeFds /\ fd_stack[i].fd = fd
                          THEN [fd_stack[i] EXCEPT !.fd = NULL]
                          ELSE fd_stack[i]]
      BY <3>1, <3>2, <3>3 DEF StackForget
    <3>6. /\ Len(fd_stack) \in Nat
          /\ \A i \in 1..Len(fd_stack) : fd_stack[i] \in Frame
      BY <1>1, ElementOfSeq
    <3>5. fd_stack' \in [1..Len(fd_stack) -> Frame]
      BY <3>4, <3>6 DEF Frame
    <3> QED
      BY <1>1, <2>2, <3>4, <3>5, <3>6, FunctionIsSeq DEF Frame
  <2> QED
    BY <2>1, <2>2
<1>4. ASSUME NEW f \in Fds
      PROVE
         /\ registered'[f] <=> registered[f] /\ f # fd
         /\ interest'[f] = IF f = fd THEN NULL ELSE interest[f]
         /\ "ET" \in flags'[f] => "ET" \in flags[f]
         /\ f # fd => flags'[f] = flags[f]
  BY <1>1 DEF Delete, TypeOK, Registration
<1>5. ASSUME NEW f \in Fds
      PROVE  /\ deleted'[f] <=> deleted[f] \/ f = fd
             /\ owed'[f] = IF f = fd THEN {} ELSE owed[f]
  BY <1>1 DEF Delete, TypeOK
<1>6. TypeOK'
  <2>1. /\ registered' \in [Fds -> BOOLEAN]
        /\ flags' \in [Fds -> SUBSET {"ET", "ERROR_CB"}]
        /\ interest' \in [Fds -> (SUBSET Events) \cup {NULL}]
    BY <1>1 DEF Delete, TypeOK
  <2>2. /\ deleted' \in [Fds -> BOOLEAN]
        /\ owed' \in [Fds -> SUBSET Events]
        /\ UNCHANGED <<error, inLoop, poll_fd, ready, armed, reopened>>
    BY <1>1 DEF Delete, TypeOK
  <2> QED
    BY <1>1, <1>2, <1>3, <2>1, <2>2 DEF TypeOK
<1> QED
  BY <1>2, <1>3, <1>4, <1>5, <1>6

LEMMA DeleteInv == ASSUME Inv, NEW fd \in Fds, Delete(fd) PROVE Inv'
<1>1. /\ TypeOK /\ Registration /\ BatchExact /\ FramesExact
      /\ OpenFrameUnique /\ NotReentered /\ EdgesKept
      /\ RegisteredIffPolled
      /\ fd # NULL /\ NULL \notin Fds
  BY FdAssumption DEF Inv
<1>2. /\ \A i \in 1..Len(cur_fds) : cur_fds[i].fd \in Fds \cup {NULL}
      /\ \A i \in 1..Len(fd_stack) : fd_stack[i].fd \in Fds \cup {NULL}
  BY <1>1, ElementFacts
<1>3. /\ Len(cur_fds') = Len(cur_fds)
      /\ \A i \in 1..Len(cur_fds) :
            /\ cur_fds'[i].events = cur_fds[i].events
            /\ cur_fds'[i].fd = IF cur_fds[i].fd = fd THEN NULL
                                ELSE cur_fds[i].fd
  BY DeleteFacts
<1>4. /\ Len(fd_stack') = Len(fd_stack)
      /\ \A i \in 1..Len(fd_stack) :
            /\ fd_stack'[i].cb = fd_stack[i].cb
            /\ fd_stack'[i].events = fd_stack[i].events
            /\ fd_stack'[i].fd =
                  IF fd_stack[i].fd = fd /\ fd \in EdgeFds /\ registered[fd]
                  THEN NULL ELSE fd_stack[i].fd
  BY DeleteFacts
<1>5. \A f \in Fds :
         /\ registered'[f] <=> registered[f] /\ f # fd
         /\ interest'[f] = IF f = fd THEN NULL ELSE interest[f]
         /\ "ET" \in flags'[f] => "ET" \in flags[f]
         /\ f # fd => flags'[f] = flags[f]
         /\ deleted'[f] <=> deleted[f] \/ f = fd
         /\ owed'[f] = IF f = fd THEN {} ELSE owed[f]
         /\ error'[f] = error[f]
  BY DeleteFacts DEF Delete
<1>6. TypeOK'
  BY DeleteFacts
<1>7. Registration'
  BY <1>1, <1>5 DEF Registration
<1>8. BatchExact'
  BY <1>1, <1>2, <1>3, <1>5 DEF BatchExact
<1>9. FramesExact'
  BY <1>1, <1>2, <1>3, <1>4, <1>5 DEF FramesExact
<1>10. OpenFrameUnique'
  BY <1>1, <1>4, FdAssumption DEF OpenFrameUnique
<1>10a. NotReentered'
  BY <1>1, <1>4 DEF NotReentered
<1>11. EdgesKept'
  <2> SUFFICES ASSUME NEW f \in EdgeFds, NEW e \in owed'[f]
               PROVE  \/ \E i \in 1..Len(cur_fds') :
                            cur_fds'[i].fd = f /\ e \in cur_fds'[i].events
                      \/ \E i \in 1..Len(fd_stack') :
                            fd_stack'[i].fd = f /\ e \in fd_stack'[i].events
    BY DEF EdgesKept
  <2>1. f # fd /\ e \in owed[f]
    BY <1>5, FdAssumption
  <2>2. CASE \E i \in 1..Len(cur_fds) :
                cur_fds[i].fd = f /\ e \in cur_fds[i].events
    BY <1>3, <2>1, <2>2
  <2>3. CASE \E i \in 1..Len(fd_stack) :
                fd_stack[i].fd = f /\ e \in fd_stack[i].events
    BY <1>4, <2>1, <2>3
  <2> QED
    BY <1>1, <2>1, <2>2, <2>3 DEF EdgesKept
<1>12. RegisteredIffPolled'
  BY <1>1, <1>5 DEF RegisteredIffPolled, Delete
<1> QED
  BY <1>6, <1>7, <1>8, <1>9, <1>10, <1>10a, <1>11, <1>12 DEF Inv

(* What leaves the batch, the frames, registered and deleted alone can     *)
(* violate little.                                                         *)
LEMMA BatchAndFramesUnchanged ==
    ASSUME Inv, TypeOK', Registration', RegisteredIffPolled',
           UNCHANGED <<registered, cur_fds, fd_stack, deleted, owed>>
    PROVE  Inv'
  BY DEF Inv, BatchExact, FramesExact, OpenFrameUnique, NotReentered, EdgesKept

(* uloop_fd_add with events, whether register_poll succeeds or not.        *)
LEMMA AddInv ==
    ASSUME Inv, NEW fd \in Fds, NEW ev \in SUBSET Events, ev # {},
           uloop_fd_add(fd, ev)
    PROVE  Inv'
<1> DEFINE mode == (IF fd \in EdgeFds THEN {"ET"} ELSE {})
                      \cup (IF fd \in ErrorFds THEN {"ERROR_CB"} ELSE {})
<1>1. /\ TypeOK /\ Registration /\ BatchExact /\ FramesExact
      /\ OpenFrameUnique /\ NotReentered /\ EdgesKept
      /\ RegisteredIffPolled
      /\ fd # NULL /\ ev # NULL
  BY FdAssumption DEF Inv
<1>2. /\ flags' = [flags EXCEPT ![fd] = mode]
      /\ mode \in SUBSET {"ET", "ERROR_CB"}
      /\ "ET" \in mode <=> fd \in EdgeFds
      /\ UNCHANGED <<cur_fds, fd_stack, inLoop, poll_fd, owed, reopened>>
  BY DEF uloop_fd_add
<1> HIDE DEF mode
<1>3. flags' \in [Fds -> SUBSET {"ET", "ERROR_CB"}]
      /\ flags'[fd] = mode
      /\ \A f \in Fds \ {fd} : flags'[f] = flags[f]
  BY <1>1, <1>2 DEF TypeOK
<1>4. CASE AddFails(fd)
  <2>1. UNCHANGED <<registered, error, deleted, interest, ready, armed>>
    BY <1>4 DEF AddFails, kernelVars
  <2>2. TypeOK'
    BY <1>1, <1>2, <1>3, <2>1 DEF TypeOK
  <2>3. Registration'
    BY <1>1, <1>2, <1>3, <2>1 DEF Registration
  <2>4. RegisteredIffPolled'
    BY <1>1, <1>2, <2>1 DEF RegisteredIffPolled
  <2> QED
    BY <1>2, <2>1, <2>2, <2>3, <2>4, BatchAndFramesUnchanged
<1>5. CASE AddSucceeds(fd, ev)
  <2>1. /\ registered' = [registered EXCEPT ![fd] = TRUE]
        /\ error' = [error EXCEPT ![fd] = FALSE]
        /\ deleted' = [deleted EXCEPT ![fd] = FALSE]
        /\ interest' = [interest EXCEPT ![fd] = ev]
        /\ armed' = [armed EXCEPT ![fd] = TRUE]
        /\ ready' = ready
    BY <1>5 DEF AddSucceeds, EpollCtl
  <2>2. \A f \in Fds : /\ registered'[f] <=> registered[f] \/ f = fd
                       /\ deleted'[f] <=> deleted[f] /\ f # fd
                       /\ f # fd => error'[f] = error[f]
                       /\ interest'[f] = IF f = fd THEN ev ELSE interest[f]
    BY <1>1, <2>1 DEF TypeOK
  <2>3. TypeOK'
    BY <1>1, <1>2, <1>3, <2>1 DEF TypeOK
  <2>4. Registration'
    BY <1>1, <1>2, <1>3, <2>2 DEF Registration
  <2>5. BatchExact'
    BY <1>1, <1>2, <2>2, ElementFacts DEF BatchExact
  <2>6. FramesExact'
    BY <1>1, <1>2, <2>2, ElementFacts DEF FramesExact
  <2>7. OpenFrameUnique' /\ NotReentered' /\ EdgesKept'
    BY <1>1, <1>2 DEF OpenFrameUnique, NotReentered, EdgesKept
  <2>8. RegisteredIffPolled'
    BY <1>1, <1>2, <2>2 DEF RegisteredIffPolled
  <2> QED
    BY <2>3, <2>4, <2>5, <2>6, <2>7, <2>8 DEF Inv
<1> QED
  BY <1>4, <1>5 DEF uloop_fd_add

(* A batch that epoll_wait may return names registered fds, each once.     *)
LEMMA BatchesFacts ==
    ASSUME TypeOK, Registration, NEW b \in Batches
    PROVE  /\ b \in Seq(Fds)
           /\ Len(b) \in Nat
           /\ \A i \in 1..Len(b) : /\ b[i] \in Fds
                                   /\ interest[b[i]] # NULL
                                   /\ interest[b[i]] \subseteq Events
                                   /\ registered[b[i]] /\ ~deleted[b[i]]
           /\ \A i, j \in 1..Len(b) : b[i] = b[j] => i = j
<1> DEFINE R == {fd \in Fds : Reportable(fd)}
           n == IF Cardinality(R) < MaxEvents THEN Cardinality(R) ELSE MaxEvents
<1>1. IsFiniteSet(R)
  BY FdAssumption, FS_Subset
<1>2. n \in Nat
  BY <1>1, FS_CardinalityType, FdAssumption
<1>3. b \in [1..n -> R] /\ \A i, j \in 1..n : b[i] = b[j] => i = j
  BY DEF Batches
<1>4. \A f \in R : f \in Fds /\ interest[f] # NULL
  BY DEF Reportable
<1> HIDE DEF n, R
<1>5. b \in Seq(R) /\ Len(b) = n
  BY <1>2, <1>3, FunctionIsSeq
<1>6. b \in [1..n -> Fds]
  BY <1>3, <1>4
<1>7. b \in Seq(Fds)
  BY <1>2, <1>6, FunctionIsSeq
<1>8. \A f \in R : /\ interest[f] \subseteq Events
                   /\ registered[f] /\ ~deleted[f]
  BY <1>4 DEF TypeOK, Registration
<1> QED
  BY <1>2, <1>3, <1>4, <1>5, <1>7, <1>8

(* A batch is fetched: what is in error and has no error callback is       *)
(* deleted, and its frame cut off.                                         *)
LEMMA FetchInv == ASSUME Inv, Fetch PROVE Inv'
<1>1. /\ TypeOK /\ Registration /\ BatchExact /\ FramesExact
      /\ OpenFrameUnique /\ NotReentered /\ EdgesKept
      /\ RegisteredIffPolled
      /\ NULL \notin Fds
  BY FdAssumption DEF Inv
<1>2. PICK b \in Batches : uloop_fetch_events(b)
  BY DEF Fetch
<1> DEFINE reported(fd) == \E i \in 1..Len(b) : b[i] = fd
           dropped(fd)  == /\ reported(fd) /\ HUP \in ready[fd]
                           /\ "ERROR_CB" \notin flags[fd]
<1>3. /\ Len(b) \in Nat
      /\ \A i \in 1..Len(b) : /\ b[i] \in Fds
                              /\ interest[b[i]] # NULL
                              /\ interest[b[i]] \subseteq Events
                              /\ registered[b[i]] /\ ~deleted[b[i]]
      /\ \A i, j \in 1..Len(b) : b[i] = b[j] => i = j
  BY <1>1, BatchesFacts
<1>4. /\ cur_fds = <<>>
      /\ UNCHANGED <<inLoop, poll_fd, ready, deleted, reopened>>
  BY DEF Fetch
<1>5. \A fd \in Fds : reported(fd) =>
         interest[fd] # NULL /\ registered[fd] /\ ~deleted[fd]
  BY <1>3
<1>6. /\ cur_fds' \in Seq(Entry)
      /\ Len(cur_fds') = Len(b)
      /\ \A i \in 1..Len(b) : /\ cur_fds'[i].fd = b[i]
                              /\ cur_fds'[i].events = ReportedEvents(b[i])
  <2>1. cur_fds' = [i \in 1..Len(b) |->
                       [fd |-> b[i], events |-> ReportedEvents(b[i])]]
    BY <1>2 DEF uloop_fetch_events
  <2>2. \A i \in 1..Len(b) : b[i] \in Fds /\ ReportedEvents(b[i]) \subseteq Events
    BY <1>3 DEF ReportedEvents
  <2>3. cur_fds' \in [1..Len(b) -> Entry]
    BY <2>1, <2>2 DEF Entry
  <2> QED
    BY <1>3, <2>1, <2>3, FunctionIsSeq
<1>7. /\ registered' = [fd \in Fds |-> registered[fd] /\ ~dropped(fd)]
      /\ flags' = [fd \in Fds |->
                      IF dropped(fd) /\ registered[fd] THEN {} ELSE flags[fd]]
      /\ interest' = [fd \in Fds |->
                         IF dropped(fd) /\ registered[fd] THEN NULL
                         ELSE interest[fd]]
  BY <1>2 DEF uloop_fetch_events
<1>8. /\ fd_stack' \in Seq(Frame)
      /\ Len(fd_stack') = Len(fd_stack)
      /\ \A i \in 1..Len(fd_stack) :
            /\ fd_stack'[i].cb = fd_stack[i].cb
            /\ fd_stack'[i].events = fd_stack[i].events
            /\ fd_stack'[i].fd =
                  IF fd_stack[i].fd \in EdgeFds /\ dropped(fd_stack[i].fd)
                  THEN NULL ELSE fd_stack[i].fd
  <2>1. fd_stack' = [i \in 1..Len(fd_stack) |->
                        IF /\ fd_stack[i].fd # NULL
                           /\ dropped(fd_stack[i].fd)
                           /\ registered[fd_stack[i].fd]
                           /\ "ET" \in flags[fd_stack[i].fd]
                           /\ i \in FrameOf(fd_stack, fd_stack[i].fd)
                        THEN [fd_stack[i] EXCEPT !.fd = NULL]
                        ELSE fd_stack[i]]
    BY <1>2 DEF uloop_fetch_events
  <2>2. ASSUME NEW i \in 1..Len(fd_stack)
        PROVE  (/\ fd_stack[i].fd # NULL
                /\ dropped(fd_stack[i].fd)
                /\ registered[fd_stack[i].fd]
                /\ "ET" \in flags[fd_stack[i].fd]
                /\ i \in FrameOf(fd_stack, fd_stack[i].fd))
               <=> fd_stack[i].fd \in EdgeFds /\ dropped(fd_stack[i].fd)
    <3> DEFINE f == fd_stack[i].fd
    <3>1. f \in Fds \cup {NULL}
      BY <1>1, ElementFacts
    <3>2. f \in EdgeFds => f \in Fds /\ f # NULL
      BY FdAssumption
    <3>3. f \in EdgeFds => i \in FrameOf(fd_stack, f)
      BY <1>1, FrameOfFacts
    <3>4. f \in Fds /\ dropped(f) => registered[f]
      BY <1>5
    <3>5. f \in Fds /\ registered[f] => ("ET" \in flags[f] <=> f \in EdgeFds)
      BY <1>1 DEF Registration
    <3> HIDE DEF f, dropped
    <3>6. (f # NULL /\ dropped(f) /\ registered[f] /\ "ET" \in flags[f]
             /\ i \in FrameOf(fd_stack, f)) <=> f \in EdgeFds /\ dropped(f)
      BY <3>1, <3>2, <3>3, <3>4, <3>5
    <3> QED
      BY <3>6 DEF f
  <2> HIDE DEF dropped
  <2>3. fd_stack' = [i \in 1..Len(fd_stack) |->
                        IF fd_stack[i].fd \in EdgeFds /\ dropped(fd_stack[i].fd)
                        THEN [fd_stack[i] EXCEPT !.fd = NULL]
                        ELSE fd_stack[i]]
    BY <2>1, <2>2
  <2>4. /\ Len(fd_stack) \in Nat
        /\ \A i \in 1..Len(fd_stack) : fd_stack[i] \in Frame
    BY <1>1, ElementFacts
  <2>5. fd_stack' \in [1..Len(fd_stack) -> Frame]
    BY <2>3, <2>4 DEF Frame
  <2> QED
    BY <2>3, <2>4, <2>5, FunctionIsSeq DEF Frame
<1>8a. \A fd \in Fds : error'[fd] <=>
          error[fd] \/ (reported(fd) /\ HUP \in ready[fd])
  BY <1>1, <1>2 DEF uloop_fetch_events, TypeOK
<1>9. /\ owed' = [fd \in Fds |->
                     IF ~reported(fd) \/ fd \notin EdgeFds THEN owed[fd]
                     ELSE IF dropped(fd) THEN ReportedEvents(fd)
                     ELSE owed[fd] \cup ReportedEvents(fd)]
      /\ error' \in [Fds -> BOOLEAN]
      /\ armed' \in [Fds -> BOOLEAN]
  BY <1>1, <1>2 DEF uloop_fetch_events, TypeOK
<1>10. \A fd \in Fds : reported(fd) => ReportedEvents(fd) \subseteq Events
  BY <1>3 DEF ReportedEvents
<1> HIDE DEF reported
<1>11. \A fd \in Fds : dropped(fd) =>
          reported(fd) /\ registered[fd] /\ error'[fd]
  BY <1>5, <1>8a
<1> HIDE DEF dropped
<1>12. TypeOK'
  <2>1. owed' \in [Fds -> SUBSET Events]
    BY <1>1, <1>9, <1>10 DEF TypeOK
  <2>2. /\ registered' \in [Fds -> BOOLEAN]
        /\ flags' \in [Fds -> SUBSET {"ET", "ERROR_CB"}]
        /\ interest' \in [Fds -> (SUBSET Events) \cup {NULL}]
    BY <1>1, <1>7 DEF TypeOK
  <2> QED
    BY <1>1, <1>4, <1>6, <1>8, <1>9, <2>1, <2>2 DEF TypeOK
<1>13. /\ \A fd \in Fds :
             /\ registered'[fd] <=> registered[fd] /\ ~dropped(fd)
             /\ dropped(fd) => flags'[fd] = {} /\ interest'[fd] = NULL
             /\ dropped(fd) \/ error[fd] => error'[fd]
             /\ ~dropped(fd) => /\ flags'[fd] = flags[fd]
                                /\ interest'[fd] = interest[fd]
       /\ deleted' = deleted
  BY <1>1, <1>4, <1>7, <1>11, <1>8a DEF TypeOK
<1>14. Registration'
  BY <1>1, <1>13 DEF Registration
<1>15. BatchExact'
  BY <1>3, <1>6, <1>13 DEF BatchExact
<1>16. FramesExact'
  <2> SUFFICES ASSUME NEW i \in 1..Len(fd_stack), fd_stack'[i].fd # NULL
               PROVE  /\ fd_stack'[i].cb = fd_stack'[i].fd
                      /\ fd_stack'[i].events # {} =>
                            /\ fd_stack'[i].fd \in EdgeFds
                            /\ registered'[fd_stack'[i].fd]
                      /\ (/\ fd_stack'[i].fd \in EdgeFds
                          /\ ~registered'[fd_stack'[i].fd])
                            => \A k \in 1..Len(cur_fds') :
                                  cur_fds'[k].fd # fd_stack'[i].fd
    BY <1>8 DEF FramesExact
  <2> DEFINE f == fd_stack[i].fd
  <2>1. /\ fd_stack'[i].fd = f /\ f \in Fds /\ f # NULL
        /\ ~(f \in EdgeFds /\ dropped(f))
        /\ fd_stack'[i].cb = fd_stack[i].cb
        /\ fd_stack'[i].events = fd_stack[i].events
    BY <1>1, <1>8, ElementFacts
  <2>2. /\ fd_stack[i].cb = f
        /\ fd_stack[i].events # {} => f \in EdgeFds /\ registered[f]
    BY <1>1, <2>1 DEF FramesExact
  <2> HIDE DEF f
  <2>3. f \in EdgeFds => (registered'[f] <=> registered[f])
    BY <1>13, <2>1
  <2>4. f \in EdgeFds /\ ~registered'[f] =>
           \A k \in 1..Len(cur_fds') : cur_fds'[k].fd # f
    BY <1>3, <1>6, <2>3
  <2> QED
    BY <2>1, <2>2, <2>3, <2>4
<1>17. OpenFrameUnique'
  BY <1>1, <1>8, FdAssumption DEF OpenFrameUnique
<1>17a. NotReentered'
  BY <1>1, <1>8 DEF NotReentered
<1>18. EdgesKept'
  <2> SUFFICES ASSUME NEW f \in EdgeFds, NEW e \in owed'[f]
               PROVE  \/ \E i \in 1..Len(cur_fds') :
                            cur_fds'[i].fd = f /\ e \in cur_fds'[i].events
                      \/ \E i \in 1..Len(fd_stack') :
                            fd_stack'[i].fd = f /\ e \in fd_stack'[i].events
    BY DEF EdgesKept
  <2>1. f \in Fds
    BY FdAssumption
  <2>2. CASE reported(f) /\ e \in ReportedEvents(f)
    BY <1>6, <2>2 DEF reported
  <2>3. CASE ~(reported(f) /\ e \in ReportedEvents(f))
    <3>1. e \in owed[f] /\ ~dropped(f)
      BY <1>9, <1>11, <2>1, <2>3
    <3>2. PICK i \in 1..Len(fd_stack) :
                 fd_stack[i].fd = f /\ e \in fd_stack[i].events
      BY <1>1, <1>4, <3>1 DEF EdgesKept
    <3> QED
      BY <1>8, <3>1, <3>2
  <2> QED
    BY <2>2, <2>3
<1>19. RegisteredIffPolled'
  BY <1>1, <1>4, <1>11, <1>13 DEF RegisteredIffPolled
<1> QED
  BY <1>12, <1>14, <1>15, <1>16, <1>17, <1>17a, <1>18, <1>19 DEF Inv

(* Skipping entries of the batch buffers their events in the frames of     *)
(* their fds, and changes nothing else.                                    *)
LEMMA BufferedFacts ==
    ASSUME Inv, NEW n \in 0..Len(cur_fds)
    PROVE  /\ Buffered(n) \in Seq(Frame)
           /\ Len(Buffered(n)) = Len(fd_stack)
           /\ \A i \in 1..Len(fd_stack) :
                 /\ Buffered(n)[i].fd = fd_stack[i].fd
                 /\ Buffered(n)[i].cb = fd_stack[i].cb
                 /\ fd_stack[i].events \subseteq Buffered(n)[i].events
                 /\ Buffered(n)[i].events # {} =>
                       \/ fd_stack[i].events # {}
                       \/ \E j \in 1..n : /\ cur_fds[j].fd = fd_stack[i].fd
                                          /\ cur_fds[j].fd # NULL
           /\ \A j \in 1..n :
                 cur_fds[j].fd # NULL
                     /\ Buffers(flags, fd_stack, cur_fds[j].fd) =>
                        \E i \in 1..Len(fd_stack) :
                            /\ fd_stack[i].fd = cur_fds[j].fd
                            /\ cur_fds[j].events \subseteq Buffered(n)[i].events
<1> DEFINE Sources(i) == {m \in 1..n : /\ cur_fds[m].fd # NULL
                                       /\ "ET" \in flags[cur_fds[m].fd]
                                       /\ i \in FrameOf(fd_stack,
                                                        cur_fds[m].fd)}
           More(i) == UNION {cur_fds[j].events : j \in Sources(i)}
           b == [i \in 1..Len(fd_stack) |->
                   [fd_stack[i] EXCEPT !.events = @ \cup More(i)]]
<1>1. TypeOK
  BY DEF Inv
<1>2. Buffered(n) = b
  BY DEF Buffered
<1>3. \A i : More(i) \subseteq Events
  <2>1. \A m \in 1..n : cur_fds[m].events \subseteq Events
    BY <1>1, ElementFacts
  <2> QED
    BY <2>1
<1>4. \A i \in 1..Len(fd_stack) : More(i) # {} =>
         \E j \in 1..n : cur_fds[j].fd = fd_stack[i].fd /\ cur_fds[j].fd # NULL
  BY DEF FrameOf
<1>5. ASSUME NEW j \in 1..n, cur_fds[j].fd # NULL,
             Buffers(flags, fd_stack, cur_fds[j].fd)
      PROVE  \E i \in 1..Len(fd_stack) :
                 /\ fd_stack[i].fd = cur_fds[j].fd
                 /\ cur_fds[j].events \subseteq More(i)
  <2>1. PICK i : i \in FrameOf(fd_stack, cur_fds[j].fd)
    BY <1>5 DEF Buffers
  <2>2. i \in 1..Len(fd_stack) /\ fd_stack[i].fd = cur_fds[j].fd
    BY <2>1 DEF FrameOf
  <2>3. j \in Sources(i)
    BY <1>5, <2>1 DEF Buffers
  <2> QED
    BY <2>2, <2>3
<1> HIDE DEF More
<1>6. /\ Len(fd_stack) \in Nat
      /\ \A i \in 1..Len(fd_stack) : fd_stack[i] \in Frame
  BY <1>1, ElementFacts
<1>7. b \in [1..Len(fd_stack) -> Frame]
  BY <1>3, <1>6 DEF Frame
<1>8. b \in Seq(Frame) /\ Len(b) = Len(fd_stack)
  BY <1>6, <1>7, FunctionIsSeq, ZenonT(60)
<1>9. \A i \in 1..Len(fd_stack) :
         /\ b[i].fd = fd_stack[i].fd
         /\ b[i].cb = fd_stack[i].cb
         /\ b[i].events = fd_stack[i].events \cup More(i)
  BY <1>6 DEF Frame
<1> HIDE DEF b
<1> QED
  BY <1>2, <1>4, <1>5, <1>8, <1>9

(* A skipped entry is lost for nobody: it is of no fd, or its fd has a     *)
(* frame, and is registered.                                               *)
LEMMA SkippedFacts ==
    ASSUME Inv, NEW j \in 1..Len(cur_fds), Skipped(cur_fds[j]),
           cur_fds[j].fd # NULL
    PROVE  /\ cur_fds[j].fd \in EdgeFds /\ registered[cur_fds[j].fd]
           /\ Buffers(flags, fd_stack, cur_fds[j].fd)
<1> DEFINE f == cur_fds[j].fd
<1>1. f \in Fds /\ f # NULL
  BY ElementFacts DEF Inv
<1>2. "ET" \in flags[f] /\ FrameOf(fd_stack, f) # {}
  BY DEF Skipped, Buffers
<1>3. f \in EdgeFds
  BY <1>1, <1>2 DEF Inv, Registration
<1>4. PICK i \in 1..Len(fd_stack) : fd_stack[i].fd = f
  BY <1>2 DEF FrameOf
<1>5. registered[f]
  BY <1>1, <1>3, <1>4 DEF Inv, FramesExact
<1> QED
  BY <1>2, <1>3, <1>5 DEF Buffers

(* uloop_run_events calls a callback: the entries in front are skipped.    *)
LEMMA DispatchInv == ASSUME Inv, Dispatch PROVE Inv'
<1>1. /\ TypeOK /\ Registration /\ BatchExact /\ FramesExact
      /\ OpenFrameUnique /\ NotReentered /\ EdgesKept
      /\ RegisteredIffPolled
      /\ NULL \notin Fds /\ EdgeFds \subseteq Fds
  BY FdAssumption DEF Inv
<1>2. PICK k \in FirstCallable :
         /\ fd_stack' = <<[fd |-> cur_fds[k].fd, cb |-> cur_fds[k].fd,
                           events |-> {}]>> \o Buffered(k - 1)
         /\ cur_fds' = SubSeq(cur_fds, k + 1, Len(cur_fds))
         /\ owed' = [owed EXCEPT ![cur_fds[k].fd] = @ \ cur_fds[k].events]
  BY DEF Dispatch
<1>3. UNCHANGED <<registered, flags, error, poll_fd, interest, ready, armed,
                  deleted, reopened>> /\ inLoop' = FALSE
  BY DEF Dispatch, kernelVars
<1>4. /\ Len(cur_fds) \in Nat /\ Len(fd_stack) \in Nat
      /\ k \in 1..Len(cur_fds) /\ ~Skipped(cur_fds[k])
      /\ \A j \in 1..(k - 1) : Skipped(cur_fds[j])
      /\ k - 1 \in 0..Len(cur_fds)
  BY <1>1, ElementFacts DEF FirstCallable
<1> DEFINE fd == cur_fds[k].fd
           top == [fd |-> fd, cb |-> fd, events |-> {}]
           b == Buffered(k - 1)
<1>5. /\ fd \in Fds /\ fd # NULL
      /\ ~Buffers(flags, fd_stack, fd)
      /\ cur_fds[k].events \subseteq Events
  BY <1>1, <1>4, ElementFacts DEF Skipped
<1>6. /\ b \in Seq(Frame)
      /\ Len(b) = Len(fd_stack)
      /\ \A i \in 1..Len(fd_stack) :
            /\ b[i].fd = fd_stack[i].fd
            /\ b[i].cb = fd_stack[i].cb
            /\ fd_stack[i].events \subseteq b[i].events
            /\ b[i].events # {} =>
                  \/ fd_stack[i].events # {}
                  \/ \E j \in 1..(k - 1) : /\ cur_fds[j].fd = fd_stack[i].fd
                                           /\ cur_fds[j].fd # NULL
      /\ \A j \in 1..(k - 1) :
            cur_fds[j].fd # NULL
                /\ Buffers(flags, fd_stack, cur_fds[j].fd) =>
                   \E i \in 1..Len(fd_stack) :
                       /\ fd_stack[i].fd = cur_fds[j].fd
                       /\ cur_fds[j].events \subseteq b[i].events
  BY <1>4, BufferedFacts
<1> HIDE DEF b
<1>7. /\ fd_stack' \in Seq(Frame)
      /\ Len(fd_stack') = Len(fd_stack) + 1
      /\ fd_stack'[1] = top
      /\ \A i \in 1..Len(fd_stack) : fd_stack'[i + 1] = b[i]
  <2>1. <<top>> \in Seq(Frame) /\ Len(<<top>>) = 1 /\ <<top>>[1] = top
    BY <1>5 DEF Frame
  <2>2. fd_stack' = <<top>> \o b
    BY <1>2 DEF b
  <2> HIDE DEF top
  <2>3. /\ <<top>> \o b \in Seq(Frame)
        /\ Len(<<top>> \o b) = Len(b) + 1
        /\ \A i \in 1..(Len(b) + 1) :
              (<<top>> \o b)[i] = IF i <= 1 THEN <<top>>[i] ELSE b[i - 1]
    BY <1>6, <2>1, ConcatProperties
  <2> QED
    BY <1>4, <1>6, <2>1, <2>2, <2>3
<1>8. /\ cur_fds' \in Seq(Entry)
      /\ Len(cur_fds') = Len(cur_fds) - k
      /\ \A i \in 1..(Len(cur_fds) - k) : cur_fds'[i] = cur_fds[k + i]
  <2>1. cur_fds \in Seq(Entry) /\ k \in 0..Len(cur_fds)
    BY <1>1, <1>4 DEF TypeOK
  <2> QED
    BY <1>2, <2>1, SuffixFacts
<1>9. \A f \in Fds : owed'[f] = IF f = fd THEN owed[f] \ cur_fds[k].events
                                ELSE owed[f]
  BY <1>1, <1>2, <1>5 DEF TypeOK
\* No frame of fd is there yet, if it is edge-triggered.
<1>10. fd \in EdgeFds => \A i \in 1..Len(fd_stack) : fd_stack[i].fd # fd
  <2> SUFFICES ASSUME fd \in EdgeFds, NEW i \in 1..Len(fd_stack),
                      fd_stack[i].fd = fd
               PROVE  FALSE
    OBVIOUS
  <2>1. registered[fd]
    BY <1>1, <1>4, <1>5 DEF FramesExact
  <2>2. "ET" \in flags[fd] /\ i \in FrameOf(fd_stack, fd)
    BY <1>1, <1>5, <2>1, FrameOfFacts DEF Registration
  <2> QED
    BY <1>5, <2>2 DEF Buffers
<1>11. TypeOK'
  <2>1. owed' \in [Fds -> SUBSET Events]
    BY <1>1, <1>2, <1>5 DEF TypeOK
  <2> QED
    BY <1>1, <1>3, <1>7, <1>8, <2>1 DEF TypeOK
<1>12. Registration' /\ RegisteredIffPolled'
  BY <1>1, <1>3 DEF Registration, RegisteredIffPolled
<1>13. BatchExact'
  <2> SUFFICES ASSUME NEW i \in 1..Len(cur_fds'), cur_fds'[i].fd # NULL
               PROVE  /\ ~deleted[cur_fds'[i].fd]
                      /\ \A j \in 1..Len(cur_fds') :
                            cur_fds'[j].fd = cur_fds'[i].fd => j = i
    BY <1>3 DEF BatchExact
  <2>1. /\ k + i \in 1..Len(cur_fds) /\ cur_fds'[i] = cur_fds[k + i]
        /\ \A j \in 1..Len(cur_fds') : /\ k + j \in 1..Len(cur_fds)
                                       /\ cur_fds'[j] = cur_fds[k + j]
    BY <1>4, <1>8
  <2>2. \A j \in 1..Len(cur_fds') :
           cur_fds[k + j].fd = cur_fds[k + i].fd => k + j = k + i
    BY <1>1, <2>1 DEF BatchExact
  <2>3. ~deleted[cur_fds[k + i].fd]
    BY <1>1, <2>1 DEF BatchExact
  <2> QED
    BY <1>4, <1>8, <2>1, <2>2, <2>3, SMTT(30)
\* What is left of the batch is part of it.
<1>14. \A i \in 1..Len(cur_fds') : \E j \in 1..Len(cur_fds) :
          j > k /\ cur_fds'[i] = cur_fds[j]
  <2> SUFFICES ASSUME NEW i \in 1..Len(cur_fds')
               PROVE  /\ k + i \in 1..Len(cur_fds) /\ k + i > k
                      /\ cur_fds'[i] = cur_fds[k + i]
    OBVIOUS
  <2> QED
    BY <1>4, <1>8
<1>15. FramesExact'
  <2> SUFFICES ASSUME NEW i \in 1..Len(fd_stack'), fd_stack'[i].fd # NULL
               PROVE  /\ fd_stack'[i].cb = fd_stack'[i].fd
                      /\ fd_stack'[i].events # {} =>
                            /\ fd_stack'[i].fd \in EdgeFds
                            /\ registered[fd_stack'[i].fd]
                      /\ (/\ fd_stack'[i].fd \in EdgeFds
                          /\ ~registered[fd_stack'[i].fd])
                            => \A m \in 1..Len(cur_fds') :
                                  cur_fds'[m].fd # fd_stack'[i].fd
    BY <1>3 DEF FramesExact
  <2>1. CASE i = 1
    <3>1. \A m \in 1..Len(cur_fds') : cur_fds'[m].fd # fd
      <4> SUFFICES ASSUME NEW m \in 1..Len(cur_fds'), cur_fds'[m].fd = fd
                   PROVE  FALSE
        OBVIOUS
      <4>1. PICK j \in 1..Len(cur_fds) : j > k /\ cur_fds'[m] = cur_fds[j]
        BY <1>14
      <4>2. j = k
        BY <1>1, <1>4, <1>5, <4>1 DEF BatchExact
      <4> QED
        BY <1>4, <4>1, <4>2
    <3> QED
      BY <1>7, <2>1, <3>1
  <2>2. CASE i # 1
    <3>8. i - 1 \in 1..Len(fd_stack) /\ (i - 1) + 1 = i
      BY <1>4, <1>7, <2>2
    <3>7. PICK m \in 1..Len(fd_stack) : i = m + 1
      BY <3>8
    <3> DEFINE f == fd_stack[m].fd
    <3>1. /\ fd_stack'[i] = b[m]
          /\ b[m].fd = f /\ b[m].cb = fd_stack[m].cb /\ f # NULL
      BY <1>6, <1>7, <3>7
    <3>2. fd_stack[m].cb = f
      BY <1>1, <3>1 DEF FramesExact
    <3>3. f \in EdgeFds /\ ~registered[f] =>
             \A q \in 1..Len(cur_fds) : cur_fds[q].fd # f
      BY <1>1, <3>1 DEF FramesExact
    <3>4. fd_stack[m].events # {} => f \in EdgeFds /\ registered[f]
      BY <1>1, <3>1 DEF FramesExact
    <3>5. ASSUME NEW j \in 1..(k - 1), cur_fds[j].fd = f, cur_fds[j].fd # NULL
          PROVE  f \in EdgeFds /\ registered[f]
      BY <1>4, <3>5, SkippedFacts
    <3>6. b[m].events # {} => f \in EdgeFds /\ registered[f]
      BY <1>6, <3>1, <3>4, <3>5
    <3> HIDE DEF f
    <3> QED
      BY <1>14, <3>1, <3>2, <3>3, <3>6
  <2> QED
    BY <2>1, <2>2
<1>16. OpenFrameUnique'
  <2> SUFFICES ASSUME NEW f \in EdgeFds, NEW i \in 1..Len(fd_stack'),
                      NEW j \in 1..Len(fd_stack'),
                      fd_stack'[i].fd = f, fd_stack'[j].fd = f
               PROVE  i = j
    BY DEF OpenFrameUnique
  <2>1. \A m \in 1..Len(fd_stack') :
           m = 1 \/ (m - 1 \in 1..Len(fd_stack)
                        /\ fd_stack'[m].fd = fd_stack[m - 1].fd)
    <3> SUFFICES ASSUME NEW m \in 1..Len(fd_stack'), m # 1
                 PROVE  m - 1 \in 1..Len(fd_stack)
                           /\ fd_stack'[m].fd = fd_stack[m - 1].fd
      OBVIOUS
    <3>1. m - 1 \in 1..Len(fd_stack) /\ (m - 1) + 1 = m
      BY <1>4, <1>7
    <3> QED
      BY <1>6, <1>7, <3>1
  <2>2. CASE i = 1 \/ j = 1
    BY <1>7, <1>10, <2>1, <2>2, SMTT(30)
  <2>3. CASE i # 1 /\ j # 1
    <3>1. i - 1 = j - 1
      BY <1>1, <2>1, <2>3 DEF OpenFrameUnique
    <3> QED
      BY <1>4, <1>7, <3>1
  <2> QED
    BY <2>2, <2>3
\* The frames of fd that are there already have been cut off.
<1>16a. NotReentered'
  <2> SUFFICES ASSUME NEW f \in EdgeFds, NEW i \in 1..Len(fd_stack'),
                      NEW j \in 1..Len(fd_stack'), i < j,
                      fd_stack'[i].cb = f, fd_stack'[j].cb = f
               PROVE  fd_stack'[j].fd = NULL
    BY DEF NotReentered
  <2>1. /\ j - 1 \in 1..Len(fd_stack) /\ (j - 1) + 1 = j
        /\ i # 1 => i - 1 \in 1..Len(fd_stack) /\ (i - 1) + 1 = i
    BY <1>4, <1>7
  <2>2. PICK m \in 1..Len(fd_stack) : j = m + 1
    BY <2>1
  <2>3. fd_stack[m].cb = f /\ fd_stack'[j].fd = fd_stack[m].fd
    BY <1>6, <1>7, <2>2
  <2>4. CASE i = 1
    <3>1. f = fd
      BY <1>7, <2>4
    <3>2. fd_stack[m].fd # NULL => fd_stack[m].fd = fd
      BY <1>1, <2>3, <3>1 DEF FramesExact
    <3> QED
      BY <1>10, <2>3, <3>1, <3>2
  <2>5. CASE i # 1
    <3>1. PICK n \in 1..Len(fd_stack) : i = n + 1
      BY <2>1, <2>5
    <3>2. fd_stack[n].cb = f /\ n < m
      BY <1>6, <1>7, <2>2, <3>1
    <3> QED
      BY <1>1, <2>3, <3>2 DEF NotReentered
  <2> QED
    BY <2>4, <2>5
<1>17. EdgesKept'
  <2> SUFFICES ASSUME NEW f \in EdgeFds, NEW e \in owed'[f]
               PROVE  \/ \E i \in 1..Len(cur_fds') :
                            cur_fds'[i].fd = f /\ e \in cur_fds'[i].events
                      \/ \E i \in 1..Len(fd_stack') :
                            fd_stack'[i].fd = f /\ e \in fd_stack'[i].events
    BY DEF EdgesKept
  <2>1. f \in Fds /\ f # NULL /\ e \in owed[f]
        /\ (f = fd => e \notin cur_fds[k].events)
    BY <1>1, <1>9
  <2>2. ASSUME NEW i \in 1..Len(fd_stack), fd_stack[i].fd = f,
               e \in b[i].events
        PROVE  \E m \in 1..Len(fd_stack') :
                   fd_stack'[m].fd = f /\ e \in fd_stack'[m].events
    <3>1. i + 1 \in 1..Len(fd_stack') /\ fd_stack'[i + 1] = b[i]
      BY <1>4, <1>7
    <3> QED
      BY <1>6, <2>2, <3>1
  <2>3. CASE \E i \in 1..Len(fd_stack) :
                fd_stack[i].fd = f /\ e \in fd_stack[i].events
    BY <1>6, <2>2, <2>3
  <2>4. CASE \E j \in 1..Len(cur_fds) :
                cur_fds[j].fd = f /\ e \in cur_fds[j].events
    <3>1. PICK j \in 1..Len(cur_fds) :
                 cur_fds[j].fd = f /\ e \in cur_fds[j].events
      BY <2>4
    <3>2. CASE j < k
      <4>1. j \in 1..(k - 1) /\ Buffers(flags, fd_stack, cur_fds[j].fd)
        BY <1>4, <2>1, <3>1, <3>2, SkippedFacts
      <4>2. PICK i \in 1..Len(fd_stack) :
                   /\ fd_stack[i].fd = cur_fds[j].fd
                   /\ cur_fds[j].events \subseteq b[i].events
        BY <1>6, <2>1, <3>1, <4>1
      <4> QED
        BY <2>2, <3>1, <4>2
    <3>3. CASE j = k
      BY <2>1, <3>1, <3>3
    <3>4. CASE j > k
      <4>1. j - k \in 1..Len(cur_fds') /\ cur_fds'[j - k] = cur_fds[j]
        BY <1>4, <1>8, <3>4
      <4> QED
        BY <3>1, <4>1
    <3> QED
      BY <1>4, <3>2, <3>3, <3>4
  <2> QED
    BY <1>1, <2>1, <2>3, <2>4 DEF EdgesKept
<1> QED
  BY <1>11, <1>12, <1>13, <1>15, <1>16, <1>16a, <1>17 DEF Inv

(* uloop_run_events skips the whole batch. *)
LEMMA DispatchNoneInv == ASSUME Inv, DispatchNone PROVE Inv'
<1>1. /\ TypeOK /\ Registration /\ BatchExact /\ FramesExact
      /\ OpenFrameUnique /\ NotReentered /\ EdgesKept
      /\ RegisteredIffPolled
      /\ NULL \notin Fds /\ EdgeFds \subseteq Fds
  BY FdAssumption DEF Inv
<1>2. /\ fd_stack' = Buffered(Len(cur_fds))
      /\ cur_fds' = <<>>
      /\ \A j \in 1..Len(cur_fds) : Skipped(cur_fds[j])
      /\ UNCHANGED <<registered, flags, error, inLoop, poll_fd, interest,
                     ready, armed, deleted, owed, reopened>>
  BY DEF DispatchNone, kernelVars
<1> DEFINE n == Len(cur_fds)
<1>3. n \in 0..Len(cur_fds)
  BY <1>1, ElementFacts
<1> HIDE DEF n
<1>4. /\ Buffered(n) \in Seq(Frame)
      /\ Len(Buffered(n)) = Len(fd_stack)
      /\ \A i \in 1..Len(fd_stack) :
            /\ Buffered(n)[i].fd = fd_stack[i].fd
            /\ Buffered(n)[i].cb = fd_stack[i].cb
            /\ fd_stack[i].events \subseteq Buffered(n)[i].events
            /\ Buffered(n)[i].events # {} =>
                  \/ fd_stack[i].events # {}
                  \/ \E j \in 1..n : /\ cur_fds[j].fd = fd_stack[i].fd
                                     /\ cur_fds[j].fd # NULL
      /\ \A j \in 1..n :
            cur_fds[j].fd # NULL
                /\ Buffers(flags, fd_stack, cur_fds[j].fd) =>
                   \E i \in 1..Len(fd_stack) :
                       /\ fd_stack[i].fd = cur_fds[j].fd
                       /\ cur_fds[j].events \subseteq Buffered(n)[i].events
  BY <1>3, BufferedFacts
<1>5. /\ fd_stack' \in Seq(Frame)
      /\ Len(fd_stack') = Len(fd_stack)
      /\ \A i \in 1..Len(fd_stack) :
            /\ fd_stack'[i].fd = fd_stack[i].fd
            /\ fd_stack'[i].cb = fd_stack[i].cb
            /\ fd_stack[i].events \subseteq fd_stack'[i].events
            /\ fd_stack'[i].events # {} =>
                  \/ fd_stack[i].events # {}
                  \/ \E j \in 1..Len(cur_fds) :
                        /\ cur_fds[j].fd = fd_stack[i].fd
                        /\ cur_fds[j].fd # NULL
      /\ \A j \in 1..Len(cur_fds) :
            cur_fds[j].fd # NULL
                /\ Buffers(flags, fd_stack, cur_fds[j].fd) =>
                   \E i \in 1..Len(fd_stack) :
                       /\ fd_stack[i].fd = cur_fds[j].fd
                       /\ cur_fds[j].events \subseteq fd_stack'[i].events
  BY <1>2, <1>4 DEF n
<1>6. cur_fds' \in Seq(Entry) /\ Len(cur_fds') = 0
  BY <1>2
<1>7. TypeOK'
  BY <1>1, <1>2, <1>5, <1>6 DEF TypeOK
<1>8. Registration' /\ RegisteredIffPolled' /\ BatchExact'
  BY <1>1, <1>2, <1>6 DEF Registration, RegisteredIffPolled, BatchExact
<1>9. OpenFrameUnique' /\ NotReentered'
  <2>1. /\ Len(fd_stack') = Len(fd_stack)
        /\ \A i \in 1..Len(fd_stack) : /\ fd_stack'[i].fd = fd_stack[i].fd
                                       /\ fd_stack'[i].cb = fd_stack[i].cb
    BY <1>5
  <2>2. OpenFrameUnique'
    BY <1>1, <2>1 DEF OpenFrameUnique
  <2>3. NotReentered'
    BY <1>1, <2>1 DEF NotReentered
  <2> QED
    BY <2>2, <2>3
<1>10. FramesExact'
  <2> SUFFICES ASSUME NEW i \in 1..Len(fd_stack), fd_stack[i].fd # NULL
               PROVE  /\ fd_stack[i].cb = fd_stack[i].fd
                      /\ fd_stack'[i].events # {} =>
                            /\ fd_stack[i].fd \in EdgeFds
                            /\ registered[fd_stack[i].fd]
    BY <1>2, <1>5, <1>6 DEF FramesExact
  <2>1. ASSUME NEW j \in 1..Len(cur_fds), cur_fds[j].fd = fd_stack[i].fd,
               cur_fds[j].fd # NULL
        PROVE  fd_stack[i].fd \in EdgeFds /\ registered[fd_stack[i].fd]
    BY <1>2, <2>1, SkippedFacts
  <2> QED
    BY <1>1, <1>5, <2>1 DEF FramesExact
<1>11. EdgesKept'
  <2> SUFFICES ASSUME NEW f \in EdgeFds, NEW e \in owed[f]
               PROVE  \E i \in 1..Len(fd_stack') :
                            fd_stack'[i].fd = f /\ e \in fd_stack'[i].events
    BY <1>2 DEF EdgesKept
  <2>1. CASE \E i \in 1..Len(fd_stack) :
                fd_stack[i].fd = f /\ e \in fd_stack[i].events
    BY <1>5, <2>1
  <2>2. CASE \E j \in 1..Len(cur_fds) :
                cur_fds[j].fd = f /\ e \in cur_fds[j].events
    <3>1. PICK j \in 1..Len(cur_fds) :
                 cur_fds[j].fd = f /\ e \in cur_fds[j].events
      BY <2>2
    <3>2. f # NULL
      BY <1>1
    <3>3. Buffers(flags, fd_stack, cur_fds[j].fd)
      BY <1>2, <3>1, <3>2, SkippedFacts
    <3> QED
      BY <1>5, <3>1, <3>2, <3>3
  <2> QED
    BY <1>1, <2>1, <2>2 DEF EdgesKept
<1> QED
  BY <1>7, <1>8, <1>9, <1>10, <1>11 DEF Inv

(* fd->cb returned and is called again, for what was buffered: its fd was  *)
(* not deleted and the edges are delivered.                                *)
LEMMA CallbackAgainInv == ASSUME Inv, CallbackAgain PROVE Inv'
<1>1. /\ TypeOK /\ Registration /\ BatchExact /\ FramesExact
      /\ OpenFrameUnique /\ NotReentered /\ EdgesKept
      /\ RegisteredIffPolled
      /\ NULL \notin Fds /\ EdgeFds \subseteq Fds
  BY FdAssumption DEF Inv
<1> DEFINE cb == fd_stack[1].cb
           evs == fd_stack[1].events
<1>2. /\ fd_stack # <<>> /\ fd_stack[1].fd # NULL
      /\ fd_stack' = [fd_stack EXCEPT ![1].events = {}]
      /\ owed' = [owed EXCEPT ![cb] = @ \ evs]
      /\ UNCHANGED <<registered, flags, error, cur_fds, inLoop, poll_fd,
                     interest, ready, armed, deleted, reopened>>
  BY DEF CallbackAgain, kernelVars
<1>3. /\ Len(fd_stack) \in Nat /\ 1 \in 1..Len(fd_stack)
      /\ fd_stack \in Seq(Frame)
      /\ \A i \in 1..Len(fd_stack) : fd_stack[i] \in Frame
  BY <1>1, <1>2, ElementOfSeq DEF TypeOK
<1>4. /\ cb \in Fds /\ evs \subseteq Events
      /\ fd_stack[1].fd = cb
  BY <1>1, <1>2, <1>3, ElementFacts DEF FramesExact
<1>5. /\ fd_stack' \in Seq(Frame)
      /\ Len(fd_stack') = Len(fd_stack)
      /\ \A i \in 1..Len(fd_stack) :
            /\ fd_stack'[i].fd = fd_stack[i].fd
            /\ fd_stack'[i].cb = fd_stack[i].cb
            /\ fd_stack'[i].events = IF i = 1 THEN {} ELSE fd_stack[i].events
  <2>1. [fd_stack[1] EXCEPT !.events = {}] \in Frame
    BY <1>3 DEF Frame
  <2>2. fd_stack' = [fd_stack EXCEPT ![1] = [fd_stack[1] EXCEPT !.events = {}]]
    BY <1>2
  <2>3. /\ fd_stack' \in Seq(Frame) /\ Len(fd_stack') = Len(fd_stack)
        /\ \A i \in 1..Len(fd_stack) :
              fd_stack'[i] = IF i = 1 THEN [fd_stack[1] EXCEPT !.events = {}]
                             ELSE fd_stack[i]
    BY <1>3, <2>1, <2>2, ExceptSeq
  <2> QED
    BY <1>3, <2>3 DEF Frame
<1> HIDE DEF cb, evs
<1>6. /\ owed' \in [Fds -> SUBSET Events]
      /\ \A f \in Fds : owed'[f] = IF f = cb THEN owed[f] \ evs ELSE owed[f]
  BY <1>1, <1>2, <1>4 DEF TypeOK
<1>7. TypeOK'
  BY <1>1, <1>2, <1>5, <1>6 DEF TypeOK
<1>8. Registration' /\ RegisteredIffPolled' /\ BatchExact'
  BY <1>1, <1>2 DEF Registration, RegisteredIffPolled, BatchExact
<1>9. FramesExact' /\ OpenFrameUnique' /\ NotReentered'
  BY <1>1, <1>2, <1>5 DEF FramesExact, OpenFrameUnique, NotReentered
<1>10. EdgesKept'
  <2> SUFFICES ASSUME NEW f \in EdgeFds, NEW e \in owed'[f]
               PROVE  \/ \E i \in 1..Len(cur_fds) :
                            cur_fds[i].fd = f /\ e \in cur_fds[i].events
                      \/ \E i \in 1..Len(fd_stack') :
                            fd_stack'[i].fd = f /\ e \in fd_stack'[i].events
    BY <1>2 DEF EdgesKept
  <2>1. e \in owed[f] /\ (f = cb => e \notin evs)
    BY <1>1, <1>6
  <2>2. ASSUME NEW i \in 1..Len(fd_stack), fd_stack[i].fd = f,
               e \in fd_stack[i].events
        PROVE  fd_stack'[i].fd = f /\ e \in fd_stack'[i].events
    BY <1>4, <1>5, <2>1, <2>2 DEF evs
  <2> QED
    BY <1>1, <1>5, <2>1, <2>2 DEF EdgesKept
<1> QED
  BY <1>7, <1>8, <1>9, <1>10 DEF Inv

(* fd->cb returned, with nothing buffered or its fd deleted: the frame can *)
(* go.                                                                     *)
LEMMA CallbackReturnsInv == ASSUME Inv, CallbackReturns PROVE Inv'
<1>1. /\ TypeOK /\ Registration /\ BatchExact /\ FramesExact
      /\ OpenFrameUnique /\ NotReentered /\ EdgesKept
      /\ RegisteredIffPolled
      /\ NULL \notin Fds /\ EdgeFds \subseteq Fds
  BY FdAssumption DEF Inv
<1>2. /\ fd_stack # <<>>
      /\ fd_stack[1].fd = NULL \/ fd_stack[1].events = {}
      /\ fd_stack' = Tail(fd_stack) /\ inLoop' = TRUE
      /\ UNCHANGED <<registered, flags, error, cur_fds, poll_fd,
                     interest, ready, armed, deleted, owed, reopened>>
  BY DEF CallbackReturns, kernelVars
<1>3. fd_stack \in Seq(Frame) /\ Len(fd_stack) \in Nat /\ Len(fd_stack) > 0
  BY <1>1, <1>2 DEF TypeOK
<1>4. /\ fd_stack' \in Seq(Frame)
      /\ Len(fd_stack') = Len(fd_stack) - 1
      /\ \A i \in 1..(Len(fd_stack) - 1) : fd_stack'[i] = fd_stack[i + 1]
  BY <1>2, <1>3, HeadTailProperties
<1>5. \A i \in 1..Len(fd_stack') : /\ i + 1 \in 1..Len(fd_stack)
                                   /\ fd_stack'[i] = fd_stack[i + 1]
  BY <1>3, <1>4
<1>6. TypeOK'
  BY <1>1, <1>2, <1>4 DEF TypeOK
<1>7. Registration' /\ RegisteredIffPolled' /\ BatchExact'
  BY <1>1, <1>2 DEF Registration, RegisteredIffPolled, BatchExact
<1>8. FramesExact'
  BY <1>1, <1>2, <1>5 DEF FramesExact
<1>9. OpenFrameUnique'
  <2> SUFFICES ASSUME NEW f \in EdgeFds, NEW i \in 1..Len(fd_stack'),
                      NEW j \in 1..Len(fd_stack'),
                      fd_stack'[i].fd = f, fd_stack'[j].fd = f
               PROVE  i = j
    BY DEF OpenFrameUnique
  <2>1. i + 1 = j + 1
    BY <1>1, <1>5 DEF OpenFrameUnique
  <2> QED
    BY <1>3, <1>4, <2>1
<1>9a. NotReentered'
  <2> SUFFICES ASSUME NEW f \in EdgeFds, NEW i \in 1..Len(fd_stack'),
                      NEW j \in 1..Len(fd_stack'), i < j,
                      fd_stack'[i].cb = f, fd_stack'[j].cb = f
               PROVE  fd_stack'[j].fd = NULL
    BY DEF NotReentered
  <2>1. i + 1 < j + 1
    BY <1>3, <1>4
  <2> QED
    BY <1>1, <1>5, <2>1 DEF NotReentered
<1>10. EdgesKept'
  <2> SUFFICES ASSUME NEW f \in EdgeFds, NEW e \in owed[f]
               PROVE  \/ \E i \in 1..Len(cur_fds) :
                            cur_fds[i].fd = f /\ e \in cur_fds[i].events
                      \/ \E i \in 1..Len(fd_stack') :
                            fd_stack'[i].fd = f /\ e \in fd_stack'[i].events
    BY <1>2 DEF EdgesKept
  <2>1. ASSUME NEW i \in 1..Len(fd_stack), fd_stack[i].fd = f,
               e \in fd_stack[i].events
        PROVE  \E m \in 1..Len(fd_stack') :
                  fd_stack'[m].fd = f /\ e \in fd_stack'[m].events
    <3>1. i # 1
      BY <1>1, <1>2, <2>1
    <3>2. i - 1 \in 1..Len(fd_stack') /\ (i - 1) + 1 = i
      BY <1>3, <1>4, <3>1
    <3> QED
      BY <1>5, <2>1, <3>2
  <2> QED
    BY <1>1, <2>1 DEF EdgesKept
<1> QED
  BY <1>6, <1>7, <1>8, <1>9, <1>9a, <1>10 DEF Inv
-----------------------------------------------------------------------------
LEMMA InvInit == Init => Inv
<1> SUFFICES ASSUME Init PROVE Inv
  OBVIOUS
<1>1. TypeOK
  <2>1. cur_fds \in Seq(Entry) /\ fd_stack \in Seq(Frame)
    BY DEF Init
  <2>2. /\ registered \in [Fds -> BOOLEAN]
        /\ flags \in [Fds -> SUBSET {"ET", "ERROR_CB"}]
        /\ error \in [Fds -> BOOLEAN]
        /\ interest \in [Fds -> (SUBSET Events) \cup {NULL}]
        /\ ready \in [Fds -> SUBSET (Events \cup {HUP})]
    BY DEF Init
  <2>3. /\ armed \in [Fds -> BOOLEAN]
        /\ deleted \in [Fds -> BOOLEAN]
        /\ owed \in [Fds -> SUBSET Events]
        /\ inLoop \in BOOLEAN /\ poll_fd \in BOOLEAN /\ reopened \in BOOLEAN
    BY DEF Init
  <2> QED
    BY <2>1, <2>2, <2>3 DEF TypeOK
<1>2. Len(cur_fds) = 0 /\ Len(fd_stack) = 0
  BY DEF Init
<1>3. BatchExact /\ FramesExact /\ OpenFrameUnique /\ NotReentered
  BY <1>2 DEF BatchExact, FramesExact, OpenFrameUnique, NotReentered
<1>4. Registration /\ EdgesKept /\ RegisteredIffPolled
  BY FdAssumption DEF Init, Registration, EdgesKept, RegisteredIffPolled
<1> QED
  BY <1>1, <1>3, <1>4 DEF Inv

(* Conditions of open files come and go: only the kernel notices.          *)
LEMMA ConditionInv ==
    ASSUME Inv, NEW fd \in Fds, NEW e \in Events \cup {HUP},
           Arrive(fd, e) \/ (e \in Events /\ Consume(fd, e))
    PROVE  Inv'
<1>1. /\ UNCHANGED <<registered, flags, error, cur_fds, fd_stack, inLoop,
                     poll_fd, interest, deleted, owed, reopened>>
      /\ ready' \in [Fds -> SUBSET (Events \cup {HUP})]
      /\ armed' \in [Fds -> BOOLEAN]
  <2>1. /\ ready \in [Fds -> SUBSET (Events \cup {HUP})]
        /\ armed \in [Fds -> BOOLEAN]
    BY DEF Inv, TypeOK
  <2>2. CASE Arrive(fd, e)
    BY <2>1, <2>2 DEF Arrive
  <2>3. CASE e \in Events /\ Consume(fd, e)
    BY <2>1, <2>3 DEF Consume
  <2> QED
    BY <2>2, <2>3
<1>2. TypeOK' /\ Registration' /\ RegisteredIffPolled'
  BY <1>1 DEF Inv, TypeOK, Registration, RegisteredIffPolled
<1> QED
  BY <1>1, <1>2, BatchAndFramesUnchanged

(* The steps of the loop that call nothing, and uloop_done and uloop_init. *)
LEMMA LoopInv ==
    ASSUME Inv, \/ uloop_done \/ uloop_init \/ EnterRun \/ LeaveRun
                \/ UNCHANGED vars
    PROVE  Inv'
<1>1. TypeOK /\ Registration /\ RegisteredIffPolled
  BY DEF Inv
<1>2. CASE uloop_done
  <2>1. /\ UNCHANGED <<registered, flags, error, cur_fds, fd_stack, inLoop,
                       ready, armed, deleted, owed>>
        /\ interest' = [fd \in Fds |-> NULL] /\ poll_fd' = FALSE
        /\ reopened' = TRUE
    BY <1>2 DEF uloop_done
  <2>2. TypeOK' /\ Registration' /\ RegisteredIffPolled'
    BY <1>1, <2>1 DEF TypeOK, Registration, RegisteredIffPolled
  <2> QED
    BY <2>1, <2>2, BatchAndFramesUnchanged
<1>3. CASE uloop_init \/ EnterRun \/ LeaveRun \/ UNCHANGED vars
  <2>1. /\ UNCHANGED <<registered, flags, error, cur_fds, fd_stack, interest,
                       ready, armed, deleted, owed, reopened>>
        /\ inLoop' \in BOOLEAN /\ poll_fd' \in BOOLEAN
    BY <1>1, <1>3 DEF TypeOK, uloop_init, EnterRun, LeaveRun, vars, kernelVars
  <2>2. TypeOK' /\ Registration' /\ RegisteredIffPolled'
    BY <1>1, <2>1 DEF TypeOK, Registration, RegisteredIffPolled
  <2> QED
    BY <2>1, <2>2, BatchAndFramesUnchanged
<1> QED
  BY <1>2, <1>3

(* The inductive step: every operation and every step of the loop.         *)
LEMMA InvNext == Inv /\ [Next]_vars => Inv'
<1> SUFFICES ASSUME Inv, [Next]_vars PROVE Inv'
  OBVIOUS
<1>1. ASSUME NEW fd \in Fds, NEW e \in Events \cup {HUP}, Arrive(fd, e)
      PROVE  Inv'
  BY <1>1, ConditionInv
<1>2. ASSUME NEW fd \in Fds, NEW e \in Events, Consume(fd, e) PROVE Inv'
  BY <1>2, ConditionInv
<1>3. ASSUME NEW fd \in Fds, NEW ev \in SUBSET Events, uloop_fd_add(fd, ev)
      PROVE  Inv'
  <2>1. CASE ev = {}
    BY <1>3, <2>1, DeleteInv DEF uloop_fd_add
  <2>2. CASE ev # {}
    BY <1>3, <2>2, AddInv
  <2> QED
    BY <2>1, <2>2
<1>4. ASSUME NEW fd \in Fds, uloop_fd_delete(fd) PROVE Inv'
  BY <1>4, DeleteInv DEF uloop_fd_delete
<1>5. CASE \/ uloop_done \/ uloop_init \/ EnterRun \/ LeaveRun
           \/ UNCHANGED vars
  BY <1>5, LoopInv
<1>6. CASE Fetch
  BY <1>6, FetchInv
<1>7. CASE Dispatch
  BY <1>7, DispatchInv
<1>8. CASE DispatchNone
  BY <1>8, DispatchNoneInv
<1>9. CASE CallbackAgain
  BY <1>9, CallbackAgainInv
<1>10. CASE CallbackReturns
  BY <1>10, CallbackReturnsInv
<1> QED
  BY <1>1, <1>2, <1>3, <1>4, <1>5, <1>6, <1>7, <1>8, <1>9, <1>10 DEF Next

LEMMA InvAlways == Spec => []Inv
  BY InvInit, InvNext, PTL DEF Spec
-----------------------------------------------------------------------------
(* The events of an edge-triggered fd that epoll_wait handed to            *)
(* uloop_fetch_events, and will not report again, wait in the batch or in  *)
(* a frame of the stack until uloop_run_events called fd->cb with them or  *)
(* uloop_fd_delete was called, however the loops are nested.               *)
THEOREM NoEdgeLost == Spec => []EdgesKept
<1>1. Inv => EdgesKept
  BY DEF Inv
<1> QED
  BY <1>1, InvAlways, PTL

(* uloop_fd_stack_event keeps uloop_run_events from calling the callback   *)
(* of an edge-triggered fd while it runs, unless the fd was deleted since  *)
(* that call began: then its frame is cut off.                             *)
THEOREM CallbackNotReentered == Spec => []NotReentered
<1>1. Inv => NotReentered
  BY DEF Inv
<1> QED
  BY <1>1, InvAlways, PTL

(* register_poll and __uloop_fd_delete keep fd->registered equal to what   *)
(* epoll knows of the fd, until uloop_done closes the epoll instance.      *)
THEOREM KernelAgrees == Spec => []RegisteredIffPolled
<1>1. Inv => RegisteredIffPolled
  BY DEF Inv
<1> QED
  BY <1>1, InvAlways, PTL

(* uloop_run_events calls no callback for an fd after the application has  *)
(* called uloop_fd_delete, be its event in the batch or in a frame at that *)
(* time.  If the fd is not registered all the same, uloop_fetch_events has *)
(* deleted it for an error, and fd->error is set.                          *)
THEOREM DeletedNotCalled == Spec => NoCallbackAfterDelete
<1>1. Inv /\ [Next]_vars
         => [Dispatch \/ CallbackAgain =>
                LET fd == fd_stack'[1].cb
                IN  ~deleted[fd] /\ (registered[fd] \/ error[fd])]_vars
  <2> SUFFICES ASSUME Inv, Dispatch \/ CallbackAgain
               PROVE  /\ fd_stack'[1].cb \in Fds
                      /\ ~deleted[fd_stack'[1].cb]
    BY DEF Inv, Registration
  <2>1. TypeOK /\ Registration /\ BatchExact /\ FramesExact
    BY DEF Inv
  <2>2. CASE Dispatch
    <3>1. PICK k \in FirstCallable :
             fd_stack' = <<[fd |-> cur_fds[k].fd, cb |-> cur_fds[k].fd,
                            events |-> {}]>> \o Buffered(k - 1)
      BY <2>2 DEF Dispatch
    <3>2. k \in 1..Len(cur_fds) /\ cur_fds[k].fd # NULL
      BY DEF FirstCallable, Skipped
    <3>3. k - 1 \in 0..Len(cur_fds)
      BY <2>1, <3>2, ElementFacts
    <3>4. Buffered(k - 1) \in Seq(Frame)
      BY <3>3, BufferedFacts
    <3>5. [fd |-> cur_fds[k].fd, cb |-> cur_fds[k].fd, events |-> {}] \in Frame
      BY <2>1, <3>2, ElementFacts DEF Frame
    <3> DEFINE top == [fd |-> cur_fds[k].fd, cb |-> cur_fds[k].fd,
                       events |-> {}]
    <3>6. top.cb = cur_fds[k].fd /\ fd_stack' = <<top>> \o Buffered(k - 1)
      BY <3>1
    <3> HIDE DEF top
    <3>7. fd_stack'[1] = top
      BY <3>4, <3>5, <3>6, ConcatProperties DEF top
    <3> QED
      BY <2>1, <3>2, <3>6, <3>7, ElementFacts DEF BatchExact
  <2>3. CASE CallbackAgain
    <3>1. /\ fd_stack # <<>> /\ fd_stack[1].fd # NULL
          /\ fd_stack[1].events # {}
          /\ fd_stack' = [fd_stack EXCEPT ![1].events = {}]
      BY <2>3 DEF CallbackAgain
    <3>2. fd_stack \in Seq(Frame) /\ 1 \in 1..Len(fd_stack)
      BY <2>1, <3>1 DEF TypeOK
    <3>3. fd_stack[1] \in Frame
      BY <3>2, ElementOfSeq
    <3>4. fd_stack'[1].cb = fd_stack[1].cb
      BY <3>1, <3>2, <3>3 DEF Frame
    <3>5. fd_stack[1].cb \in Fds /\ registered[fd_stack[1].cb]
      BY <2>1, <3>1, <3>2, ElementFacts DEF FramesExact
    <3> QED
      BY <2>1, <3>4, <3>5 DEF Registration
  <2> QED
    BY <2>2, <2>3
<1> QED
  BY <1>1, InvAlways, PTL DEF Spec, NoCallbackAfterDelete
=============================================================================
