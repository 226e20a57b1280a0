----------------------------- MODULE UstreamFd -----------------------------
(***************************************************************************)
(* A stream on a file descriptor: ustream.c with the driver ustream-fd.c.  *)
(* Bytes are numbered in the order in which the peer, or the application,  *)
(* sends them.  The application runs outside the event loop ("idle") and   *)
(* in the callbacks notify_read and notify_write, from which it may use    *)
(* the stream, but neither free nor poll it, nor run a loop.               *)
(*                                                                         *)
(* The socket and epoll are external: `armed` is an edge not yet reported, *)
(* as in UloopFd.                                                          *)
(***************************************************************************)
EXTENDS UstreamBuf, FiniteSets

CONSTANTS
    ReadLimits, WriteLimits, \* <<min_buffers, max_buffers, buffer_len>>
    MaxIn, MaxOut,           \* bounds on the bytes that are sent
    SockRoom                 \* what the send buffer of the socket holds

ASSUME StreamAssumption ==
    /\ MaxIn \in Nat /\ MaxOut \in Nat /\ SockRoom \in Nat
    /\ ReadLimits \in Nat \X Int \X (Nat \ {0})
    /\ WriteLimits \in Nat \X Int \X (Nat \ {0})

VARIABLES
    r, w,           \* the buffer lists
    read_blocked,   \* a set of "USER" and "FULL"
    eof, write_error,
    state_change,   \* the timer is pending
    fd_error,       \* fd.error
    interest,       \* what uloop polls the fd for; {} if it is deleted
    pc,             \* what the stream is doing
    events,         \* the events that __ustream_fd_poll was called with
    wr,             \* `wr` of ustream_write_pending
    inbox,          \* the socket: bytes to read
    closed, failed, \* the socket: the peer closed it; it is in error
    room,           \* the socket: how many bytes it takes
    armed,
    sent,           \* how many bytes the peer has sent
    got,            \* how many the application has consumed
    accepted,       \* how many the stream has accepted from the application
    taken,          \* how many of them the socket has taken
    told            \* ghost: what notify_state was last called for

buffers == <<r, w>>
state == <<eof, write_error, state_change, told>>
poll == <<pc, events, wr>>
socket == <<inbox, closed, failed, room, sent, taken>>
uloop == <<interest, armed, fd_error>>
vars == <<buffers, read_blocked, state, poll, socket, uloop, got, accepted>>

\* The bytes with the numbers a + 1 to b.
Bytes(a, b) == [i \in 1..(b - a) |-> a + i]

InApplication == pc \in {"idle", "notify_read", "notify_write"}
-----------------------------------------------------------------------------
\* mutant: the fd is not polled for buffered data
FlagsArgument(blocked, ended, out, write) ==
    {e \in {"READ", "WRITE"} : \/ e = "READ" /\ blocked = {} /\ ~ended
                               \/ e = "WRITE" /\ write}

(***************************************************************************)
(* ustream_fd_set_uloop, with what it reads of the stream and its argument *)
(* `write`.  uloop_fd_add arms the fd again, and resets its error; without *)
(* an event it deletes the fd.                                             *)
(***************************************************************************)
Flags(blocked, ended, out, write) ==
    {e \in {"READ", "WRITE"} :
        \/ e = "READ" /\ blocked = {} /\ ~ended
        \/ e = "WRITE" /\ (write \/ (out.bufs # <<>> /\ out.data_bytes # 0
                                       /\ ~write_error'))}

uloop_fd_add(flags) ==
    /\ interest' = flags
    /\ armed' = (armed \/ flags # {})
    /\ fd_error' = (fd_error /\ flags = {})

\* __ustream_set_read_blocked: the driver is told when it blocks or unblocks.
SetReadBlocked(val) ==
    /\ read_blocked' = val
    /\ IF (val = {}) = (read_blocked = {}) THEN UNCHANGED uloop
       ELSE uloop_fd_add(Flags(val, eof', w', FALSE))
-----------------------------------------------------------------------------
(***************************************************************************)
(* The application.                                                        *)
(***************************************************************************)

\* ustream_consume, and ustream_read, which consumes what it copies.
ustream_consume(n) ==
    /\ InApplication
    /\ n <= r.data_bytes
    /\ r' = Drop(r, n)
    /\ got' = got + n
    /\ UNCHANGED <<w, state, poll, socket, accepted>>
    /\ SetReadBlocked(read_blocked \ {"FULL"})

ustream_set_read_blocked(set) ==
    /\ InApplication
    /\ UNCHANGED <<buffers, state, poll, socket, got, accepted>>
    /\ SetReadBlocked(IF set THEN read_blocked \cup {"USER"}
                             ELSE read_blocked \ {"USER"})

\* ustream_write_error, and ustream_write failing with it.
ustream_write_error ==
    /\ state_change' = TRUE
    /\ write_error' = TRUE

WriteFails ==
    /\ InApplication
    /\ ~write_error /\ w.data_bytes = 0 /\ failed
    /\ ustream_write_error
    /\ UNCHANGED <<buffers, read_blocked, eof, told, poll, socket, uloop, got,
                   accepted>>

\* ustream_write of n bytes to an empty buffer: ustream_fd_write hands over
\* what the socket takes, and the rest is buffered and polled for.
WriteDirect(n) ==
    LET k   == Smaller(n, room)
        buf == ustream_write_buffered(w, Bytes(accepted + k, accepted + n))
    IN  /\ InApplication
        /\ ~write_error /\ w.data_bytes = 0 /\ ~failed
        /\ accepted + n <= MaxOut
        /\ taken' = taken + k
        /\ room' = room - k
        /\ accepted' = accepted + n - Len(buf.left)
        /\ w' = buf.list
        /\ UNCHANGED <<r, read_blocked, state, poll, inbox, closed, failed,
                       sent, got>>
        /\ IF k < n THEN uloop_fd_add(Flags(read_blocked, eof, w, TRUE))
                    ELSE UNCHANGED uloop

\* ustream_write of n bytes behind others that are buffered.
WriteBehind(n) ==
    LET buf == ustream_write_buffered(w, Bytes(accepted, accepted + n))
    IN  /\ InApplication
        /\ ~write_error /\ w.data_bytes # 0
        /\ accepted + n <= MaxOut
        /\ accepted' = accepted + n - Len(buf.left)
        /\ w' = buf.list
        /\ UNCHANGED <<r, read_blocked, state, poll, socket, uloop, got>>

\* What vsnprintf puts into data_tail, which keeps a byte for its final 0.
Printed(l, n) == Smaller(n, RoomIn(l, l.bufs[l.data_tail]) - 1)

\* The first k bytes behind the data of data_tail after vsnprintf: its final
\* 0 is in the last byte of the buffer if the text does not end before.
PrintedBytes(l, k) ==
    [i \in 1..k |-> IF i = RoomIn(l, l.bufs[l.data_tail]) THEN 0
                    ELSE accepted + i]

\* ustream_vprintf of n bytes behind others.  To an empty buffer it writes
\* like ustream_write.
ustream_vprintf(n) ==
    LET p   == ustream_prepare_buf(w, 1)
        k   == Printed(p, n)
        q   == Fill(p, PrintedBytes(p, k))
        buf == ustream_write_buffered(q, Bytes(accepted + k, accepted + n))
    IN  /\ InApplication
        /\ ~write_error /\ w.data_bytes # 0
        /\ accepted + n <= MaxOut
        /\ CanPrepare(w, 1)
        /\ accepted' = accepted + n - Len(buf.left)
        /\ w' = buf.list
        /\ UNCHANGED <<r, read_blocked, state, poll, socket, uloop, got>>

\* ustream_poll, from outside the stream's callbacks
ustream_poll ==
    /\ pc = "idle"
    /\ pc' = "read"
    /\ events' = {"READ", "WRITE"}
    /\ UNCHANGED <<buffers, read_blocked, state, wr, socket, uloop, got,
                   accepted>>

\* ustream_free, likewise
ustream_free ==
    /\ pc = "idle"
    /\ pc' = "freed"
    /\ interest' = {}
    /\ state_change' = FALSE
    /\ r' = ustream_free_buffers(r)
    /\ w' = ustream_free_buffers(w)
    /\ UNCHANGED <<read_blocked, eof, write_error, told, events, wr, socket,
                   armed, fd_error, got, accepted>>

\* ustream_state_change_cb: after a write error the buffers are dropped.
ustream_state_change_cb ==
    /\ pc = "idle"
    /\ state_change
    /\ state_change' = FALSE
    /\ w' = IF write_error THEN ustream_free_buffers(w) ELSE w
    /\ told' = [eof |-> eof, write_error |-> write_error,
                flushed |-> w.data_bytes = 0]
    /\ UNCHANGED <<r, read_blocked, eof, write_error, poll, socket, uloop, got,
                   accepted>>
-----------------------------------------------------------------------------
(***************************************************************************)
(* __ustream_fd_poll.                                                      *)
(***************************************************************************)

Ready ==
    {e \in {"READ", "WRITE"} :
        \/ e = "READ" /\ (inbox # <<>> \/ closed \/ failed)
        \/ e = "WRITE" /\ (room > 0 \/ failed)}

\* uloop reports an edge: ustream_uloop_cb.
ustream_uloop_cb ==
    /\ pc = "idle"
    /\ interest # {} /\ armed
    /\ Ready \cap interest # {} \/ failed
    /\ armed' = FALSE
    /\ fd_error' = (fd_error \/ failed)
    /\ events' = Ready \cap interest
    /\ pc' = "read"
    /\ UNCHANGED <<buffers, read_blocked, state, wr, socket, interest, got,
                   accepted>>

\* ustream_fd_read_pending is not called, or its loop ends because reading is
\* blocked, or with EAGAIN.
ReadEnds ==
    /\ pc = "read"
    /\ \/ "READ" \notin events /\ UNCHANGED r
       \/ /\ "READ" \in events
          /\ read_blocked # {}
          /\ UNCHANGED r
       \/ /\ "READ" \in events
          /\ read_blocked = {}
          /\ CanPrepare(r, 1)
          /\ inbox = <<>> /\ ~closed /\ ~failed
          /\ r' = ustream_prepare_buf(r, 1)
    /\ pc' = "write"
    /\ UNCHANGED <<w, read_blocked, state, events, wr, socket, uloop, got,
                   accepted>>

\* ustream_reserve finds no room: reading is blocked until data is consumed.
ReadFull ==
    /\ pc = "read" /\ "READ" \in events
    /\ read_blocked = {}
    /\ ~CanPrepare(r, 1)
    /\ r' = Compacted(r, 1)
    /\ pc' = "write"
    /\ UNCHANGED <<w, state, events, wr, socket, got, accepted>>
    /\ SetReadBlocked({"FULL"})

\* read() returns data; ustream_fill_read, up to notify_read.
ReadData ==
    LET p == ustream_prepare_buf(r, 1)
        n == Smaller(Len(inbox), RoomIn(p, p.bufs[p.data_tail]))
    IN  /\ pc = "read" /\ "READ" \in events
        /\ read_blocked = {}
        /\ CanPrepare(r, 1)
        /\ inbox # <<>>
        /\ r' = Fill(p, SubSeq(inbox, 1, n))
        /\ inbox' = SubSeq(inbox, n + 1, Len(inbox))
        /\ pc' = "notify_read"
        /\ UNCHANGED <<w, read_blocked, state, events, wr, closed, failed, room,
                       sent, taken, uloop, got, accepted>>

\* read() returns 0, or an error.
ReadEof ==
    /\ pc = "read" /\ "READ" \in events
    /\ read_blocked = {}
    /\ CanPrepare(r, 1)
    /\ inbox = <<>> /\ (closed \/ failed)
    /\ r' = ustream_prepare_buf(r, 1)
    /\ state_change' = (state_change \/ ~eof)
    /\ eof' = TRUE
    /\ pc' = "write"
    /\ UNCHANGED <<w, read_blocked, write_error, told, events, wr, socket, got,
                   accepted>>
    /\ uloop_fd_add(Flags(read_blocked, TRUE, w, FALSE))

\* ustream_write_pending is not called, or returns because of an error.
WriteEnds ==
    /\ pc = "write"
    /\ "WRITE" \notin events \/ write_error
    /\ pc' = "error"
    /\ UNCHANGED <<buffers, read_blocked, state, events, wr, socket, uloop, got,
                   accepted>>

\* Its loop fails, and notify_write is called for nothing.
WritePendingFails ==
    /\ pc = "write" /\ "WRITE" \in events
    /\ ~write_error /\ w.data_bytes # 0 /\ failed
    /\ ustream_write_error
    /\ wr' = 0
    /\ pc' = "notify_write"
    /\ UNCHANGED <<buffers, read_blocked, eof, told, events, socket, uloop, got,
                   accepted>>

\* Its loop writes what the socket takes, up to notify_write.  When that is
\* not all, ustream_fd_write has asked uloop to poll for more.
WritePending ==
    LET n == Smaller(w.data_bytes, room)
    IN  /\ pc = "write" /\ "WRITE" \in events
        /\ ~write_error /\ (w.data_bytes = 0 \/ ~failed)
        /\ w' = Drop(w, n)
        /\ taken' = taken + n
        /\ room' = room - n
        /\ wr' = n
        /\ pc' = "notify_write"
        /\ UNCHANGED <<r, read_blocked, state, events, inbox, closed, failed,
                       sent, got, accepted>>
        /\ IF n < w.data_bytes
           THEN uloop_fd_add(Flags(read_blocked, eof, w', TRUE))
           ELSE UNCHANGED uloop

NotifyReturns ==
    /\ pc \in {"notify_read", "notify_write"}
    /\ pc' = IF pc = "notify_read" THEN "read" ELSE "written"
    /\ UNCHANGED <<buffers, read_blocked, state, events, wr, socket, uloop, got,
                   accepted>>

\* mutant: the end of the buffered data is not reported
FlushedUnnoticed == FALSE

\* if (s->eof && wr && !s->w.data_bytes)
FlushedAfterEof == eof /\ wr # 0 /\ w.data_bytes = 0

\* The end of ustream_write_pending, and what is done when nothing is left.
Written ==
    /\ pc = "written"
    /\ state_change' = (state_change \/ FlushedAfterEof)
    /\ wr' = 0
    /\ pc' = "error"
    /\ UNCHANGED <<buffers, read_blocked, eof, write_error, told, events,
                   socket, got, accepted>>
    /\ IF w.data_bytes = 0
       THEN uloop_fd_add(Flags(read_blocked, eof, w, FALSE))
       ELSE UNCHANGED uloop

\* The last part of __ustream_fd_poll: an error of the fd ends writing.
PollEnds ==
    /\ pc = "error"
    /\ pc' = "idle"
    /\ events' = {}
    /\ UNCHANGED <<buffers, read_blocked, eof, told, wr, socket, got, accepted>>
    /\ IF fd_error /\ ~write_error
       THEN /\ ustream_write_error
            /\ uloop_fd_add(Flags(read_blocked, eof, w, FALSE))
       ELSE UNCHANGED <<state_change, write_error, uloop>>
-----------------------------------------------------------------------------
(***************************************************************************)
(* The peer and the socket.                                                *)
(***************************************************************************)
PeerSends ==
    /\ sent < MaxIn /\ ~closed /\ ~failed
    /\ sent' = sent + 1
    /\ inbox' = Append(inbox, sent + 1)
    /\ armed' = TRUE
    /\ UNCHANGED <<buffers, read_blocked, state, poll, closed, failed, room,
                   taken, interest, fd_error, got, accepted>>

PeerCloses ==
    /\ ~closed
    /\ closed' = TRUE
    /\ armed' = TRUE
    /\ UNCHANGED <<buffers, read_blocked, state, poll, inbox, failed, room,
                   sent, taken, interest, fd_error, got, accepted>>

PeerReads ==
    /\ ~failed
    /\ room' \in (room + 1)..SockRoom
    /\ armed' = TRUE
    /\ UNCHANGED <<buffers, read_blocked, state, poll, inbox, closed, failed,
                   sent, taken, interest, fd_error, got, accepted>>

SocketFails ==
    /\ ~failed
    /\ failed' = TRUE
    /\ armed' = TRUE
    /\ UNCHANGED <<buffers, read_blocked, state, poll, inbox, closed, room,
                   sent, taken, interest, fd_error, got, accepted>>
-----------------------------------------------------------------------------
\* ustream_fd_init
Init ==
    /\ r = NewList(ReadLimits[1], ReadLimits[2], ReadLimits[3])
    /\ w = NewList(WriteLimits[1], WriteLimits[2], WriteLimits[3])
    /\ read_blocked = {}
    /\ eof = FALSE /\ write_error = FALSE /\ state_change = FALSE
    /\ told = [eof |-> FALSE, write_error |-> FALSE, flushed |-> FALSE]
    /\ fd_error = FALSE /\ interest = {"READ"} /\ armed = TRUE
    /\ pc = "idle" /\ events = {} /\ wr = 0
    /\ inbox = <<>> /\ closed = FALSE /\ failed = FALSE /\ room = SockRoom
    /\ sent = 0 /\ got = 0 /\ accepted = 0 /\ taken = 0

Next ==
    \/ \E n \in 1..MaxIn : ustream_consume(n)
    \/ \E set \in BOOLEAN : ustream_set_read_blocked(set)
    \/ \E n \in 1..MaxOut : WriteDirect(n) \/ WriteBehind(n) \/ ustream_vprintf(n)
    \/ WriteFails \/ ustream_poll \/ ustream_free \/ ustream_state_change_cb
    \/ ustream_uloop_cb \/ ReadEnds \/ ReadFull \/ ReadData \/ ReadEof
    \/ WriteEnds \/ WritePendingFails \/ WritePending \/ NotifyReturns
    \/ Written \/ PollEnds
    \/ PeerSends \/ PeerCloses \/ PeerReads \/ SocketFails

Spec == Init /\ [][Next]_vars
-----------------------------------------------------------------------------
(***************************************************************************)
(* What the application has read, what is buffered and what the socket     *)
(* holds are, in this order, the bytes the peer has sent: none is lost,    *)
(* repeated or reordered, however buffers are compacted, recycled and      *)
(* freed while callbacks consume.  For writing, the buffered bytes are     *)
(* those that were accepted and that the socket has not taken, until a     *)
(* write error drops them.                                                 *)
(***************************************************************************)
BytesInOrder ==
    pc # "freed" =>
        /\ Contents(r) \o inbox = Bytes(got, sent)
        /\ ~write_error => Contents(w) = Bytes(taken, accepted)

(***************************************************************************)
(* The counters of a list match its buffers, its limits are kept, no       *)
(* buffer is filled beyond its end, and every buffer before data_tail has  *)
(* data and none after it has: readers look only at the head.              *)
(***************************************************************************)
BuffersConsistent ==
    \A l \in {r, w} :
        pc # "freed" /\ (l = r \/ ~write_error) =>
            /\ l.buffers = Len(l.bufs)
            /\ l.data_bytes = Len(Contents(l))
            /\ l.limits.max_buffers > 0 => l.buffers <= l.limits.max_buffers
            /\ \A i \in DOMAIN l.bufs :
                  /\ l.bufs[i].space + Len(l.bufs[i].data)
                        <= l.limits.buffer_len
                  /\ i < l.data_tail => l.bufs[i].data # <<>>
                  /\ i > l.data_tail => l.bufs[i].data = <<>>

(***************************************************************************)
(* Reading that stopped for lack of room goes on: while it is blocked for  *)
(* that reason there is data whose consumption unblocks it, and whenever   *)
(* it is not blocked and there is something to read, uloop will report it, *)
(* although only edges are reported.  Buffered data is on its way: the fd  *)
(* is polled for writing, and room in the socket will be reported.         *)
(***************************************************************************)
NeverStuck ==
    /\ "FULL" \in read_blocked /\ pc # "freed" => r.data_bytes > 0
    /\ (pc = "idle" /\ read_blocked = {} /\ ~eof
           /\ (inbox # <<>> \/ closed \/ failed))
          => "READ" \in interest /\ armed
    /\ (pc = "idle" /\ w.data_bytes # 0 /\ ~write_error)
          => "WRITE" \in interest /\ (room > 0 => armed)

(***************************************************************************)
(* The application is told of the end of the stream and of a write error,  *)
(* and, after the end of the stream, again when the write buffer has been  *)
(* emptied (the comment on notify_state in ustream.h).                     *)
(***************************************************************************)
StateReported ==
    pc = "idle" => \/ state_change
                   \/ /\ eof => told.eof
                      /\ write_error => told.write_error
                      /\ (eof /\ w.data_bytes = 0 /\ ~write_error)
                            => told.flushed
=============================================================================
