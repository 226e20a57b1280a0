---------------------------- MODULE UstreamBuf ----------------------------
(***************************************************************************)
(* The buffer lists of ustream.c, as operators.  A list is a record:       *)
(*   bufs        the buffers from head to tail, each with the space in     *)
(*               front of its data (data - head) and the data itself       *)
(*   data_tail   the index of the buffer that is being filled, 0 for NULL  *)
(*   buffers     the counter of buffers                                    *)
(*   data_bytes  the counter of bytes                                      *)
(*   limits      min_buffers, max_buffers and buffer_len                   *)
(* A loop of the code is a function from the number of its iterations to   *)
(* the state it has reached.                                               *)
(***************************************************************************)
EXTENDS Integers, Sequences, SequencesExt

CONSTANT SmallData \* 32 in C: data this short is moved sooner

ASSUME SmallDataAssumption == SmallData \in Nat

EmptyBuf == [space |-> 0, data |-> <<>>]

NewList(min, max, len) ==
    [bufs |-> <<>>, data_tail |-> 0, buffers |-> 0, data_bytes |-> 0,
     limits |-> [min_buffers |-> min, max_buffers |-> max, buffer_len |-> len]]

\* The bytes of the list, in order.
Contents(l) == FlattenSeq([i \in DOMAIN l.bufs |-> l.bufs[i].data])

\* mutant: the space in front of the data is taken for free
RoomOfData(l, b) == l.limits.buffer_len - Len(b.data)

\* The bytes that fit behind the data of a buffer: end - tail.
RoomIn(l, b) == l.limits.buffer_len - b.space - Len(b.data)

ustream_can_alloc(l) ==
    l.limits.max_buffers <= 0 \/ l.buffers < l.limits.max_buffers

ustream_add_buf(l, b) ==
    [l EXCEPT !.buffers = @ + 1,
              !.bufs = Append(@, b),
              !.data_tail = IF @ = 0 THEN 1 ELSE @]

\* ustream_free_buf of the head: freed, or recycled at the tail.
ustream_free_buf(l) ==
    LET cut == [l EXCEPT !.bufs = Tail(@),
                         !.data_tail = IF @ > 1 THEN @ - 1
                                       ELSE IF Len(l.bufs) = 1 THEN 0 ELSE 1,
                         !.buffers = @ - 1]
    IN  IF cut.buffers >= l.limits.min_buffers THEN cut
        ELSE ustream_add_buf(cut, EmptyBuf)

ustream_should_move(l, len) ==
    LET b      == l.bufs[l.data_tail]
        maxlen == l.limits.buffer_len
    IN  /\ b.space > 0
        /\ \/ b.space > maxlen \div 2
           \/ Len(b.data) < SmallData /\ b.space > maxlen \div 4
           \/ /\ l.data_tail = Len(l.bufs)
              /\ ~ustream_can_alloc(l)
              /\ RoomIn(l, b) < len

\* mutant: the tail pointer stays when the data moves to the front
CompactedTailKept(l, len) ==
    IF l.data_tail # 0 /\ ustream_should_move(l, len)
    THEN LET b == l.bufs[l.data_tail]
         IN  [l EXCEPT !.bufs[l.data_tail] =
                [space |-> 0,
                 data  |-> b.data \o SubSeq(b.data, Len(b.data) - b.space + 1,
                                            Len(b.data))]]
    ELSE l

\* The first half of ustream_prepare_buf: compacting.
Compacted(l, len) ==
    IF l.data_tail # 0 /\ ustream_should_move(l, len)
    THEN [l EXCEPT !.bufs[l.data_tail].space = 0] ELSE l

HasRoom(l) == l.data_tail # 0 /\ RoomIn(l, l.bufs[l.data_tail]) > 0
HasNext(l) == l.data_tail # 0 /\ l.data_tail < Len(l.bufs)

\* ustream_prepare_buf: whether it succeeds, and the list after it.
CanPrepare(l, len) ==
    LET m == Compacted(l, len)
    IN  HasRoom(m) \/ HasNext(m) \/ ustream_can_alloc(m)

ustream_prepare_buf(l, len) ==
    LET m == Compacted(l, len)
    IN  IF HasRoom(m) THEN m
        ELSE IF HasNext(m) THEN [m EXCEPT !.data_tail = @ + 1]
        ELSE IF ustream_can_alloc(m)
        THEN [ustream_add_buf(m, EmptyBuf) EXCEPT !.data_tail = Len(m.bufs) + 1]
        ELSE m

\* Data that fits is put behind the data of data_tail: the buffer part of
\* ustream_fill_read, for what read() put into the reserved space.
Fill(l, data) ==
    [l EXCEPT !.bufs[l.data_tail].data = @ \o data,
              !.data_bytes = @ + Len(data)]

Smaller(a, b) == IF a < b THEN a ELSE b

\* One turn of the loop of ustream_write_buffered.
WriteStep(s) ==
    LET len == Len(s.left)
        p   == ustream_prepare_buf(s.list, len)
        n   == Smaller(RoomIn(p, p.bufs[p.data_tail]), len)
    IN  IF s.left = <<>> THEN s
        ELSE IF ~CanPrepare(s.list, len)
        THEN [s EXCEPT !.list = Compacted(@, len)]
        ELSE [list |-> Fill(p, SubSeq(s.left, 1, n)),
              left |-> SubSeq(s.left, n + 1, len)]

\* ustream_write_buffered: what is left of the data, and the list.
ustream_write_buffered(l, data) ==
    LET step[i \in 0..Len(data)] ==
          IF i = 0 THEN [list |-> l, left |-> data] ELSE WriteStep(step[i - 1])
    IN  step[Len(data)]

\* One turn of the loops of ustream_consume and ustream_write_pending.
DropStep(s) ==
    LET head == s.list.bufs[1]
        k    == Len(head.data)
    IN  IF s.left = 0 THEN s
        ELSE IF s.left < k
        THEN [list |-> [s.list EXCEPT
                          !.bufs[1] = [space |-> head.space + s.left,
                                       data  |-> SubSeq(head.data, s.left + 1,
                                                        k)]],
              left |-> 0]
        ELSE [list |-> ustream_free_buf(s.list),
              left |-> s.left - k]

\* These loops: n bytes are gone from the head, and so is every buffer that
\* had no others.
Drop(l, n) ==
    LET step[i \in 0..n] ==
          IF i = 0 THEN [list |-> [l EXCEPT !.data_bytes = @ - n], left |-> n]
          ELSE DropStep(step[i - 1])
    IN  step[n].list

\* ustream_free_buffers, which leaves the counters alone.
ustream_free_buffers(l) == [l EXCEPT !.bufs = <<>>, !.data_tail = 0]
=============================================================================
