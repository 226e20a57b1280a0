------------------------------ MODULE Jsonrpc ------------------------------
(***************************************************************************)
(* The JSON-RPC server and client of jsonrpc.c: the server's callbacks     *)
(* server_cb and connection_cb run from uloop with edge-triggered fds, and *)
(* one peer, Caller, is a program that uses jrpc_client_call.  The other   *)
(* peers speak the protocol as they like: they send requests ahead of the  *)
(* replies, and what is no request, in fragments, and close at any time.   *)
(*                                                                         *)
(* A text on a stream is cut into pieces, <<message, part>>: its "head"    *)
(* and "tail", which make one JSON value together, and the newline that    *)
(* follows it, "nl"; "bad" is a text that is not JSON.  A buffer and a     *)
(* socket count pieces.  Sockets and epoll are external.                   *)
(*                                                                         *)
(* The server's program may exit, and a read of the caller may fail: its   *)
(* sockets block, so that EINTR and ECONNRESET are left.                   *)
(***************************************************************************)
EXTENDS Integers, Sequences, SequencesExt, FiniteSets

CONSTANTS
    Peers,      \* the peers, one connection each
    Caller,     \* the one that is a jrpc_client, on a blocking socket
    Calls,      \* the names of the procedures it calls, in order
    Scripts,    \* sequences that the other peers send, of calls, "invalid"
                \* (an object that is no request), "array" (JSON, but no
                \* object) and "bad"
    MaxCalls,   \* how many of them it calls, one more for a read that fails
    MaxFails,   \* bound on the reads of Caller that fail, which they do only
                \* when no other peer comes
    Edge,       \* the server listens edge-triggered
    Chunk,      \* how many pieces one read takes: the room in conn->r
    SockRoom    \* how many pieces a socket holds in each direction

ASSUME JsonrpcAssumption ==
    /\ Caller \in Peers
    /\ MaxCalls \in Nat /\ MaxFails \in Nat
    /\ MaxCalls + MaxFails <= Len(Calls)
    /\ Edge \in BOOLEAN
    /\ Chunk \in Nat \ {0} /\ SockRoom \in Nat \ {0}

VARIABLES
    running,    \* the server's program has not exited
    listening,  \* the kernel: the listening fd has an edge to report
    procedures, \* the names in server->procedures, in order
    conn,       \* struct jrpc_connection, `open` from new_connection to
                \* close_connection
    cur_fds,    \* the batch of events that is being dispatched
    sock,       \* the kernel: both directions, what the peer has closed, an
                \* error that read is to report, and the edge
    client,     \* jrpc_client_call of Caller: r is what the buffer holds, and
                \* `read` that this call has read some of it
    fails,      \* how many reads of Caller have failed
    out,        \* pieces of a peer's messages that it has yet to send
    asked,      \* ghost: the messages of a peer
    taken,      \* ghost: those the server parsed, each with whether there
                \* was a procedure of that name
    replies,    \* ghost: what the server answered
    heard       \* ghost: the pieces a peer has received

server == <<running, listening, procedures, conn, cur_fds, taken, replies>>
served == <<server, fails>>
asking == <<client, fails, out, asked, heard>>
vars == <<server, sock, asking>>

Listener == "listener"
Request(n, kind) == [id |-> n, kind |-> kind]

\* The pieces of a text.
Line(m) == <<<<m, "head">>, <<m, "tail">>, <<m, "nl">>>>
Text(m) == IF m.kind = "bad" THEN <<<<m, "bad">>>> ELSE Line(m)
Texts(ms) == FlattenSeq([i \in 1..Len(ms) |-> Text(ms[i])])
Newline(piece) == piece[2] = "nl"
-----------------------------------------------------------------------------
(***************************************************************************)
(* json_parse_stream, on what a buffer of this protocol can hold: it skips *)
(* white space, and `rest` is what follows the value; an error is before   *)
(* the end of the buffer, or at the end if more may come.                  *)
(***************************************************************************)
Skip(buf) == SelectInSeq(buf, LAMBDA piece : ~Newline(piece)) - 1

json_parse_stream(buf) ==
    LET At(skipped) ==
            IF skipped < 0
            THEN [value |-> {}, more |-> TRUE, rest |-> buf]
            ELSE IF buf[skipped + 1][2] \in {"bad", "tail"}
            THEN [value |-> {}, more |-> FALSE, rest |-> buf]
            ELSE IF Len(buf) < skipped + 2
            THEN [value |-> {}, more |-> TRUE, rest |-> buf]
            ELSE [value |-> {buf[skipped + 1][1]}, more |-> TRUE,
                  rest |-> SubSeq(buf, skipped + 3, Len(buf))]
    IN At(Skip(buf))
-----------------------------------------------------------------------------
(***************************************************************************)
(* server->procedures is searched from its end, and the first procedure of *)
(* a name is removed.  The program registers "enable", which registers     *)
(* "once", which deregisters itself, and "failing", which sets error_code. *)
(***************************************************************************)
jrpc_register_procedure(procs, name) == Append(procs, name)

jrpc_deregister_procedure(procs, name) ==
    LET Without(i) == IF i = 0 THEN procs ELSE RemoveAt(procs, i)
    IN Without(SelectInSeq(procs, LAMBDA p : p = name))

Found(procs, name) == Contains(procs, name)

invoke_procedure(procs, name) ==
    IF ~Found(procs, name) THEN "not found"
    ELSE IF name = "failing" THEN "error" ELSE "result"

\* What the procedure `name` does to the list.
After(procs, name) ==
    IF ~Found(procs, name) THEN procs
    ELSE IF name = "enable" THEN jrpc_register_procedure(procs, "once")
    ELSE IF name = "once" THEN jrpc_deregister_procedure(procs, "once")
    ELSE procs

\* What eval_request answers; a reply without id is sent for an invalid one.
eval_request(procs, m) ==
    IF m.kind = "invalid" THEN [id |-> -1, outcome |-> "invalid"]
    ELSE [id |-> m.id, outcome |-> invoke_procedure(procs, m.kind)]

ParseError == [id |-> -1, outcome |-> "parse error"]
-----------------------------------------------------------------------------
(***************************************************************************)
(* One connection s during a callback: the jrpc_connection `co` and the    *)
(* socket `so`.  Every fd is edge-triggered: uloop_fd_add makes epoll look *)
(* at it again.                                                            *)
(***************************************************************************)
Ready(so) ==
    (IF so.up # <<>> \/ so.fin THEN {"READ"} ELSE {})
        \cup (IF Len(so.down) < SockRoom THEN {"WRITE"} ELSE {})
        \cup (IF so.fin THEN {"RDHUP"} ELSE {})
        \cup (IF so.hup THEN {"HUP"} ELSE {})

Polled(flags) ==
    IF flags = {} THEN {} ELSE flags \cup {"RDHUP", "HUP"}

uloop_fd_add(s, flags) ==
    [s EXCEPT !.co.flags = flags, !.co.eof = FALSE,
              !.so.edge = @ \/ Ready(s.so) \cap Polled(flags) # {}]

\* write(): a peer that closed without a reset lets one write succeed, which
\* the reset then answers.
Fails(so) == so.gone /\ so.hup

write(s) ==
    LET Taking(n) ==
            [s EXCEPT !.so.down = @ \o SubSeq(s.co.w, 1, n),
                      !.co.w = SubSeq(@, n + 1, Len(@))]
    IN IF Fails(s.so) THEN s
       ELSE IF s.so.gone /\ s.co.w # <<>>
       THEN [s EXCEPT !.co.w = <<>>, !.so.hup = TRUE, !.so.err = TRUE,
                      !.so.edge = TRUE]
       ELSE Taking(Min({Len(s.co.w), SockRoom - Len(s.so.down)}))

send_response(s, reply) ==
    LET Written(t) ==
            IF t.co.w = <<>> THEN t ELSE uloop_fd_add(t, {"READ", "WRITE"})
    IN [Written(write([s EXCEPT !.co.w = @ \o Line(reply)]))
            EXCEPT !.replies = Append(@, reply)]

close_connection(s) ==
    [s EXCEPT !.co.state = "closed", !.co.flags = {}, !.co.eof = FALSE,
              !.co.r = <<>>, !.co.w = <<>>, !.so.up = <<>>, !.so.edge = FALSE]

\* `out:` of connection_cb.
Out(s) == IF s.co.eof /\ s.co.w = <<>> THEN close_connection(s) ELSE s

\* mutant: what was read behind a request is discarded with it
Discarded(s, rest) == [s EXCEPT !.co.r = <<>>]

Shifted(s, rest) == [s EXCEPT !.co.r = rest]

\* One value is taken from conn->r, and the rest waits for the next event.
Received(s) ==
    LET Parsed(p) ==
            IF p.value # {}
            THEN LET m == CHOOSE v \in p.value : TRUE
                     t == [Shifted(s, p.rest) EXCEPT
                            !.taken = Append(@, <<m, Found(procedures,
                                                           m.kind)>>),
                            !.procedures = After(@, m.kind)]
                 IN IF m.kind = "array" THEN t
                    ELSE send_response(t, eval_request(procedures, m))
            ELSE IF p.more THEN Out(s)
            ELSE close_connection(send_response(s, ParseError))
    IN Parsed(json_parse_stream(s.co.r))

Rx(s) ==
    LET Taking(n) ==
            [s EXCEPT !.co.r = @ \o SubSeq(s.so.up, 1, n),
                      !.so.up = SubSeq(@, n + 1, Len(@))]
    IN IF s.so.up # <<>> THEN Received(Taking(Min({Len(s.so.up), Chunk})))
       ELSE IF s.so.err THEN Out([s EXCEPT !.so.err = FALSE])
       ELSE IF s.so.fin THEN Out([s EXCEPT !.co.eof = TRUE])
       ELSE Out(s)

connection_cb(s, events) ==
    LET Flushed(t) ==
            Rx(IF t.co.w = <<>> /\ "WRITE" \in events
               THEN uloop_fd_add(t, {"READ"})
               ELSE t)
    IN IF s.co.w # <<>> /\ Fails(s.so) THEN close_connection(s)
       ELSE Flushed(write(s))
-----------------------------------------------------------------------------
(***************************************************************************)
(* The event loop of the server.                                           *)
(***************************************************************************)
Events(c) ==
    IF sock[c].edge THEN Ready(sock[c]) \cap Polled(conn[c].flags) ELSE {}

ListenerDue ==
    /\ \E c \in Peers : conn[c].state = "backlog"
    /\ listening \/ ~Edge

Batch ==
    { [fd |-> c, events |-> Events(c)] : c \in {p \in Peers : Events(p) # {}} }
        \cup (IF ListenerDue THEN {[fd |-> Listener, events |-> {"READ"}]}
              ELSE {})

Fill == cur_fds = {} /\ Batch # {} /\ cur_fds' = Batch
Done(e) == cur_fds' = cur_fds \ {e}

\* EPOLLHUP and EPOLLERR delete the fd, whose callback still runs.
uloop_fetch_events ==
    /\ Fill
    /\ conn' = [c \in Peers |->
                    [conn[c] EXCEPT
                        !.eof = @ \/ "RDHUP" \in Events(c),
                        !.flags = IF "HUP" \in Events(c) THEN {} ELSE @]]
    /\ sock' = [c \in Peers |-> [sock[c] EXCEPT
                    !.edge = @ /\ conn[c].flags = {}]]
    /\ listening' = FALSE
    /\ UNCHANGED <<running, procedures, taken, replies, asking>>


\* get_next_connection until accept has none left.
Accepted == {c \in Peers : conn[c].state = "backlog"}

server_cb ==
    /\ \E e \in cur_fds : e.fd = Listener /\ Done(e)
    /\ LET Added(c) ==
            uloop_fd_add([co |-> [conn[c] EXCEPT !.state = "open"],
                          so |-> sock[c]], {"READ"})
       IN /\ conn' = [c \in Peers |->
                        IF c \in Accepted THEN Added(c).co ELSE conn[c]]
          /\ sock' = [c \in Peers |->
                        IF c \in Accepted THEN Added(c).so ELSE sock[c]]
    /\ UNCHANGED <<running, listening, procedures, taken, replies, asking>>

Dispatch ==
    \E e \in cur_fds : e.fd # Listener /\
        \E s \in {connection_cb([co |-> conn[e.fd], so |-> sock[e.fd],
                                 procedures |-> procedures,
                                 taken |-> <<>>, replies |-> <<>>],
                                e.events)} :
            /\ Done(e)
            /\ conn' = [conn EXCEPT ![e.fd] = s.co]
            /\ sock' = [sock EXCEPT ![e.fd] = s.so]
            /\ procedures' = s.procedures
            /\ taken' = [taken EXCEPT ![e.fd] = @ \o s.taken]
            /\ replies' = [replies EXCEPT ![e.fd] = @ \o s.replies]
            /\ UNCHANGED <<running, listening, asking>>

\* The server's program exits or is killed, and the kernel closes its fds.
ServerExit ==
    /\ running
    /\ running' = FALSE /\ listening' = FALSE /\ cur_fds' = {}
    /\ LET Closed(c) == IF conn[c].state = "none"
                        THEN [co |-> conn[c], so |-> sock[c]]
                        ELSE close_connection([co |-> conn[c], so |-> sock[c]])
       IN /\ conn' = [c \in Peers |-> Closed(c).co]
          /\ sock' = [c \in Peers |-> Closed(c).so]
    /\ UNCHANGED <<procedures, taken, replies, asking>>
-----------------------------------------------------------------------------
(***************************************************************************)
(* The peers.                                                              *)
(***************************************************************************)
Others == Peers \ {Caller}
Alone == \A c \in Others : conn[c].state = "none"

Connected(c) == conn[c].state \in {"backlog", "open"} /\ ~sock[c].gone

Connect(c) ==
    /\ running /\ conn[c].state = "none"
    /\ conn' = [conn EXCEPT ![c].state = "backlog"]
    /\ listening' = TRUE
    /\ UNCHANGED <<running, procedures, cur_fds, sock, taken, replies, fails,
                   heard>>

jrpc_client_init ==
    /\ Connect(Caller)
    /\ client' = [client EXCEPT !.pc = "idle"]
    /\ UNCHANGED <<out, asked>>

\* A peer has all its messages ready when it connects.
PeerConnect(c) ==
    /\ Connect(c) /\ fails = 0
    /\ \E script \in Scripts :
        LET ms == [i \in 1..Len(script) |-> Request(i, script[i])]
        IN /\ asked' = [asked EXCEPT ![c] = ms]
           /\ out' = [out EXCEPT ![c] = Texts(ms)]
    /\ UNCHANGED client

\* The caller's program: its calls, one after the other, and the close.
AllCalled == Len(client.results) = MaxCalls + fails

\* jrpc_client_call up to send_request.
jrpc_client_call ==
    /\ client.pc = "idle" /\ ~AllCalled
    /\ LET m == Request(client.id, Calls[Len(client.results) + 1])
       IN /\ out' = [out EXCEPT ![Caller] = Text(m)]
          /\ asked' = [asked EXCEPT ![Caller] = Append(@, m)]
    /\ client' = [client EXCEPT !.pc = "sending"]
    /\ UNCHANGED <<served, sock, heard>>

\* The last piece, or a write that failed, ends send_request, or the
\* send_error of a call that has failed.
Sent == IF client.pc = "sending"
        THEN [client EXCEPT !.pc = "reading", !.read = FALSE]
        ELSE [client EXCEPT !.pc = "idle"]

Send(c) ==
    /\ Connected(c) /\ ~sock[c].fin
    /\ out[c] # <<>> /\ Len(sock[c].up) < SockRoom
    /\ out' = [out EXCEPT ![c] = Tail(@)]
    /\ sock' = [sock EXCEPT ![c].up = Append(@, Head(out[c])),
                            ![c].edge = @ \/ "READ" \in conn[c].flags]
    /\ client' = IF c = Caller /\ Len(out[c]) = 1 THEN Sent ELSE client
    /\ UNCHANGED <<served, asked, heard>>

WriteFails ==
    /\ out[Caller] # <<>> /\ conn[Caller].state = "closed"
    /\ out' = [out EXCEPT ![Caller] = <<>>]
    /\ client' = Sent
    /\ UNCHANGED <<served, sock, asked, heard>>

ClientWrite == Send(Caller) \/ WriteFails

\* read() on the peer's side, of the n pieces that have arrived.
Arrived(c, n) == SubSeq(sock[c].down, 1, n)

Hear(c, n) ==
    /\ heard' = [heard EXCEPT ![c] = @ \o Arrived(c, n)]
    /\ sock' = [sock EXCEPT ![c].down = SubSeq(@, n + 1, Len(@)),
                            ![c].edge = @ \/ "WRITE" \in conn[c].flags]
    /\ UNCHANGED served

PeerHear(c) ==
    /\ sock[c].down # <<>> /\ ~sock[c].gone
    /\ Hear(c, Len(sock[c].down))
    /\ UNCHANGED <<client, out, asked>>

\* The call returns, with the response or without one.
Ended(got) ==
    [client EXCEPT !.pc = "idle",
                   !.results = Append(@, [id |-> client.id, got |-> got])]

\* What jrpc_client_call makes of a reply: it reads the id of one that has
\* none, and drops what it has read behind a reply.
Returns(reply, buf) ==
    IF reply.id = -1 THEN [client EXCEPT !.pc = "crashed"]
    ELSE IF reply.id # client.id THEN [Ended({}) EXCEPT !.r = buf]
    ELSE [Ended(IF reply.outcome \in {"result", "damaged"} THEN {reply} ELSE {})
            EXCEPT !.id = @ + 1, !.r = <<>>]

\* The client tells the server of a text that is not JSON; the server gets an
\* object that is no request.
ClientParseError(buf) ==
    LET m == Request(-1, "invalid")
    IN /\ client' = [Ended({}) EXCEPT !.pc = "erring", !.r = buf]
       /\ out' = [out EXCEPT ![Caller] = Text(m)]
       /\ asked' = [asked EXCEPT ![Caller] = Append(@, m)]

\* The rest of a reply that was dropped in part may still be JSON: no object,
\* or one without id.
ClientError(buf) ==
    \/ ClientParseError(buf)
    \/ /\ \E i \in DOMAIN buf : i = Skip(buf) + 1 /\ buf[i][2] = "tail"
       /\ client' \in {[Ended({}) EXCEPT !.r = buf],
                       [client EXCEPT !.pc = "crashed"]}
       /\ UNCHANGED <<out, asked>>

\* A reply that lost a byte has another value, another id, or is no JSON.
Damaged(buf) == \E i \in DOMAIN buf : buf[i][2] = "cut"

ClientTake(reply, buf) ==
    \/ /\ client' \in IF Damaged(buf)
                     THEN {Returns([reply EXCEPT !.outcome =
                                        IF @ = "result" THEN "damaged" ELSE @],
                                   buf),
                           [Ended({}) EXCEPT !.r = buf]}
                     ELSE {Returns(reply, buf)}
       /\ UNCHANGED <<out, asked>>
    \/ Damaged(buf) /\ ClientParseError(buf)

ClientParse(buf) ==
    LET p == json_parse_stream(buf)
    IN \/ /\ p.value = {} /\ p.more
          /\ client' = [client EXCEPT !.r = buf, !.read = TRUE]
          /\ UNCHANGED <<out, asked>>
       \/ p.value = {} /\ ~p.more /\ ClientError(buf)
       \/ \E reply \in p.value : ClientTake(reply, buf)

\* What this call has read.
ClientBuf == IF client.read THEN client.r ELSE <<>>

EndOfStream ==
    /\ sock[Caller].down = <<>> /\ conn[Caller].state = "closed"
    /\ client' = Ended({})
    /\ UNCHANGED <<served, sock, out, asked, heard>>

ClientRead ==
    /\ client.pc = "reading"
    /\ \/ \E n \in DOMAIN sock[Caller].down :
            Hear(Caller, n) /\ ClientParse(ClientBuf \o Arrived(Caller, n))
       \/ EndOfStream

(***************************************************************************)
(* A read that fails.  bytes_read is unsigned, so that no error is seen:   *)
(* the -1 takes a byte off what this call has read.  When it has read      *)
(* nothing, what an earlier call left in the buffer is parsed, and seems   *)
(* to end in an error unless there is a reply.  (The 0 then written before *)
(* the buffer is taken to hit a byte of malloc's that is 0 already.)       *)
(***************************************************************************)
Cut(buf) == IF Newline(Last(buf)) THEN Front(buf)
            ELSE [buf EXCEPT ![Len(buf)] = <<@[1], "cut">>]

ClientReadFails ==
    /\ client.pc = "reading" /\ fails < MaxFails /\ Alone
    /\ fails' = fails + 1
    /\ IF client.read
       THEN /\ client' = [client EXCEPT !.r = Cut(@), !.read = Cut(client.r) # <<>>]
            /\ UNCHANGED <<out, asked>>
       ELSE LET p == json_parse_stream(client.r)
            IN \/ p.value = {} /\ ClientError(client.r)
               \/ \E reply \in p.value : ClientTake(reply, client.r)
    /\ UNCHANGED <<server, sock, heard>>

\* close(): data that was not read makes it a reset, and a Unix socket
\* reports EPOLLHUP in any case.
Gone(c) ==
    /\ Connected(c)
    /\ \E hup \in IF sock[c].down # <<>> THEN {TRUE} ELSE BOOLEAN :
            sock' = [sock EXCEPT
                    ![c] = [@ EXCEPT !.fin = TRUE, !.gone = TRUE, !.hup = hup,
                                     !.err = @ \/ sock[c].down # <<>>,
                                     !.down = <<>>,
                                     !.edge = @ \/ conn[c].flags # {}]]
    /\ out' = [out EXCEPT ![c] = <<>>]
    /\ UNCHANGED <<served, asked, heard>>

PeerClose(c) == Gone(c) /\ UNCHANGED client

\* Or the program has crashed.
jrpc_client_close ==
    /\ client.pc = "crashed" \/ (client.pc = "idle" /\ AllCalled)
    /\ Gone(Caller)
    /\ client' = [client EXCEPT !.pc = "closed"]

\* shutdown(SHUT_WR).
PeerShutdown(c) ==
    /\ Connected(c) /\ ~sock[c].fin /\ out[c] = <<>>
    /\ sock' = [sock EXCEPT ![c].fin = TRUE,
                            ![c].edge = @ \/ conn[c].flags # {}]
    /\ UNCHANGED <<served, asking>>
-----------------------------------------------------------------------------
Init ==
    /\ running = TRUE /\ listening = FALSE
    /\ procedures = <<"enable", "once", "failing">>
    /\ conn = [c \in Peers |-> [state |-> "none", flags |-> {}, eof |-> FALSE,
                                r |-> <<>>, w |-> <<>>]]
    /\ cur_fds = {}
    /\ sock = [c \in Peers |-> [up |-> <<>>, down |-> <<>>, fin |-> FALSE,
                                gone |-> FALSE, hup |-> FALSE, err |-> FALSE,
                                edge |-> FALSE]]
    /\ client = [pc |-> "init", id |-> 0, r |-> <<>>, read |-> FALSE,
                 results |-> <<>>]
    /\ fails = 0
    /\ out = [c \in Peers |-> <<>>]
    /\ asked = [c \in Peers |-> <<>>]
    /\ taken = [c \in Peers |-> <<>>]
    /\ replies = [c \in Peers |-> <<>>]
    /\ heard = [c \in Peers |-> <<>>]

Next ==
    \/ uloop_fetch_events
    \/ server_cb
    \/ Dispatch
    \/ ServerExit
    \/ ClientWrite
    \/ \E c \in Others : \/ PeerConnect(c) \/ Send(c) \/ PeerHear(c)
                         \/ PeerShutdown(c) \/ PeerClose(c)
    \/ jrpc_client_init
    \/ jrpc_client_call
    \/ ClientRead
    \/ ClientReadFails
    \/ jrpc_client_close

\* uloop runs: the batch is filled when there is something to report, and its
\* callbacks are called.  The client's program goes on with a call.
Spec ==
    /\ Init /\ [][Next]_vars
    /\ WF_cur_fds(Fill) /\ WF_cur_fds(\E e \in cur_fds : Done(e))
    /\ WF_vars(ClientWrite) /\ WF_vars(ClientRead)
-----------------------------------------------------------------------------
Lines(ms) == FlattenSeq([i \in 1..Len(ms) |-> Line(ms[i])])
Values(pieces) == SelectSeq(pieces, LAMBDA piece : ~Newline(piece))

\* What a message t[1] is owed; t[2] says whether there was a procedure.
Answer(t) ==
    IF t[1].kind = "invalid" THEN [id |-> -1, outcome |-> "invalid"]
    ELSE [id |-> t[1].id,
          outcome |-> IF ~t[2] THEN "not found"
                      ELSE IF t[1].kind = "failing" THEN "error"
                      ELSE "result"]

Answers(c) ==
    LET objects == SelectSeq(taken[c], LAMBDA t : t[1].kind # "array")
    IN [i \in 1..Len(objects) |-> Answer(objects[i])]

\* What the i-th call returned is the i-th reply, if that is a result, unless a
\* read has failed; else a reply to a call with this id, or a damaged one.
ReplyOf(i) ==
    LET call == client.results[i]
        mine == {replies[Caller][n] : n \in {i} \cap DOMAIN replies[Caller]}
    IN /\ \A reply \in call.got : reply.id = call.id
       /\ IF fails = 0
          THEN /\ call.got \subseteq mine
               /\ running => \E reply \in mine :
                    call.got = {} <=> reply.outcome # "result"
          ELSE \A reply \in call.got : \/ reply.outcome = "damaged"
                                       \/ Contains(replies[Caller], reply)

(***************************************************************************)
(* Through partial reads and writes no text is lost, doubled or moved: the *)
(* messages of a peer are taken whole and in order, each request is        *)
(* answered once, in order, by what its procedure returns, and the replies *)
(* arrive in order, up to a cut when the connection is closed.             *)
(*                                                                         *)
(* A client's call that succeeds returns the result of that call, and one  *)
(* that fails had no result.  Once a read has failed, replies that nobody  *)
(* took are on their way: a call that succeeds then still returns a reply  *)
(* with its id, no two calls return the same, and only then can the client *)
(* crash (connection_cb, send_response, jrpc_client_call).                 *)
(***************************************************************************)
RepliesExact ==
    /\ \A c \in Peers :
        /\ IsPrefix(Answers(c), replies[c])
        /\ Connected(c) =>
            /\ Values(Texts(asked[c]))
                = Values(Texts([i \in 1..Len(taken[c]) |-> taken[c][i][1]]))
                    \o Values(conn[c].r \o sock[c].up \o out[c])
            /\ heard[c] \o sock[c].down \o conn[c].w = Lines(replies[c])
            /\ Len(replies[c]) = Len(Answers(c))
        /\ conn[c].state = "closed" =>
            IsPrefix(heard[c] \o sock[c].down, Lines(replies[c]))
    /\ \A i \in 1..Len(client.results) :
        /\ ReplyOf(i)
        /\ \A j \in 1..(i - 1) :
            client.results[i].got # {} /\ client.results[j].got # {} =>
                client.results[i].id > client.results[j].id
    /\ client.pc = "crashed" => fails > 0

InCall == client.pc \in {"sending", "reading", "erring"}

=============================================================================
