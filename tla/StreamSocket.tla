---------------------------- MODULE StreamSocket ----------------------------
(***************************************************************************)
(* One BufferedSocket (src/streamsocket.cpp) on a socket engine            *)
(* (src/socketengine.cpp and src/socketengines/): its send queue, its      *)
(* event mask, trial reads and writes, and the end of the socket.          *)
(*                                                                         *)
(* The kernel's side of the socket goes on while the server works: between *)
(* any two of the server's system calls the peer may take bytes, send      *)
(* bytes, finish or reset the connection.  The server runs one handler at  *)
(* a time; todo holds what is left of the current one.                     *)
(*                                                                         *)
(* External: the kernel.  A writev takes what fits the socket's buffer; a  *)
(* short one, or one that fails with EAGAIN, makes the kernel report the   *)
(* next room.  An edge-triggered descriptor is reported once for each      *)
(* change.  I/O hooks (TLS, WebSocket) are left out.                       *)
(***************************************************************************)
EXTENDS Integers, Sequences, SequencesExt

CONSTANTS
    Engine,         \* subset of {"epoll", "poll", "kqueue"}; select is like poll
    BufferSizes,    \* sizes of the strings given to WriteData
    Loads,          \* bounds of a behaviour: bytes written by the server and by the peer
    SocketBuffer,   \* size of the kernel's send buffer
    MaxIov,         \* MYIOV_MAX
    NetBufferSize   \* ServerInstance->Config->NetBufferSize

ASSUME SocketAssumption ==
    /\ Engine \subseteq {"epoll", "poll", "kqueue"}
    /\ BufferSizes \subseteq Nat \ {0}
    /\ Loads \subseteq [bytes : Nat, inbound : Nat]
    /\ SocketBuffer \in Nat \ {0} /\ MaxIov \in Nat \ {0} /\ NetBufferSize \in Nat \ {0}

VARIABLES
    engine, load,
    conn,           \* BufferedSocket::state: "CONNECTING", "CONNECTED", "ERROR"
    open,           \* HasFd()
    mask,           \* event_mask
    trial,          \* the fd is in SocketEngine::trials
    sendq,          \* the strings of the send queue, each a sequence of bytes
    total,          \* bytes given to WriteData so far
    closing,        \* "no", or the call of Close(): "called", or "drained" from DoWrite
    closeonempty, error,
    told,           \* how often OnError was called
    todo,           \* what is left of the handler that runs
    change,         \* eventChange of FlushSendQ, "EDGE" outside of it
    room, nospace,  \* kernel: free send buffer; a report of room is owed
    edge,           \* kernel: the descriptor is on the ready list (epoll),
                    \*   or the one-shot write filter is set (kqueue)
    inq, eof, reset,\* kernel: unread bytes, the peer finished, connection reset
    arrived,           \* bytes the peer sent
    wire,           \* bytes the kernel took
    silent, missed  \* history: see ToldOnce and EofNoticed

serverVars == <<conn, open, mask, trial, sendq, total, closing, closeonempty, error, told,
                todo, change>>

kernelVars == <<room, nospace, edge, inq, eof, reset, arrived, wire>>

socketVars == <<engine, load, serverVars, kernelVars, silent, missed>>

-----------------------------------------------------------------------------
(* The event mask.  read and write are the FD_WANT bits of each group.     *)
Mask == [read : {"NO", "FAST"}, write : {"NO", "EDGE", "FAST", "SINGLE", "none"},
         rblock : BOOLEAN, wblock : BOOLEAN, rtrial : BOOLEAN, wtrial : BOOLEAN]

Readable == inq > 0 \/ eof

Writable == room > 0

WantsRead(m) == m.read = "FAST"

WantsWrite(m) == m.write \in {"FAST", "SINGLE"}

(* mask_to_epoll *)
Registered(m) ==
    IF m.write = "SINGLE" THEN [et |-> FALSE, in |-> WantsRead(m), out |-> TRUE]
    ELSE [et |-> TRUE, in |-> WantsRead(m), out |-> m.write \in {"FAST", "EDGE"}]

(* SocketEngine::OnSetEvent: the kernel looks at a descriptor again when its *)
(* epoll registration is modified; kqueue adds a one-shot write filter.      *)
EdgeAfter(old, new) ==
    CASE engine = "epoll" ->
            \/ edge
            \/ /\ Registered(old) # Registered(new)
               /\ \/ Registered(new).in /\ Readable
                  \/ Registered(new).out /\ Writable
      [] engine = "kqueue" -> edge \/ (WantsWrite(new) /\ ~WantsWrite(old))
      [] OTHER -> edge

(* SocketEngine::ChangeEventMask *)
ChangeEventMask(new) ==
    /\ mask' = new
    /\ trial' = (trial \/ ((new.rtrial \/ new.wtrial) /\ ~(mask.rtrial \/ mask.wtrial)))
    /\ edge' = EdgeAfter(mask, new)

MaskKept == UNCHANGED <<mask, trial, edge>>

Ignored == [mask EXCEPT !.read = "NO", !.write = "NO"]

SocketInit ==
    /\ engine \in Engine /\ load \in Loads
    /\ conn \in {"CONNECTING", "CONNECTED"}
    /\ open = TRUE
    /\ mask = [read |-> IF conn = "CONNECTED" THEN "FAST" ELSE "NO",
               write |-> IF conn = "CONNECTED" THEN "EDGE" ELSE "SINGLE",
               rblock |-> FALSE, wblock |-> conn = "CONNECTING",
               rtrial |-> FALSE, wtrial |-> FALSE]
    /\ trial = FALSE
    /\ sendq = <<>> /\ total = 0
    /\ closing = "no" /\ closeonempty = FALSE /\ error = FALSE /\ told = 0
    /\ todo = <<>> /\ change = "EDGE"
    /\ room = IF conn = "CONNECTED" THEN SocketBuffer ELSE 0
    /\ nospace = (conn = "CONNECTING")
    /\ edge = (IF engine = "kqueue" THEN conn = "CONNECTING" ELSE conn = "CONNECTED")
    /\ inq = 0 /\ eof = FALSE /\ reset = FALSE /\ arrived = 0 /\ wire = <<>>
    /\ silent = FALSE /\ missed = FALSE

-----------------------------------------------------------------------------
(* What the server does *)

Quiet == todo = <<>>

Runs(call) == todo # <<>> /\ Head(todo) = call

(* The rest of Close(): a last FlushSendQ where DoWrite gets that far, then *)
(* the descriptor goes.                                                     *)
CloseSteps(failed) ==
    (IF sendq # <<>> /\ ~failed /\ ~mask.wblock THEN <<"flush">> ELSE <<>>) \o <<"shut">>

(* CheckError after an error: OnError() is called, which closes the socket at  *)
(* once (a server link, the one user of connections to elsewhere) or leaves    *)
(* that to the cull list (a client).                                           *)
Report(atonce) ==
    /\ conn = "CONNECTING" => atonce
    /\ told' = told + 1
    /\ closing' = IF atonce THEN "called" ELSE closing
    /\ todo' = IF atonce THEN <<"shut">> ELSE <<>>

(* StreamSocket::WriteData, by a handler or by any other code of the server *)
WriteData(k) ==
    /\ open /\ (Quiet \/ Runs("write"))
    /\ total + k <= load.bytes
    /\ sendq' = Append(sendq, [n \in 1..k |-> total + n])
    /\ total' = total + k
    /\ ChangeEventMask([mask EXCEPT !.wtrial = TRUE])
    /\ UNCHANGED <<engine, load, conn, open, closing, closeonempty, error, told, todo, change,
                   room, nospace, inq, eof, reset, arrived, wire, silent, missed>>

(* SocketEngine::DispatchTrialWrites *)
DispatchTrialWrites ==
    /\ open /\ Quiet /\ trial
    /\ trial' = FALSE
    /\ mask' = [mask EXCEPT !.rtrial = FALSE, !.wtrial = FALSE]
    /\ todo' = (IF mask.rtrial /\ ~mask.rblock THEN <<"read">> ELSE <<>>)
               \o (IF mask.wtrial /\ ~mask.wblock THEN <<"write">> ELSE <<>>)
    /\ UNCHANGED <<engine, load, conn, open, sendq, total, closing, closeonempty, error, told, change,
                   kernelVars, silent, missed>>

(* The handlers an engine calls for the events in and out *)
Handlers(in, out) ==
    /\ todo' = (IF in THEN <<"read">> ELSE <<>>) \o (IF out THEN <<"write">> ELSE <<>>)
    /\ UNCHANGED <<engine, load, conn, open, trial, sendq, total, closing, closeonempty, error, told,
                   change, room, nospace, inq, eof, reset, arrived, wire, silent, missed>>

(* The event mask when those handlers run *)
Unblocked(in, out, oneshot) ==
    [mask EXCEPT !.rblock = @ /\ ~in,
                 !.wblock = @ /\ ~out,
                 !.write = IF out /\ @ \in oneshot THEN "none" ELSE @]

(* DispatchEvents of poll.cpp and of select.cpp *)
PollEvents ==
    LET in == WantsRead(mask) /\ Readable
        out == WantsWrite(mask) /\ Writable
    IN  /\ engine = "poll" /\ open /\ Quiet /\ ~reset
        /\ in \/ out
        /\ mask' = Unblocked(in, out, {"SINGLE"})
        /\ edge' = edge
        /\ Handlers(in, out)

(* DispatchEvents of epoll.cpp *)
EpollEvents ==
    LET reg == Registered(mask)
        in == reg.in /\ Readable
        out == reg.out /\ Writable
    IN  /\ engine = "epoll" /\ open /\ Quiet /\ ~reset
        /\ IF reg.et THEN edge ELSE in \/ out
        /\ mask' = Unblocked(in, out, {"SINGLE"})
        /\ edge' = FALSE
        /\ Handlers(in, out)

(* DispatchEvents of kqueue.cpp: one event for each filter *)
KqueueRead ==
    /\ engine = "kqueue" /\ open /\ Quiet /\ ~reset
    /\ Readable /\ ~eof
    /\ mask' = Unblocked(TRUE, FALSE, {})
    /\ edge' = edge
    /\ Handlers(TRUE, FALSE)

KqueueWrite ==
    /\ engine = "kqueue" /\ open /\ Quiet /\ ~reset
    /\ edge /\ Writable /\ ~eof
    /\ mask' = Unblocked(FALSE, TRUE, {"SINGLE", "FAST"})
    /\ edge' = FALSE
    /\ Handlers(FALSE, TRUE)

OnEventHandlerErrorMutant(atonce) ==
    /\ open /\ Quiet
    /\ \/ reset /\ (engine = "epoll" => edge)
       \/ eof /\ engine = "kqueue"
    /\ error' = TRUE
    /\ Report(atonce)
    /\ UNCHANGED <<engine, load, conn, open, mask, trial, sendq, total, closeonempty, change,
                   kernelVars, silent, missed>>

(* StreamSocket::OnEventHandlerError, for a hang-up or error of the descriptor *)
OnEventHandlerError(atonce) ==
    /\ open /\ Quiet /\ ~error
    /\ \/ reset /\ (engine = "epoll" => edge)
       \/ eof /\ engine = "kqueue"
    /\ error' = TRUE
    /\ Report(atonce)
    /\ UNCHANGED <<engine, load, conn, open, mask, trial, sendq, total, closeonempty, change,
                   kernelVars, silent, missed>>

(* A handler of a socket that has an error returns at once. *)
DeadHandler ==
    /\ error /\ (Runs("read") \/ Runs("write"))
    /\ todo' = Tail(todo)
    /\ UNCHANGED <<engine, load, conn, open, mask, trial, sendq, total, closing, closeonempty, error,
                   told, change, kernelVars, silent, missed>>

(* The mask after a read of n bytes *)
ReadMask(n) == [mask EXCEPT !.read = "FAST", !.rtrial = @ \/ n = NetBufferSize]

(* OnEventHandlerRead, DoRead and ReadToRecvQ when the socket has data.  The *)
(* code that gets the data may find fault with it and set an error.          *)
ReadData(fault, atonce) ==
    LET n == IF inq < NetBufferSize THEN inq ELSE NetBufferSize
    IN  /\ Runs("read") /\ ~error /\ ~reset /\ inq > 0
        /\ inq' = inq - n
        /\ ChangeEventMask(ReadMask(n))
        /\ missed' = (missed \/ (engine = "epoll" /\ eof /\ ~edge /\ n < NetBufferSize))
        /\ error' = fault
        /\ IF fault THEN Report(atonce)
                    ELSE todo' = Tail(todo) /\ UNCHANGED <<told, closing>>
        /\ UNCHANGED <<engine, load, conn, open, sendq, total, closeonempty, change,
                       room, nospace, eof, reset, arrived, wire, silent>>

ReadWouldBlock ==
    /\ Runs("read") /\ ~error /\ ~reset /\ inq = 0 /\ ~eof
    /\ ChangeEventMask([mask EXCEPT !.read = "FAST", !.rblock = TRUE])
    /\ todo' = Tail(todo)
    /\ UNCHANGED <<engine, load, conn, open, sendq, total, closing, closeonempty, error, told, change,
                   room, nospace, inq, eof, reset, arrived, wire, silent, missed>>

(* A recv() that fails, or that returns 0 *)
RecvFails == reset \/ (eof /\ inq = 0)

ReadFails(atonce) ==
    /\ Runs("read") /\ ~error
    /\ RecvFails
    /\ error' = TRUE
    /\ ChangeEventMask(Ignored)
    /\ Report(atonce)
    /\ UNCHANGED <<engine, load, conn, open, sendq, total, closeonempty, change,
                   room, nospace, inq, eof, reset, arrived, wire, silent, missed>>

(* BufferedSocket::OnEventHandlerWrite for a connection that is made; *)
(* OnConnected may set an error.                                      *)
OnConnected(fault) ==
    /\ Runs("write") /\ ~error /\ conn = "CONNECTING"
    /\ conn' = "CONNECTED"
    /\ error' = fault
    /\ silent' = fault
    /\ ChangeEventMask([mask EXCEPT !.read = "FAST", !.write = "EDGE"])
    /\ UNCHANGED <<engine, load, open, sendq, total, closing, closeonempty, told, todo, change,
                   room, nospace, inq, eof, reset, arrived, wire, missed>>

(* StreamSocket::OnEventHandlerWrite and DoWrite *)
DoWrite ==
    /\ Runs("write") /\ ~error /\ conn # "CONNECTING"
    /\ IF sendq = <<>> /\ closeonempty
       THEN closing' = "drained" /\ todo' = <<"shut">>
       ELSE /\ todo' = IF sendq = <<>> \/ mask.wblock THEN <<>> ELSE <<"flush">>
            /\ closing' = closing
    /\ UNCHANGED <<engine, load, conn, open, mask, trial, sendq, total, closeonempty, error, told, change,
                   kernelVars, silent, missed>>

-----------------------------------------------------------------------------
(* FlushSendQ *)

Bytes(q) == FlattenSeq(q)

EraseFrontMutant(q, n) == IF n = 0 THEN q ELSE Tail(q)

(* The send queue without its first n bytes: pop_front and erase_front *)
RECURSIVE EraseFront(_, _)
EraseFront(q, n) ==
    IF n = 0 \/ q = <<>> THEN q
    ELSE IF Len(Head(q)) <= n THEN EraseFront(Tail(q), n - Len(Head(q)))
    ELSE <<SubSeq(Head(q), n + 1, Len(Head(q)))>> \o Tail(q)

(* The strings of one writev *)
Batch == SubSeq(sendq, 1, IF Len(sendq) < MaxIov THEN Len(sendq) ELSE MaxIov)

ChangeAfterMutant(rv, rvmax) == IF rv < Len(Bytes(sendq)) THEN "FAST" ELSE "EDGE"

(* A write that took rv of rvmax bytes *)
ChangeAfter(rv, rvmax) == IF rv < rvmax THEN "FAST" ELSE "EDGE"

Flushing == Runs("flush") /\ change = "EDGE" /\ sendq # <<>> /\ ~error

WriteV ==
    LET out == Bytes(Batch)
        rv == IF room < Len(out) THEN room ELSE Len(out)
    IN  /\ Flushing /\ ~reset
        /\ change' = ChangeAfter(rv, Len(out))
        /\ nospace' = (nospace \/ rv < Len(out))
        /\ wire' = wire \o SubSeq(out, 1, rv)
        /\ room' = room - rv
        /\ sendq' = EraseFront(sendq, rv)
        /\ UNCHANGED <<engine, load, conn, open, mask, trial, total, closing, closeonempty, error, told,
                       todo, edge, inq, eof, reset, arrived, silent, missed>>

WriteVFails ==
    /\ Flushing /\ reset
    /\ error' = TRUE
    /\ UNCHANGED <<engine, load, conn, open, mask, trial, sendq, total, closing, closeonempty, told,
                   todo, change, kernelVars, silent, missed>>

(* The end of FlushSendQ, and of DoWrite and OnEventHandlerWrite around it *)
FlushEnds(atonce) ==
    /\ Runs("flush") /\ ~Flushing
    /\ IF error THEN ChangeEventMask(Ignored)
       ELSE ChangeEventMask([mask EXCEPT !.write = change, !.wblock = @ \/ change = "FAST"])
    /\ IF closing # "no"
       THEN todo' = Tail(todo) /\ UNCHANGED <<told, closing>>
       ELSE IF error THEN Report(atonce)
       ELSE /\ told' = told
            /\ closing' = IF sendq = <<>> /\ closeonempty THEN "drained" ELSE "no"
            /\ todo' = IF sendq = <<>> /\ closeonempty THEN <<"shut">> ELSE <<>>
    /\ change' = "EDGE"
    /\ UNCHANGED <<engine, load, conn, open, sendq, total, closeonempty, error,
                   room, nospace, inq, eof, reset, arrived, wire, silent, missed>>

-----------------------------------------------------------------------------
(* The end of the socket *)

(* StreamSocket::Close, from the cull list or from the code that owns the socket *)
Close ==
    /\ open /\ Quiet /\ closing = "no"
    /\ closing' = "called"
    /\ todo' = CloseSteps(error)
    /\ UNCHANGED <<engine, load, conn, open, mask, trial, sendq, total, closeonempty, error, told, change,
                   kernelVars, silent, missed>>

(* Close(true) with data to write *)
CloseWhenEmpty ==
    /\ open /\ Quiet /\ sendq # <<>> /\ ~closeonempty
    /\ closeonempty' = TRUE
    /\ UNCHANGED <<engine, load, conn, open, mask, trial, sendq, total, closing, error, told, todo,
                   change, kernelVars, silent, missed>>

(* The kernel forgets the socket, and nobody looks at its mask again. *)
Shut ==
    /\ Runs("shut")
    /\ open' = FALSE
    /\ todo' = <<>>
    /\ mask' = [Ignored EXCEPT !.rblock = FALSE, !.wblock = FALSE, !.rtrial = FALSE, !.wtrial = FALSE]
    /\ room' = 0 /\ inq' = 0 /\ arrived' = 0
    /\ trial' = FALSE /\ nospace' = FALSE /\ edge' = FALSE /\ eof' = FALSE /\ reset' = FALSE
    /\ UNCHANGED <<engine, load, conn, sendq, total, closing, closeonempty, error, told, change, wire,
                   silent, missed>>

(* SocketTimeout::Tick: OnError, which closes an outgoing socket, then the cull *)
SocketTimeoutTick ==
    /\ open /\ Quiet /\ conn = "CONNECTING"
    /\ conn' = "ERROR"
    /\ told' = told + 1
    /\ closing' = "called"
    /\ todo' = CloseSteps(error)
    /\ UNCHANGED <<engine, load, open, mask, trial, sendq, total, closeonempty, error, change,
                   kernelVars, silent, missed>>

-----------------------------------------------------------------------------
(* The kernel and the peer *)

(* A change of the descriptor puts it on epoll's ready list if it asked for it *)
Wake(asked) == edge' = (edge \/ (engine = "epoll" /\ asked))

Established ==
    /\ open /\ conn = "CONNECTING" /\ room = 0 /\ ~reset
    /\ room' = SocketBuffer
    /\ nospace' = FALSE
    /\ Wake(TRUE)
    /\ UNCHANGED <<engine, load, serverVars, inq, eof, reset, arrived, wire, silent, missed>>

(* The peer takes a byte *)
PeerTakes ==
    /\ open /\ conn = "CONNECTED" /\ ~reset /\ room < SocketBuffer
    /\ room' = room + 1
    /\ nospace' = FALSE
    /\ Wake(nospace /\ Registered(mask).out)
    /\ UNCHANGED <<engine, load, serverVars, inq, eof, reset, arrived, wire, silent, missed>>

PeerSends ==
    /\ open /\ conn = "CONNECTED" /\ ~reset /\ ~eof /\ arrived < load.inbound
    /\ arrived' = arrived + 1
    /\ inq' = inq + 1
    /\ Wake(Registered(mask).in)
    /\ UNCHANGED <<engine, load, serverVars, room, nospace, eof, reset, wire, silent, missed>>

PeerFinishes ==
    /\ open /\ conn = "CONNECTED" /\ ~reset /\ ~eof
    /\ eof' = TRUE
    /\ Wake(Registered(mask).in)
    /\ UNCHANGED <<engine, load, serverVars, room, nospace, inq, reset, arrived, wire, silent, missed>>

PeerResets ==
    /\ open /\ ~reset
    /\ reset' = TRUE
    /\ Wake(TRUE)
    /\ UNCHANGED <<engine, load, serverVars, room, nospace, inq, eof, arrived, wire, silent, missed>>

-----------------------------------------------------------------------------
HandlerStep ==
    \/ DeadHandler
    \/ \E fault, atonce \in BOOLEAN : ReadData(fault, atonce)
    \/ ReadWouldBlock
    \/ \E atonce \in BOOLEAN : ReadFails(atonce)
    \/ \E fault \in BOOLEAN : OnConnected(fault)
    \/ DoWrite
    \/ WriteV
    \/ WriteVFails
    \/ \E atonce \in BOOLEAN : FlushEnds(atonce)
    \/ Shut

EngineStep ==
    \/ PollEvents
    \/ EpollEvents
    \/ KqueueRead
    \/ KqueueWrite
    \/ \E atonce \in BOOLEAN : OnEventHandlerError(atonce)

SocketNext ==
    \/ \E k \in BufferSizes : WriteData(k)
    \/ DispatchTrialWrites
    \/ EngineStep
    \/ HandlerStep
    \/ Close
    \/ CloseWhenEmpty
    \/ SocketTimeoutTick
    \/ Established
    \/ PeerTakes
    \/ PeerSends
    \/ PeerFinishes
    \/ PeerResets

(* The main loop dispatches trials and events for ever, a connection attempt *)
(* times out, a socket with an error is closed by its owner, and (the one    *)
(* assumption about the other side) the peer goes on taking bytes.           *)
SocketFairness ==
    /\ WF_socketVars(HandlerStep)
    /\ WF_socketVars(DispatchTrialWrites)
    /\ SF_socketVars(EngineStep)
    /\ WF_socketVars(SocketTimeoutTick)
    /\ SF_socketVars(error /\ Close)
    /\ WF_socketVars(PeerTakes)

SocketSpec == SocketInit /\ [][SocketNext]_socketVars /\ SocketFairness

-----------------------------------------------------------------------------
SocketTypeOK ==
    /\ engine \in Engine /\ load \in Loads
    /\ conn \in {"CONNECTING", "CONNECTED", "ERROR"}
    /\ mask \in Mask
    /\ closing \in {"no", "called", "drained"}
    /\ change \in {"EDGE", "FAST"}
    /\ \A n \in DOMAIN sendq : sendq[n] # <<>>
    /\ \A n \in DOMAIN todo : todo[n] \in {"read", "write", "flush", "shut"}
    /\ {open, trial, closeonempty, error, nospace, edge, eof, reset, silent, missed} \subseteq BOOLEAN
    /\ total \in 0..load.bytes /\ told \in Nat /\ room \in 0..SocketBuffer
    /\ inq \in 0..load.inbound /\ arrived \in 0..load.inbound

MaxBytes == CHOOSE n \in {l.bytes : l \in Loads} : \A l \in Loads : l.bytes <= n

Stream == INSTANCE ByteStream WITH
    accepted <- total,
    delivered <- wire,
    ends <- IF open THEN "open" ELSE IF closing = "drained" THEN "finished" ELSE "cut"

(* WriteData, FlushSendQ and Close implement a byte stream: every byte is     *)
(* written once and in order through partial writes, capped writevs, errors   *)
(* and the last write of Close, and Close(true) closes only an empty queue.   *)
StreamKept == Stream!StreamSafe

(* Nothing waits in the send queue for ever: after a blocked or partial write *)
(* the engine calls again, and what was written while connecting follows.     *)
StreamAdvances == Stream!StreamLive

(* DispatchTrialWrites finds a socket through the trial list only, and        *)
(* ChangeEventMask adds it there only when the mask had no trial bit: the bits *)
(* and the list must agree, or a trial would never come.                      *)
TrialsListed == open => (trial <=> (mask.rtrial \/ mask.wtrial))

(* An error is reported to OnError once, whichever of the handlers met it.    *)
(* An error that OnConnected sets is not: OnEventHandlerWrite returns before  *)
(* CheckError, and the socket stays until its owner gives up on it.           *)
ToldOnce == error /\ Quiet /\ open => told = IF silent THEN 0 ELSE 1

(* What the engine and the socket know of each other is consistent: trials *)
(* are found, and an error is told once.                                   *)
SocketConsistent == SocketTypeOK /\ TrialsListed /\ ToldOnce

(* What the peer sends is read, in trial reads and on later events. *)
InboundRead == inq > 0 ~> (inq = 0 \/ ~open)

(* The server notices that the peer finished.  With edge-triggered epoll it   *)
(* may not when the end was already there at a read that took less than the   *)
(* buffer: no event follows, and only a write or a ping timeout will tell.    *)
EofNoticed == eof ~> (~open \/ missed)
=============================================================================
