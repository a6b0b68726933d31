----------------------------- MODULE Transport -----------------------------
(***************************************************************************)
(* infrastructure/transport.c: frames over a TCP connection in the         *)
(* abridged encoding - a length in units of four bytes, in one byte, or    *)
(* behind a marker in three.  send and recv may take fewer bytes than they *)
(* are asked for.  EINTR and EAGAIN repeat the call and change nothing.    *)
(* One thread uses a Transport: a call is send or recv.  The sizes are     *)
(* parameters, 4, 256 and 0x7F in the code.                                *)
(***************************************************************************)
EXTENDS Integers, Sequences

CONSTANTS
    UNIT, BYTE, EXT,
    MAX_LEN,        \* the receiver's buffer, RPC_BUF_SIZE
    Outgoing,       \* payloads the client may send
    Incoming,       \* payloads the server sends, in this order
    MaxCalls        \* bound on the client's calls of transport_send

ASSUME SizesAssumption ==
    /\ UNIT \in Nat \ {0} /\ BYTE \in Nat \ {0} /\ EXT \in 1..(BYTE - 1)
    /\ MAX_LEN \in Nat
    /\ Outgoing \subseteq Seq(0..(BYTE - 1))
    /\ Incoming \in Seq(Seq(0..(BYTE - 1)))
    /\ \A i \in 1..Len(Incoming) :
         /\ Len(Incoming[i]) % UNIT = 0
         /\ Len(Incoming[i]) \div UNIT < BYTE * BYTE * BYTE

VARIABLES
    conn,       \* "none", "open", "closed" by the server or the network, or
                \* "shut" by transport_close
    t,          \* the call in progress
    up,         \* every byte the socket has taken from the client
    down,       \* bytes from the server not read yet
    served,     \* frames the server has written
    accepted,   \* payloads transport_send has returned 0 for
    got,        \* payloads transport_recv has returned
    failed,     \* some call has returned -1
    calls

tvars == <<conn, t, up, down, served, accepted, got, failed, calls>>

ABRIDGED_MARKER == BYTE     \* a value no length has

Idle == [pc |-> "idle", data |-> <<>>, len |-> 0]

TInit ==
    /\ conn = "none" /\ t = Idle
    /\ up = <<>> /\ down = <<>> /\ served = 0
    /\ accepted = <<>> /\ got = <<>> /\ failed = FALSE /\ calls = 0

\* The length prefix: one byte, or the marker and three, low byte first.
LenPrefix(n) ==
    IF n < EXT THEN <<n>>
    ELSE <<EXT, n % BYTE, (n \div BYTE) % BYTE,
           (n \div (BYTE * BYTE)) % BYTE>>

Encode(data) == LenPrefix(Len(data) \div UNIT) \o data

First(s, k) == SubSeq(s, 1, k)
Rest(s, k) == SubSeq(s, k + 1, Len(s))

-----------------------------------------------------------------------------
\* The socket is connected and the marker sent; any failure leaves it closed.
transport_connect ==
    /\ conn = "none"
    /\ conn' = "open" /\ up' = <<ABRIDGED_MARKER>>
    /\ UNCHANGED <<t, down, served, accepted, got, failed, calls>>

\* A payload that is empty or not made of whole units is refused unsent.
transport_send(data) ==
    /\ t.pc = "idle" /\ conn \in {"open", "closed"}
    /\ calls < MaxCalls /\ data # <<>> /\ Len(data) % UNIT = 0
    /\ t' = [pc |-> "prefix", data |-> data, len |-> 0]
    /\ calls' = calls + 1
    /\ UNCHANGED <<conn, up, down, served, accepted, got, failed>>

\* The prefix is one call of send: fewer bytes than asked for is a failure.
send_prefix(k) ==
    LET prefix == LenPrefix(Len(t.data) \div UNIT)
    IN /\ t.pc = "prefix" /\ k \in 1..Len(prefix)
       /\ up' = up \o First(prefix, k)
       /\ t' = IF k = Len(prefix) THEN [t EXCEPT !.pc = "payload"] ELSE Idle
       /\ failed' = (failed \/ k < Len(prefix))
       /\ UNCHANGED <<conn, down, served, accepted, got, calls>>

\* Mutant: one call of send, whose count is not looked at.
MutantSendOnce(k) ==
    /\ t.pc = "payload" /\ k \in 1..(Len(t.data) - t.len)
    /\ up' = up \o First(Rest(t.data, t.len), k)
    /\ t' = Idle /\ accepted' = Append(accepted, t.data)
    /\ UNCHANGED <<conn, down, served, got, failed, calls>>

\* The payload goes out in as many calls as it takes.
send_payload(k) ==
    /\ t.pc = "payload" /\ k \in 1..(Len(t.data) - t.len)
    /\ up' = up \o First(Rest(t.data, t.len), k)
    /\ IF t.len + k = Len(t.data)
       THEN t' = Idle /\ accepted' = Append(accepted, t.data)
       ELSE t' = [t EXCEPT !.len = @ + k] /\ UNCHANGED accepted
    /\ UNCHANGED <<conn, down, served, got, failed, calls>>

-----------------------------------------------------------------------------
transport_recv ==
    /\ t.pc = "idle" /\ conn \in {"open", "closed"}
    /\ Len(got) < Len(Incoming)
    /\ t' = [Idle EXCEPT !.pc = "first"]
    /\ UNCHANGED <<conn, up, down, served, accepted, got, failed, calls>>

\* What follows once the length is known: nothing, a refusal, or the payload.
LengthRead(units) ==
    LET n == units * UNIT
    IN IF n = 0
       THEN t' = Idle /\ got' = Append(got, <<>>) /\ UNCHANGED failed
       ELSE IF n > MAX_LEN
       THEN t' = Idle /\ failed' = TRUE /\ UNCHANGED got
       ELSE /\ t' = [pc |-> "body", data |-> <<>>, len |-> n]
            /\ UNCHANGED <<got, failed>>

recv_first ==
    /\ t.pc = "first" /\ down # <<>>
    /\ down' = Tail(down)
    /\ IF Head(down) < EXT THEN LengthRead(Head(down))
       ELSE t' = [t EXCEPT !.pc = "extra"] /\ UNCHANGED <<got, failed>>
    /\ UNCHANGED <<conn, up, served, accepted, calls>>

\* The three bytes are one call of recv: fewer is a failure.
recv_extra(k) ==
    /\ t.pc = "extra" /\ k \in 1..3 /\ k <= Len(down)
    /\ down' = Rest(down, k)
    /\ IF k = 3
       THEN LengthRead(down[1] + down[2] * BYTE + down[3] * BYTE * BYTE)
       ELSE t' = Idle /\ failed' = TRUE /\ UNCHANGED got
    /\ UNCHANGED <<conn, up, served, accepted, calls>>

\* Mutant: the frame is taken for complete after the first recv.
MutantRecvOnce(k) ==
    /\ t.pc = "body" /\ k \in 1..Len(down) /\ k <= t.len
    /\ down' = Rest(down, k)
    /\ t' = Idle /\ got' = Append(got, First(down, k))
    /\ UNCHANGED <<conn, up, served, accepted, failed, calls>>

recv_body(k) ==
    LET data == t.data \o First(down, k)
    IN /\ t.pc = "body" /\ k \in 1..Len(down) /\ k <= t.len - Len(t.data)
       /\ down' = Rest(down, k)
       /\ IF Len(data) = t.len
          THEN t' = Idle /\ got' = Append(got, data)
          ELSE t' = [t EXCEPT !.data = data] /\ UNCHANGED got
       /\ UNCHANGED <<conn, up, served, accepted, failed, calls>>

\* send fails, as it may once the other end has closed, or recv finds the end
\* of the stream.
CallFails ==
    /\ conn = "closed"
    /\ \/ t.pc \in {"prefix", "payload"}
       \/ t.pc \in {"first", "extra", "body"} /\ down = <<>>
    /\ t' = Idle /\ failed' = TRUE
    /\ UNCHANGED <<conn, up, down, served, accepted, got, calls>>

transport_close ==
    /\ t.pc = "idle" /\ conn \in {"open", "closed"}
    /\ conn' = "shut"
    /\ UNCHANGED <<t, up, down, served, accepted, got, failed, calls>>

-----------------------------------------------------------------------------
\* The server writes its next frame.
Serve ==
    /\ conn = "open" /\ served < Len(Incoming)
    /\ served' = served + 1
    /\ down' = down \o Encode(Incoming[served + 1])
    /\ UNCHANGED <<conn, t, up, accepted, got, failed, calls>>

\* The connection ends; what the server wrote before can still be read.
Hangup ==
    /\ conn = "open" /\ conn' = "closed"
    /\ UNCHANGED <<t, up, down, served, accepted, got, failed, calls>>

Work ==
    \/ \E k \in 1..(4 + MAX_LEN) : \/ send_prefix(k) \/ send_payload(k)
                                   \/ recv_extra(k) \/ recv_body(k)
    \/ recv_first \/ CallFails

TNext ==
    \/ transport_connect \/ Work \/ transport_recv
    \/ transport_close
    \/ \E data \in Outgoing : transport_send(data)
    \/ Serve \/ Hangup

TSpec == TInit /\ [][TNext]_tvars

-----------------------------------------------------------------------------
\* The stream that begins with the marker and carries these payloads.
StreamOf(payloads) ==
    LET stream[n \in 0..Len(payloads)] ==
          IF n = 0 THEN <<ABRIDGED_MARKER>>
          ELSE stream[n - 1] \o Encode(payloads[n])
    IN stream[Len(payloads)]

\* What the call in progress has added to it.
Unfinished ==
    IF t.pc = "payload"
    THEN LenPrefix(Len(t.data) \div UNIT) \o First(t.data, t.len) ELSE <<>>

(***************************************************************************)
(* As long as no call has failed, what the socket was given to write is    *)
(* the marker, the frames transport_send returned 0 for, and the beginning *)
(* of the frame being sent: a reader of the stream stays in step with it   *)
(* however send splits it.                                                 *)
(***************************************************************************)
StreamInStep ==
    (conn # "none" /\ ~failed) => up = StreamOf(accepted) \o Unfinished

(***************************************************************************)
(* transport_recv implements FrameChannel: a frame is returned whole, once *)
(* and in order, however recv splits it, for as long as no call has        *)
(* failed.                                                                 *)
(***************************************************************************)
Frames == INSTANCE FrameChannel WITH
    sent <- First(Incoming, served), received <- got, broken <- failed

ImplementsChannel == Frames!CSpec
=============================================================================
