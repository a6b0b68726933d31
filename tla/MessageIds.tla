----------------------------- MODULE MessageIds -----------------------------
(***************************************************************************)
(* core/mtproto_session.c: message ids and sequence numbers of the         *)
(* sessions of one process, and the two ways a message gets them           *)
(* (rpc_send_unencrypted, rpc_send_encrypted).  An id is the second in the *)
(* high half and random multiples of four in the low half, of TICK values, *)
(* 2^32 in the code.                                                       *)
(***************************************************************************)
EXTENDS Integers, Sequences, FiniteSets

CONSTANTS
    TICK,           \* ids in a second
    MaxClock,       \* bound: the clock
    MaxSessions,    \* bound: sessions of the process
    MaxMessages     \* bound: messages sent

ASSUME TickAssumption == TICK \in Nat \ {0} /\ TICK % 4 = 0

VARIABLES
    clock,      \* time(NULL)
    sess,       \* the MtProtoSession
    wire        \* the messages sent, in order

ivars == <<clock, sess, wire>>

IInit ==
    /\ clock \in 0..MaxClock
    /\ sess = [session_id |-> 1, seq_no |-> 0, last_msg_id |-> 0]
    /\ wire = <<>>

\* The clock moves, or is set, forward or back.
Tick ==
    /\ \E now \in 0..MaxClock : now # clock /\ clock' = now
    /\ UNCHANGED <<sess, wire>>

\* A new session: mtproto_session_init, or the same key under a new id.
mtproto_session_renew_id ==
    /\ sess' = [session_id |-> sess.session_id + 1, seq_no |-> 0,
                last_msg_id |-> 0]
    /\ sess.session_id < MaxSessions /\ UNCHANGED <<clock, wire>>

\* Mutant: only an equal id is moved on.
MutantMsgId(low) ==
    LET id == clock * TICK + low
        up == IF id = sess.last_msg_id THEN sess.last_msg_id + 4 ELSE id
    IN up - (up % 4)

mtproto_session_next_msg_id(low) ==
    LET id == clock * TICK + low
        up == IF id <= sess.last_msg_id THEN sess.last_msg_id + 4 ELSE id
    IN up - (up % 4)

mtproto_session_next_seq_no(content) ==
    sess.seq_no * 2 + (IF content THEN 1 ELSE 0)

Low == {n \in 0..(TICK - 1) : n % 4 = 0}

\* The message is numbered before transport_send, which may fail: a number
\* is spent either way.
rpc_send_encrypted(low, content) ==
    LET id == mtproto_session_next_msg_id(low)
        msg == [session |-> sess.session_id, id |-> id, content |-> content,
                seq |-> mtproto_session_next_seq_no(content)]
    IN /\ Len(wire) < MaxMessages
       /\ wire' = Append(wire, msg)
       /\ sess' = [sess EXCEPT !.last_msg_id = id,
                               !.seq_no = IF content THEN @ + 1 ELSE @]
       /\ UNCHANGED clock

\* An unencrypted message has an id and no sequence number.
rpc_send_unencrypted(low) ==
    LET id == mtproto_session_next_msg_id(low)
    IN /\ Len(wire) < MaxMessages
       /\ wire' = Append(wire, [session |-> sess.session_id, id |-> id,
                                content |-> FALSE, seq |-> -1])
       /\ sess' = [sess EXCEPT !.last_msg_id = id]
       /\ UNCHANGED clock

INext ==
    \/ Tick \/ mtproto_session_renew_id
    \/ \E low \in Low :
         \/ rpc_send_unencrypted(low)
         \/ \E c \in BOOLEAN : rpc_send_encrypted(low, c)

ISpec == IInit /\ [][INext]_ivars

-----------------------------------------------------------------------------
(***************************************************************************)
(* Within a session the ids on the wire are multiples of four and strictly *)
(* increase, encrypted or not, whatever the clock does.                    *)
(***************************************************************************)
IdsIncrease ==
    \A i \in 1..Len(wire) :
        /\ wire[i].id > 0 /\ wire[i].id % 4 = 0
        /\ \A j \in 1..(i - 1) :
             wire[j].session = wire[i].session => wire[j].id < wire[i].id

(***************************************************************************)
(* The sequence number of an encrypted message is the one the server       *)
(* computes: twice the content-related messages of the session before it,  *)
(* plus one if it is content-related itself.                               *)
(***************************************************************************)
SeqNoCounts ==
    \A i \in 1..Len(wire) : wire[i].seq # -1 =>
        LET before == {j \in 1..(i - 1) :
                         wire[j].session = wire[i].session /\ wire[j].content}
        IN wire[i].seq = 2 * Cardinality(before)
                           + (IF wire[i].content THEN 1 ELSE 0)

(***************************************************************************)
(* The server accepts the header of every message: the id that rpc_send_*  *)
(* takes from mtproto_session_next_msg_id and the sequence number it takes *)
(* from mtproto_session_next_seq_no are the ones it expects.               *)
(***************************************************************************)
HeadersAccepted == IdsIncrease /\ SeqNoCounts
=============================================================================
