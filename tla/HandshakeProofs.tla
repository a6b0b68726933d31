--------------------------- MODULE HandshakeProofs ---------------------------
(***************************************************************************)
(* Proofs about the MTProto session: the numbers in the headers of its     *)
(* messages (MessageIds), and the agreement on its key (Handshake), for    *)
(* any number to factor, any group and any answers: the factors of pq, the *)
(* keys of both sides, and the number of steps an exchange can take.       *)
(***************************************************************************)
EXTENDS MessageIds, Handshake, FiniteSetTheorems, WellFoundedInduction, TLAPS

(* Message ids and sequence numbers. *)

\* A message as the server sees it.
Msg == [session : Nat, id : Nat, content : BOOLEAN, seq : Int]

\* The content-related messages of a session before place n.
Before(w, s, n) == {j \in 1..(n - 1) : w[j].session = s /\ w[j].content}

\* The types of the session.
IType ==
  /\ clock \in Nat
  /\ sess \in [session_id : Nat, seq_no : Nat, last_msg_id : Nat]
  /\ wire \in Seq(Msg)

\* Every message of the session in use has an id up to last_msg_id, and
\* seq_no counts the content-related ones.
IdsInv ==
  /\ IType
  /\ sess.last_msg_id % 4 = 0
  /\ \A i \in 1..Len(wire) :
       /\ wire[i].session <= sess.session_id
       /\ wire[i].session = sess.session_id => wire[i].id <= sess.last_msg_id
  /\ sess.seq_no = Cardinality(Before(wire, sess.session_id, Len(wire) + 1))
  /\ HeadersAccepted

\* They can be counted.
LEMMA BeforeFinite ==
  ASSUME NEW w, NEW s, NEW n \in Nat
  PROVE  IsFiniteSet(Before(w, s, n)) /\ Cardinality(Before(w, s, n)) \in Nat
<1>1. IsFiniteSet(1..(n - 1))
  BY FS_Interval
<1>2. Before(w, s, n) \subseteq 1..(n - 1)
  BY DEF Before
<1> QED BY <1>1, <1>2, FS_Subset, FS_CardinalityType

\* mtproto_session_next_msg_id returns a larger multiple of four.
LEMMA NextId ==
  ASSUME IType, sess.last_msg_id % 4 = 0, NEW low \in Low
  PROVE  LET id == mtproto_session_next_msg_id(low) IN
         id \in Nat /\ id % 4 = 0 /\ id > sess.last_msg_id
<1> DEFINE last == sess.last_msg_id
           n == clock * TICK + low
           up == IF n <= last THEN last + 4 ELSE n
<1>0. last \in Nat /\ clock \in Nat /\ TICK \in Nat /\ low \in Nat /\ low % 4 = 0
  BY TickAssumption DEF IType, Low
<1>1. n \in Nat /\ n % 4 = 0
  <2>1. PICK k \in Nat : TICK = 4 * k
    <3>1. \A x \in Nat : x % 4 = 0 => \E k \in Nat : x = 4 * k
      <4> SUFFICES ASSUME NEW x \in Nat, x % 4 = 0 PROVE \E k \in Nat : x = 4 * k
        OBVIOUS
      <4>1. x \div 4 \in Nat /\ x = 4 * (x \div 4)
        OBVIOUS
      <4> QED BY <4>1
    <3> QED BY <3>1, TickAssumption
  <2>2. clock * k \in Nat /\ clock * TICK = 4 * (clock * k)
    BY <1>0, <2>1
  <2>3. \A a, b \in Nat : b % 4 = 0 => 4 * a + b \in Nat /\ (4 * a + b) % 4 = 0
    OBVIOUS
  <2>4. n = 4 * (clock * k) + low
    BY <2>2
  <2> HIDE DEF n
  <2> QED BY <1>0, <2>2, <2>3, <2>4
<1>2. up \in Nat /\ up % 4 = 0 /\ up > last
  <2> HIDE DEF n
  <2> QED BY <1>0, <1>1
<1>3. mtproto_session_next_msg_id(low) = up - (up % 4)
  BY DEF mtproto_session_next_msg_id
<1> HIDE DEF up
<1> QED BY <1>2, <1>3

\* The first state has the invariant.
LEMMA InitIds == IInit => IdsInv
<1> SUFFICES ASSUME IInit PROVE IdsInv
  OBVIOUS
<1>1. IType
  BY DEF IInit, IType
<1>2. Before(wire, sess.session_id, Len(wire) + 1) = {}
  BY DEF IInit, Before
<1>3. wire = <<>> /\ sess.seq_no = 0 /\ sess.last_msg_id = 0
  BY DEF IInit
<1>4. 1..Len(wire) = {} /\ sess.last_msg_id % 4 = 0
  BY <1>3
<1>5. HeadersAccepted
  BY <1>4, Zenon DEF HeadersAccepted, IdsIncrease, SeqNoCounts
<1>6. sess.seq_no = Cardinality(Before(wire, sess.session_id, Len(wire) + 1))
  BY <1>2, <1>3, FS_EmptySet, Zenon
<1> QED BY <1>1, <1>4, <1>5, <1>6, Zenon DEF IdsInv

\* A message with the next id and the right number may follow.
LEMMA Sent ==
  ASSUME IdsInv, NEW id \in Nat, id % 4 = 0, id > sess.last_msg_id,
         NEW content \in BOOLEAN, NEW seq \in Int,
         seq # -1 => seq = 2 * sess.seq_no + (IF content THEN 1 ELSE 0),
         wire' = Append(wire, [session |-> sess.session_id, id |-> id,
                               content |-> content, seq |-> seq]),
         sess' = [sess EXCEPT !.last_msg_id = id,
                              !.seq_no = IF content THEN @ + 1 ELSE @],
         UNCHANGED clock
  PROVE  IdsInv'
<1> DEFINE msg == [session |-> sess.session_id, id |-> id,
                   content |-> content, seq |-> seq]
           n == Len(wire)
<1>0. /\ IType /\ msg \in Msg /\ n \in Nat /\ wire \in Seq(Msg)
      /\ sess.session_id \in Nat /\ sess.seq_no \in Nat /\ sess.last_msg_id \in Nat
  BY DEF IdsInv, IType, Msg
<1>1. IType'
  <2>1. sess' \in [session_id : Nat, seq_no : Nat, last_msg_id : Nat]
    <3>1. CASE content
      <4>1. sess' = [sess EXCEPT !.last_msg_id = id, !.seq_no = @ + 1]
        BY <3>1, Zenon
      <4>2. sess.seq_no + 1 \in Nat
        BY <1>0
      <4>3. sess \in [session_id : Nat, seq_no : Nat, last_msg_id : Nat]
        BY <1>0 DEF IType
      <4> QED BY <4>1, <4>2, <4>3, Zenon
    <3>2. CASE ~content
      BY <1>0, <3>2, Zenon DEF IType
    <3> QED BY <3>1, <3>2
  <2>2. wire' \in Seq(Msg) /\ clock' \in Nat
    BY <1>0 DEF IType
  <2> QED BY <2>1, <2>2 DEF IType
<1>s. \A i \in 1..(n + 1) : i \in 1..n \/ i = n + 1
  BY <1>0
<1>2. /\ Len(wire') = n + 1 /\ wire'[n + 1] = msg
      /\ \A i \in 1..n : wire'[i] = wire[i] /\ wire[i] \in Msg
  BY <1>0
<1>3. /\ sess'.session_id = sess.session_id /\ sess'.last_msg_id = id
      /\ sess'.seq_no = IF content THEN sess.seq_no + 1 ELSE sess.seq_no
  BY DEF IdsInv, IType
<1>4. \A i \in 1..(n + 1) :
        /\ wire'[i].session <= sess'.session_id
        /\ wire'[i].session = sess'.session_id => wire'[i].id <= sess'.last_msg_id
  <2> HIDE DEF n
  <2>1. msg.session = sess.session_id /\ msg.id = id
    OBVIOUS
  <2> HIDE DEF msg
  <2>2. \A i \in 1..n :
        /\ wire[i].session <= sess.session_id
        /\ wire[i].session = sess.session_id => wire[i].id <= sess.last_msg_id
    BY DEF IdsInv, n
  <2>3. \A i \in 1..n : wire[i].id \in Nat
    BY <1>2 DEF Msg
  <2> QED BY <1>0, <1>2, <1>3, <2>1, <2>2, <2>3
<1>5. \A s : \A i \in 1..(n + 1) : Before(wire', s, i) = Before(wire, s, i)
  BY <1>0, <1>2 DEF Before
<1>6. sess'.seq_no = Cardinality(Before(wire', sess'.session_id, n + 2))
  <2> DEFINE B == Before(wire, sess.session_id, n + 1)
             C == Before(wire', sess.session_id, n + 2)
  <2>1. sess.seq_no = Cardinality(B)
    BY DEF IdsInv
  <2>0. \A j \in 1..(n + 1) : j \in 1..n \/ j = n + 1
    BY <1>0
  <2>00. (n + 1) - 1 = n /\ (n + 2) - 1 = n + 1
    BY <1>0
  <2>2. CASE content
    <3>1. C = B \cup {n + 1}
      <4>1. \A j \in 1..(n + 1) : (wire'[j].session = sess.session_id /\ wire'[j].content)
               <=> (j \in B \/ j = n + 1)
        <5> HIDE DEF n
        <5> QED BY <1>0, <1>2, <2>0, <2>00, <2>2 DEF Before
      <4>2. B \subseteq 1..(n + 1) /\ n + 1 \in 1..(n + 1)
        BY <1>0 DEF Before
      <4> HIDE DEF B, n
      <4> QED BY <4>1, <4>2, <2>00, Zenon DEF Before
    <3>2. n + 1 \notin B
      BY <1>0 DEF Before
    <3>3. IsFiniteSet(B)
      BY <1>0, BeforeFinite
    <3> HIDE DEF B, C, n
    <3>4. Cardinality(C) = Cardinality(B) + 1
      BY <3>1, <3>2, <3>3, FS_AddElement, Zenon
    <3> QED BY <1>3, <2>1, <2>2, <3>4 DEF C
  <2>3. CASE ~content
    <3>1. C = B
      <4>1. \A j \in 1..(n + 1) : (wire'[j].session = sess.session_id /\ wire'[j].content)
               <=> j \in B
        <5> HIDE DEF n
        <5> QED BY <1>0, <1>2, <2>0, <2>00, <2>3 DEF Before
      <4>2. B \subseteq 1..(n + 1)
        BY <1>0 DEF Before
      <4> HIDE DEF B, n
      <4> QED BY <4>1, <4>2, <2>00, Zenon DEF Before
    <3> QED BY <1>3, <2>1, <2>3, <3>1
  <2> QED BY <2>2, <2>3
<1>7. IdsIncrease'
  <2> SUFFICES ASSUME NEW i \in 1..(n + 1)
               PROVE  /\ wire'[i].id > 0 /\ wire'[i].id % 4 = 0
                      /\ \A j \in 1..(i - 1) :
                           wire'[j].session = wire'[i].session => wire'[j].id < wire'[i].id
    BY <1>2 DEF IdsIncrease
  <2>1. CASE i \in 1..n
    <3>1. \A j \in 1..(i - 1) : j \in 1..n
      BY <1>0
    <3> QED BY <1>2, <2>1, <3>1 DEF IdsInv, HeadersAccepted, IdsIncrease
  <2>2. CASE i = n + 1
    <3>1. wire'[i].session = sess.session_id /\ wire'[i].id = id
      BY <1>2, <2>2
    <3>2. \A j \in 1..n : wire[j].id \in Nat /\
             (wire[j].session = sess.session_id => wire[j].id <= sess.last_msg_id)
      BY <1>2 DEF IdsInv, Msg
    <3>3. \A j \in 1..(i - 1) : j \in 1..n
      BY <1>0, <2>2
    <3> QED BY <1>0, <1>2, <3>1, <3>2, <3>3, SMTT(20)
  <2> QED BY <1>s, <2>1, <2>2, Zenon
<1>8. SeqNoCounts'
  <2> SUFFICES ASSUME NEW i \in 1..(n + 1), wire'[i].seq # -1
               PROVE  wire'[i].seq = 2 * Cardinality(Before(wire', wire'[i].session, i))
                           + (IF wire'[i].content THEN 1 ELSE 0)
    BY <1>2, Zenon DEF SeqNoCounts, Before
  <2>1. CASE i \in 1..n
    BY <1>2, <1>5, <2>1, SMTT(20) DEF IdsInv, HeadersAccepted, SeqNoCounts, Before
  <2>2. CASE i = n + 1
    BY <1>2, <1>5, <2>2 DEF IdsInv
  <2> QED BY <1>s, <2>1, <2>2, Zenon
<1> QED BY <1>1, <1>2, <1>3, <1>4, <1>6, <1>7, <1>8 DEF IdsInv, HeadersAccepted

\* Every step keeps it.
LEMMA NextIds == IdsInv /\ [INext]_ivars => IdsInv'
<1> SUFFICES ASSUME IdsInv, [INext]_ivars PROVE IdsInv'
  OBVIOUS
<1>0. IType /\ sess.last_msg_id % 4 = 0
  BY DEF IdsInv
<1>1. CASE UNCHANGED ivars
  BY <1>1 DEF IdsInv, IType, HeadersAccepted, IdsIncrease, SeqNoCounts, ivars
<1>2. CASE Tick
  BY <1>2 DEF Tick, IdsInv, IType, HeadersAccepted, IdsIncrease, SeqNoCounts
<1>3. CASE mtproto_session_renew_id
  <2>1. /\ sess'.session_id = sess.session_id + 1 /\ sess'.seq_no = 0
        /\ sess'.last_msg_id = 0 /\ UNCHANGED <<clock, wire>> /\ IType'
    BY <1>0, <1>3 DEF mtproto_session_renew_id, IType
  <2>2. \A i \in 1..Len(wire) : wire[i].session \in Nat /\ wire[i].session <= sess.session_id
    <3>1. \A i \in 1..Len(wire) : wire[i] \in Msg
      BY <1>0 DEF IType
    <3> QED BY <3>1 DEF IdsInv, Msg
  <2>3. Before(wire, sess.session_id + 1, Len(wire) + 1) = {}
    BY <1>0, <2>2 DEF Before, IType
  <2>4. \A i \in 1..Len(wire) : wire[i].session <= sess.session_id + 1 /\ wire[i].session # sess.session_id + 1
    BY <1>0, <2>2 DEF IType
  <2>5. Cardinality(Before(wire, sess.session_id + 1, Len(wire) + 1)) = 0
    BY <2>3, FS_EmptySet, SMTT(20)
  <2>6. HeadersAccepted'
    BY <2>1 DEF IdsInv, HeadersAccepted, IdsIncrease, SeqNoCounts
  <2> QED BY <2>1, <2>4, <2>5, <2>6 DEF IdsInv
<1>4. ASSUME NEW low \in Low, rpc_send_unencrypted(low) PROVE IdsInv'
  <2> DEFINE id == mtproto_session_next_msg_id(low)
  <2>1. id \in Nat /\ id % 4 = 0 /\ id > sess.last_msg_id
    BY <1>0, NextId
  <2> HIDE DEF id
  <2>2. wire' = Append(wire, [session |-> sess.session_id, id |-> id,
                               content |-> FALSE, seq |-> -1])
    BY <1>4 DEF rpc_send_unencrypted, id
  <2>3. sess' = [sess EXCEPT !.last_msg_id = id,
                             !.seq_no = IF FALSE THEN @ + 1 ELSE @]
    BY <1>0, <1>4, Zenon DEF rpc_send_unencrypted, id, IType
  <2>4. UNCHANGED clock
    BY <1>4 DEF rpc_send_unencrypted
  <2>5. -1 \in Int
    OBVIOUS
  <2> QED BY <2>1, <2>2, <2>3, <2>4, <2>5, Sent, Zenon
<1>5. ASSUME NEW low \in Low, NEW c \in BOOLEAN, rpc_send_encrypted(low, c)
      PROVE  IdsInv'
  <2> DEFINE id == mtproto_session_next_msg_id(low)
             seq == mtproto_session_next_seq_no(c)
  <2>1. id \in Nat /\ id % 4 = 0 /\ id > sess.last_msg_id
    BY <1>0, NextId
  <2>5. seq \in Int /\ seq = 2 * sess.seq_no + (IF c THEN 1 ELSE 0)
    BY <1>0 DEF mtproto_session_next_seq_no, IType
  <2> HIDE DEF id, seq
  <2>2. wire' = Append(wire, [session |-> sess.session_id, id |-> id,
                               content |-> c, seq |-> seq])
    BY <1>5 DEF rpc_send_encrypted, id, seq
  <2>3. sess' = [sess EXCEPT !.last_msg_id = id,
                             !.seq_no = IF c THEN @ + 1 ELSE @]
    BY <1>5 DEF rpc_send_encrypted, id
  <2>4. UNCHANGED clock
    BY <1>5 DEF rpc_send_encrypted
  <2> QED BY <2>1, <2>2, <2>3, <2>4, <2>5, Sent, Zenon
<1> QED BY <1>1, <1>2, <1>3, <1>4, <1>5 DEF INext

(***************************************************************************)
(* Whatever the clock does and however many sessions there are, the server *)
(* accepts every header: ids grow within a session and are multiples of    *)
(* four, and the sequence numbers count the content-related messages.      *)
(***************************************************************************)
THEOREM IdsFollow == ISpec => []HeadersAccepted
<1>1. IdsInv => HeadersAccepted
  BY DEF IdsInv
<1> QED BY InitIds, NextIds, <1>1, PTL DEF ISpec

-----------------------------------------------------------------------------
(* The key. *)

\* Until the exchange is done the session has no key; an answer dh_gen_ok
\* under way carries the hash of what the server has kept.
HandInv ==
  /\ DOMAIN hs = DOMAIN NoCtx /\ DOMAIN server = DOMAIN NoServer
  /\ hs.pc = "done" => net = Empty
  /\ net.type = "dh_gen_ok" => net.hash = <<server.new_nonce, 1, server.key>>
  /\ KeyAgreed

\* The fields the steps change.
LEMMA Fields ==
  /\ {"pc", "server_nonce"} \subseteq DOMAIN NoCtx /\ NoCtx.pc = "idle"
  /\ {"new_nonce", "key"} \subseteq DOMAIN NoServer
  /\ Empty.type = "none"
BY DEF NoCtx, NoServer, Empty

\* The first state has the invariant.
LEMMA InitHand == HInit => HandInv
BY Fields DEF HInit, HandInv, KeyAgreed

\* A step that installs no key keeps the invariant if it does not move a
\* finished exchange.
LEMMA NoKeyYet ==
  ASSUME HandInv, hs.pc # "done", UNCHANGED session
  PROVE  session = NoKey /\ KeyAgreed'
BY DEF HandInv, KeyAgreed

\* A failed exchange keeps it.
LEMMA FailHand == ASSUME HandInv, hs.pc # "done", Fail PROVE HandInv'
<1>1. KeyAgreed'
  BY NoKeyYet DEF Fail
<1> QED BY <1>1, Fields DEF Fail, HandInv

\* The steps of the client keep it.
LEMMA ClientHand ==
  ASSUME HandInv, auth_step_req_pq \/ Client \/ ConnectionLost PROVE HandInv'
<1>0. /\ DOMAIN hs = DOMAIN NoCtx /\ DOMAIN server = DOMAIN NoServer
      /\ net.type = "dh_gen_ok" => net.hash = <<server.new_nonce, 1, server.key>>
  BY DEF HandInv
<1>1. hs.pc # "done"
  BY Zenon DEF auth_step_req_pq, Client, resPQ, factor_even, rho_step, auth_step_req_dh,
         auth_step_parse_dh, auth_step_set_client_dh, dh_gen, ConnectionLost
<1>2. ASSUME UNCHANGED <<server, session>>, DOMAIN hs' = DOMAIN hs,
             hs'.pc # "done", net' = net \/ net'.type # "dh_gen_ok"
      PROVE  HandInv'
  <2>1. KeyAgreed'
    BY <1>1, <1>2, NoKeyYet
  <2> QED BY <1>0, <1>2, <2>1 DEF HandInv
<1>f. ASSUME NEW p, NEW q, Factored(p, q) PROVE HandInv'
  <2>1. DOMAIN hs' = DOMAIN hs /\ hs'.pc = "req_dh" /\ UNCHANGED <<server, net, session>>
    BY <1>0, <1>f, Fields DEF Factored
  <2> QED BY <1>2, <2>1
<1>3. CASE auth_step_req_pq
  <2>1. DOMAIN hs' = DOMAIN NoCtx /\ hs'.pc = "resPQ" /\ net'.type = "req_pq_multi"
    BY <1>3, Fields DEF auth_step_req_pq
  <2>2. UNCHANGED <<server, session>>
    BY <1>3 DEF auth_step_req_pq
  <2> QED BY <1>0, <1>2, <2>1, <2>2
<1>4. CASE resPQ
  <2>1. CASE GoodResPQ
    <3>1. DOMAIN hs' = DOMAIN hs /\ hs'.pc = "factor" /\ net' = Empty
          /\ UNCHANGED <<server, session>>
      BY <1>0, <1>4, <2>1, Fields, Zenon DEF resPQ
    <3> QED BY <1>2, <3>1, Fields
  <2> QED BY <1>1, <1>4, <2>1, FailHand DEF resPQ
<1>5. CASE factor_even
  <2>1. CASE hs' = [hs EXCEPT !.c = 1, !.x = 2, !.y = 2]
             /\ UNCHANGED <<server, net, session>>
    <3>1. DOMAIN hs' = DOMAIN hs /\ hs'.pc = hs.pc
      BY <1>0, <2>1, Fields
    <3> QED BY <1>1, <1>2, <2>1, <3>1
  <2> QED BY <1>1, <1>5, <1>f, <2>1, FailHand DEF factor_even
<1>6. CASE rho_step
  <2>1. ASSUME NEW x, NEW y, NEW n, NEW c,
               \/ hs' = [hs EXCEPT !.x = x, !.y = y, !.steps = n]
               \/ hs' = [hs EXCEPT !.c = c, !.steps = n, !.x = x, !.y = y],
               UNCHANGED <<server, net, session>>
        PROVE  HandInv'
    <3>1. DOMAIN hs' = DOMAIN hs /\ hs'.pc = hs.pc
      BY <1>0, <2>1, Fields, Zenon
    <3> QED BY <1>1, <1>2, <2>1, <3>1
  <2>2. \/ \E p, q : Factored(p, q)
        \/ Fail
        \/ /\ UNCHANGED <<server, net, session>>
           /\ \E x, y, n, c : \/ hs' = [hs EXCEPT !.x = x, !.y = y, !.steps = n]
                              \/ hs' = [hs EXCEPT !.c = c, !.steps = n, !.x = x, !.y = y]
    <3> DEFINE f(w) == (w * w + hs.c) % hs.pq
               u == f(hs.x)
               v == f(f(hs.y))
               d == IF u = v THEN 1 ELSE Gcd[hs.pq][Abs(u - v)]
               small == d < UINT32 /\ hs.pq \div d < UINT32
    <3> HIDE DEF u, v, d, small
    <3>1. (CASE d # 1 /\ d # hs.pq /\ small -> Factored(d, hs.pq \div d)
            [] d # 1 /\ d # hs.pq /\ ~small -> Fail
            [] d = 1 /\ u # v /\ hs.steps + 1 < RHO_STEPS ->
                 /\ hs' = [hs EXCEPT !.x = u, !.y = v, !.steps = @ + 1]
                 /\ UNCHANGED <<server, net, session, exchanges>>
            [] OTHER ->
                 IF NextC <= Attempts
                 THEN /\ hs' = [hs EXCEPT !.c = NextC, !.steps = 0, !.x = 2, !.y = 2]
                      /\ UNCHANGED <<server, net, session, exchanges>>
                 ELSE Fail)
      BY <1>6, Zenon DEF rho_step, u, v, d, small
    <3>2. \/ Factored(d, hs.pq \div d)
          \/ Fail
          \/ /\ hs' = [hs EXCEPT !.x = u, !.y = v, !.steps = @ + 1]
             /\ UNCHANGED <<server, net, session>>
          \/ /\ hs' = [hs EXCEPT !.c = NextC, !.steps = 0, !.x = 2, !.y = 2]
             /\ UNCHANGED <<server, net, session>>
      BY <3>1, Zenon
    <3> QED BY <3>2, Zenon
  <2> QED BY <1>1, <1>f, <2>1, <2>2, FailHand, Zenon
<1>7. CASE auth_step_req_dh
  <2>1. /\ DOMAIN hs' = DOMAIN hs /\ hs'.pc = "parse_dh" /\ UNCHANGED <<server, session>>
        /\ net'.type = "req_DH_params"
    BY <1>0, <1>7, Fields DEF auth_step_req_dh
  <2> QED BY <1>2, <2>1
<1>8. CASE auth_step_parse_dh
  <2>1. CASE net.type = "server_DH_params_ok" /\ GoodDH
    <3>1. DOMAIN hs' = DOMAIN hs /\ hs'.pc = "set_dh" /\ net' = Empty
          /\ UNCHANGED <<server, session>>
      BY <1>0, <1>8, <2>1, Fields, Zenon DEF auth_step_parse_dh
    <3> QED BY <1>2, <3>1, Fields
  <2> QED BY <1>1, <1>8, <2>1, FailHand DEF auth_step_parse_dh
<1>9. CASE auth_step_set_client_dh
  <2>1. /\ DOMAIN hs' = DOMAIN hs /\ hs'.pc = "dh_gen" /\ UNCHANGED <<server, session>>
        /\ net'.type = "set_client_DH_params"
    <3>1. PICK b \in Exponents :
            /\ hs' = [hs EXCEPT !.pc = "dh_gen", !.b = b]
            /\ net' = [type |-> "set_client_DH_params", nonce |-> hs.nonce,
                       server_nonce |-> hs.server_nonce,
                       under |-> dh_derive_temp_aes(hs.new_nonce, hs.server_nonce),
                       g_b |-> PowMod[b][hs.g]]
            /\ UNCHANGED <<server, session>>
      BY <1>9, Zenon DEF auth_step_set_client_dh
    <3>2. net'.type = "set_client_DH_params"
      BY <3>1, Zenon
    <3> QED BY <1>0, <3>1, <3>2, Fields, Zenon
  <2> QED BY <1>2, <2>1
<1>10. CASE dh_gen
  <2> DEFINE key == PowMod[hs.b][hs.g_a]
  <2> HIDE DEF key
  <2>1. CASE GoodGen(key)
    <3>1. /\ session' = [key |-> key, salt |-> <<hs.new_nonce, hs.server_nonce>>]
          /\ hs' = [hs EXCEPT !.pc = "done"] /\ net' = Empty /\ UNCHANGED server
      BY <1>10, <2>1, Zenon DEF dh_gen, HasKey, key
    <3>2. DOMAIN hs' = DOMAIN hs /\ hs'.pc = "done" /\ hs'.server_nonce = hs.server_nonce
      BY <1>0, <3>1, Fields
    <3>3. <<hs.new_nonce, 1, key>> = <<server.new_nonce, 1, server.key>>
      BY <1>0, <2>1 DEF GoodGen
    <3>4. KeyAgreed'
      BY <3>1, <3>2, <3>3 DEF KeyAgreed
    <3> QED BY <1>0, <3>1, <3>2, <3>4, Fields DEF HandInv
  <2> QED BY <1>1, <1>10, <2>1, FailHand, Zenon DEF dh_gen, key
<1>11. CASE ConnectionLost
  BY <1>1, <1>11, FailHand DEF ConnectionLost
<1> QED BY <1>3, <1>4, <1>5, <1>6, <1>7, <1>8, <1>9, <1>10, <1>11 DEF Client

\* The steps of the server keep it.
LEMMA ServerHand == ASSUME HandInv, Server PROVE HandInv'
<1>0. /\ DOMAIN hs = DOMAIN NoCtx /\ DOMAIN server = DOMAIN NoServer
  BY DEF HandInv
<1>1. hs.pc # "done" /\ UNCHANGED <<hs, session>>
  BY Fields, Zenon DEF HandInv, Server, ServeResPQ, ServeDH, ServeGen
<1>2. KeyAgreed'
  BY <1>1, NoKeyYet
<1>3. CASE ServeResPQ \/ ServeDH
  <2>1. DOMAIN server' = DOMAIN NoServer
    BY <1>0, <1>3, Zenon DEF ServeResPQ, ServeDH
  <2>2. net'.type \in {"resPQ", "server_DH_params_fail", "server_DH_params_ok"}
    <3>1. CASE ServeResPQ
      BY <3>1 DEF ServeResPQ
    <3>2. CASE ServeDH
      <4>1. \A n, sn, inner, g, ga :
              DHParams(n, sn, inner, g, ga).type
                \in {"server_DH_params_fail", "server_DH_params_ok"}
        BY DEF DHParams
      <4>2. \E n, sn, inner, g, ga : net' = DHParams(n, sn, inner, g, ga)
        BY <3>2, Zenon DEF ServeDH
      <4> QED BY <4>1, <4>2, Zenon
    <3> QED BY <1>3, <3>1, <3>2
  <2> QED BY <1>0, <1>1, <1>2, <2>1, <2>2 DEF HandInv
<1>4. CASE ServeGen
  <2> DEFINE key == PowMod[server.a][net.g_b]
  <2> HIDE DEF key
  <2>1. PICK type \in {"dh_gen_ok", "dh_gen_retry", "dh_gen_fail"}, n \in {hs.nonce, Other} :
          /\ net' = [type |-> type, nonce |-> n,
                     hash |-> <<server.new_nonce, IF type = "dh_gen_ok" THEN 1 ELSE 2, key>>]
          /\ server' = [server EXCEPT !.key = IF type = "dh_gen_ok" THEN key ELSE 0]
    BY <1>4, Zenon DEF ServeGen, key
  <2>2. DOMAIN server' = DOMAIN server /\ server'.new_nonce = server.new_nonce
    BY <1>0, <2>1, Fields
  <2>3. CASE type = "dh_gen_ok"
    <3>1. server'.key = key /\ net'.hash = <<server.new_nonce, 1, key>>
      BY <1>0, <2>1, <2>3, Fields
    <3> QED BY <1>0, <1>1, <1>2, <2>2, <3>1 DEF HandInv
  <2>4. CASE type # "dh_gen_ok"
    <3>1. net'.type # "dh_gen_ok"
      BY <2>1, <2>4
    <3> QED BY <1>0, <1>1, <1>2, <2>2, <3>1 DEF HandInv
  <2> QED BY <2>3, <2>4
<1> QED BY <1>3, <1>4 DEF Server

(***************************************************************************)
(* A session that has a key after mtproto_auth_key_gen shares the key, and *)
(* the salt, with the server, whatever the server answered on the way.     *)
(***************************************************************************)
THEOREM KeysAgree == HSpec => []KeyAgreed
<1>1. HandInv /\ [HNext]_hvars => HandInv'
  <2> SUFFICES ASSUME HandInv, [HNext]_hvars PROVE HandInv'
    OBVIOUS
  <2>1. CASE UNCHANGED hvars
    BY <2>1 DEF hvars, HandInv, KeyAgreed
  <2> QED BY <2>1, ClientHand, ServerHand DEF HNext
<1>2. HandInv => KeyAgreed
  BY DEF HandInv
<1> QED BY InitHand, <1>1, <1>2, PTL DEF HSpec


\* A non-empty set of natural numbers has a least element.
LEMMA Least ==
  ASSUME NEW S, S \subseteq Nat, S # {}
  PROVE  \E i \in S : \A j \in S : i <= j
<1> DEFINE R == OpToRel(<, Nat)
<1>1. IsWellFoundedOn(R, Nat)
  BY NatLessThanWellFounded, Zenon
<1>2. \E m \in S : \A y \in S : ~(<<y, m>> \in R)
  <2> HIDE DEF R
  <2> QED BY <1>1, WFMin, Zenon
<1>3. \A m, y \in Nat : y < m => <<y, m>> \in R
  BY DEF OpToRel
<1>4. PICK m \in S : \A y \in S : ~(<<y, m>> \in R)
  BY <1>2, Zenon
<1>5. \A y \in S : ~(y < m)
  <2> HIDE DEF R
  <2> QED BY <1>3, <1>4, Zenon
<1>6. \A y \in S : m <= y
  BY <1>5, SMT
<1> QED BY <1>6

Divides(d, n) == \E k \in Nat : n = d * k
Common(a, b) == {d \in Nat : Divides(d, a) /\ Divides(d, b)}

\* The one of S that all of S divide, if there is one.
Greatest(S) == CHOOSE m \in S : \A d \in S : Divides(d, m)

\* Division with remainder.
LEMMA Remainder ==
  ASSUME NEW a \in Nat, NEW b \in Nat, b # 0
  PROVE  a % b \in Nat /\ a % b < b /\ a \div b \in Nat /\ a = b * (a \div b) + (a % b)
OBVIOUS

\* A step of Euclid's loop keeps the common divisors.
LEMMA SameDivisors ==
  ASSUME NEW a \in Nat, NEW b \in Nat, b # 0
  PROVE  Common(a, b) = Common(b, a % b)
<1> DEFINE q == a \div b
           r == a % b
<1>0. q \in Nat /\ r \in Nat /\ a = b * q + r
  BY Remainder
<1> HIDE DEF q, r
<1>1. ASSUME NEW d \in Nat, Divides(d, b), Divides(d, r)
      PROVE  Divides(d, a)
  <2>1. PICK k \in Nat : b = d * k
    BY <1>1 DEF Divides
  <2>2. PICK l \in Nat : r = d * l
    BY <1>1 DEF Divides
  <2>3. k * q + l \in Nat /\ d * (k * q + l) = (d * k) * q + d * l
    BY <1>0
  <2> QED BY <1>0, <2>1, <2>2, <2>3 DEF Divides
<1>2. ASSUME NEW d \in Nat, Divides(d, b), Divides(d, a)
      PROVE  Divides(d, r)
  <2>1. PICK k \in Nat : b = d * k
    BY <1>2 DEF Divides
  <2>2. PICK l \in Nat : a = d * l
    BY <1>2 DEF Divides
  <2>3. d > 0
    BY <2>1
  <2>4. k * q \in Int /\ d * (l - k * q) = d * l - (d * k) * q
    BY <1>0
  <2>5. r = d * (l - k * q)
    BY <1>0, <2>1, <2>2, <2>4
  <2>6. l - k * q \in Nat
    <3> DEFINE z == l - k * q
    <3>1. z \in Int
      BY <2>4
    <3>2. \A w \in Int : d * w >= 0 => w >= 0
      BY <2>3
    <3> QED BY <1>0, <2>5, <3>1, <3>2
  <2> QED BY <2>5, <2>6 DEF Divides
<1> QED BY <1>1, <1>2 DEF Common, r

\* Two numbers that divide each other are the same.
LEMMA DividesAnti ==
  ASSUME NEW a \in Nat, NEW b \in Nat, Divides(a, b), Divides(b, a)
  PROVE  a = b
<1>1. PICK k \in Nat : b = a * k
  BY DEF Divides
<1>2. PICK l \in Nat : a = b * l
  BY DEF Divides
<1>3. CASE a = 0
  BY <1>1, <1>3
<1>4. CASE a # 0
  <2>1. k # 0 /\ l # 0
    BY <1>1, <1>2, <1>4
  <2>2. a <= b
    BY <1>1, <2>1
  <2>3. b <= a
    BY <1>2, <2>1
  <2> QED BY <2>2, <2>3
<1> QED BY <1>3, <1>4

\* Every number divides itself and 0.
LEMMA DividesSelf == \A n \in Nat : Divides(n, n) /\ Divides(n, 0)
<1>1. \A n \in Nat : n = n * 1 /\ 0 = n * 0
  OBVIOUS
<1> QED BY <1>1 DEF Divides

\* Some function satisfies the equation of Gcd, so Gcd does.
LEMMA GcdEquation ==
  ASSUME NEW a \in Nat, NEW b \in Nat
  PROVE  Gcd[b][a] = IF b = 0 THEN a ELSE Gcd[a % b][b]
<1> DEFINE G == [y \in Nat |-> [x \in Nat |-> Greatest(Common(x, y))]]
           Euclid(g) == [y \in Nat |-> [x \in Nat |-> IF y = 0 THEN x ELSE g[x % y][y]]]
<1>1. ASSUME NEW x \in Nat PROVE Greatest(Common(x, 0)) = x
  <2>2. x \in Common(x, 0)
    BY DividesSelf DEF Common
  <2>3. \A d \in Common(x, 0) : Divides(d, x)
    BY DEF Common
  <2> DEFINE m == Greatest(Common(x, 0))
  <2>4. m \in Common(x, 0) /\ \A d \in Common(x, 0) : Divides(d, m)
    BY <2>2, <2>3, Zenon DEF Greatest
  <2> QED BY <2>2, <2>4, DividesAnti DEF Common
<1>2. \A x, y \in Nat : G[y][x] = IF y = 0 THEN x ELSE G[x % y][y]
  <2> SUFFICES ASSUME NEW x \in Nat, NEW y \in Nat
               PROVE  G[y][x] = IF y = 0 THEN x ELSE G[x % y][y]
    OBVIOUS
  <2>1. y # 0 => x % y \in Nat /\ Common(x, y) = Common(y, x % y)
    BY Remainder, SameDivisors
  <2>2. G[y][x] = Greatest(Common(x, y))
    OBVIOUS
  <2>3. y # 0 => G[x % y][y] = Greatest(Common(y, x % y))
    BY <2>1
  <2> QED BY <1>1, <2>1, <2>2, <2>3
<1>3. G = Euclid(G)
  <2>1. ASSUME NEW y \in Nat
        PROVE  G[y] = [x \in Nat |-> IF y = 0 THEN x ELSE G[x % y][y]]
    <3>1. G[y] = [x \in Nat |-> G[y][x]]
      OBVIOUS
    <3> HIDE DEF G
    <3> QED BY <1>2, <3>1
  <2>2. G = [y \in Nat |-> G[y]]
    OBVIOUS
  <2> HIDE DEF G
  <2> QED BY <2>1, <2>2
<1>4. Gcd = Euclid(Gcd)
  <2> HIDE DEF G
  <2> QED BY <1>3, Zenon DEF Gcd
<1> QED BY <1>4

\* Euclid's loop ends with a common divisor of the numbers it began with.
LEMMA GcdDivides ==
  ASSUME NEW a \in Nat, NEW b \in Nat
  PROVE  Gcd[b][a] \in Common(a, b)
<1> DEFINE S == {y \in Nat : \E x \in Nat : Gcd[y][x] \notin Common(x, y)}
<1>1. CASE S = {}
  BY <1>1
<1>2. CASE S # {}
  <2>1. PICK y \in S : \A z \in S : y <= z
    BY <1>2, Least
  <2>2. PICK x \in Nat : Gcd[y][x] \notin Common(x, y)
    BY <2>1
  <2>3. CASE y = 0
    <3>1. Gcd[y][x] = x
      BY <2>3, GcdEquation
    <3> QED BY <2>2, <2>3, <3>1, DividesSelf DEF Common
  <2>4. CASE y # 0
    <3>1. y \in Nat /\ x % y \in Nat /\ x % y < y
      BY <2>1, <2>4, Remainder
    <3>2. x % y \notin S
      BY <2>1, <3>1
    <3>3. Gcd[x % y][y] \in Common(y, x % y)
      BY <3>1, <3>2
    <3> QED BY <2>2, <2>4, <3>1, <3>3, GcdEquation, SameDivisors
  <2> QED BY <2>3, <2>4
<1> QED BY <1>1, <1>2

\* Where pq_factorize has numbers, and a number worth factoring.
FactorInv ==
  /\ DOMAIN hs = DOMAIN NoCtx
  /\ net.type = "resPQ" => net.pq \in Nat
  /\ hs.pq \in Nat /\ hs.c \in Nat /\ hs.x \in Nat /\ hs.y \in Nat
  /\ hs.pc = "resPQ" => hs.c = 0
  /\ hs.pc = "factor" /\ hs.c > 0 => hs.pq > 1
  /\ FactorsRight

\* The fields the factorization changes.
LEMMA CtxFields ==
  /\ {"pc", "pq", "c", "steps", "x", "y", "p", "q", "nonce", "server_nonce", "new_nonce",
      "g", "g_a", "b"} = DOMAIN NoCtx
  /\ NoCtx.pc = "idle" /\ NoCtx.pq = 0 /\ NoCtx.c = 0 /\ NoCtx.steps = 0 /\ NoCtx.x = 0
  /\ NoCtx.y = 0
  /\ Empty.type = "none"
BY DEF NoCtx, Empty

\* The half of an even product of two primes is the other prime.
LEMMA EvenProduct ==
  ASSUME NEW n \in Nat, n % 2 = 0, NEW p \in 2..(UINT32 - 1), n % p = 0, IsPrime(p),
         IsPrime(n \div p), n \div p < UINT32
  PROVE  n \div 2 \in Nat /\ n \div 2 < UINT32 /\ n \div 2 > 1 /\ 2 * (n \div 2) = n
<1> DEFINE m == n \div p
<1>0. p \in Nat /\ p > 1 /\ p < UINT32 /\ UINT32 \in Nat
  BY NumbersAssumption
<1>1. m \in Nat /\ n = p * m
  BY <1>0, Remainder
<1>2. m > 1 /\ m < UINT32
  BY DEF IsPrime
<1>3. \A k \in Nat : IsPrime(k) /\ k # 2 => k % 2 # 0
  BY DEF IsPrime
<1>4. p = 2 \/ p % 2 = 1
  BY <1>0, <1>3
<1>5. m = 2 \/ m % 2 = 1
  <2>1. IsPrime(m)
    OBVIOUS
  <2> HIDE DEF m
  <2> QED BY <1>1, <1>3, <2>1
<1> HIDE DEF m
<1>6. CASE p = 2
  BY <1>1, <1>2, <1>6
<1>7. CASE m = 2
  BY <1>0, <1>1, <1>7
<1>8. CASE p % 2 = 1 /\ m % 2 = 1
  <2>1. PICK i \in Nat : p = 2 * i + 1
    <3>1. p = 2 * (p \div 2) + 1 /\ p \div 2 \in Nat
      BY <1>0, <1>8
    <3> QED BY <3>1
  <2>2. PICK j \in Nat : m = 2 * j + 1
    <3>1. m = 2 * (m \div 2) + 1 /\ m \div 2 \in Nat
      BY <1>1, <1>8
    <3> QED BY <3>1
  <2>3. i * j \in Nat /\ (2 * i + 1) * (2 * j + 1) = 2 * (2 * (i * j) + i + j) + 1
    OBVIOUS
  <2>4. n = 2 * (2 * (i * j) + i + j) + 1
    BY <1>1, <2>1, <2>2, <2>3
  <2>5. \A k \in Nat : (2 * k + 1) % 2 = 1
    OBVIOUS
  <2>6. 2 * (i * j) + i + j \in Nat
    BY <2>3
  <2>7. n % 2 = 1
    BY <2>4, <2>5, <2>6
  <2> QED BY <2>7
<1> QED BY <1>4, <1>5, <1>6, <1>7, <1>8

\* The two factors, in their order.
LEMMA FactoredKeeps ==
  ASSUME FactorInv, NEW p \in Nat, NEW q \in Nat, Factored(p, q),
         (\E r \in 2..(UINT32 - 1) : /\ hs.pq % r = 0 /\ IsPrime(r)
                                     /\ IsPrime(hs.pq \div r)
                                     /\ hs.pq \div r < UINT32)
           => p * q = hs.pq /\ 1 < p /\ 1 < q
  PROVE  FactorInv'
<1>1. /\ DOMAIN hs' = DOMAIN NoCtx /\ hs'.pq = hs.pq /\ hs'.c = 0 /\ hs'.x = 0 /\ hs'.y = 0
      /\ hs'.pc = "req_dh" /\ UNCHANGED net
      /\ hs'.p = IF p > q THEN q ELSE p
      /\ hs'.q = IF p > q THEN p ELSE q
  BY CtxFields DEF FactorInv, Factored
<1>2. p * q = q * p
  OBVIOUS
<1>3. FactorsRight'
  <2> SUFFICES ASSUME \E r \in 2..(UINT32 - 1) : /\ hs.pq % r = 0 /\ IsPrime(r)
                                                 /\ IsPrime(hs.pq \div r)
                                                 /\ hs.pq \div r < UINT32
               PROVE  hs'.p * hs'.q = hs.pq /\ 1 < hs'.p /\ hs'.p <= hs'.q
    BY <1>1, Zenon DEF FactorsRight
  <2>1. p * q = hs.pq /\ 1 < p /\ 1 < q
    OBVIOUS
  <2> QED BY <1>1, <1>2, <2>1
<1> QED BY <1>1, <1>3 DEF FactorInv

\* A step that leaves no factors to be sent.
LEMMA OtherKeeps ==
  ASSUME FactorInv, DOMAIN hs' = DOMAIN NoCtx, hs'.pc # "req_dh",
         hs'.pq \in Nat, hs'.c \in Nat, hs'.x \in Nat, hs'.y \in Nat,
         hs'.pc = "resPQ" => hs'.c = 0,
         hs'.pc = "factor" /\ hs'.c > 0 => hs'.pq > 1,
         net' = net \/ net'.type # "resPQ" \/ net'.pq \in Nat
  PROVE  FactorInv'
BY DEF FactorInv, FactorsRight

\* An exchange that fails leaves no factors behind.
LEMMA FailKeeps == ASSUME FactorInv, Fail PROVE FactorInv'
<1>1. hs' = NoCtx /\ net' = Empty
  BY DEF Fail
<1> QED BY <1>1, CtxFields, OtherKeeps

\* The even case of pq_factorize.
LEMMA EvenKeeps == ASSUME FactorInv, factor_even PROVE FactorInv'
<1>0. /\ DOMAIN hs = DOMAIN NoCtx /\ hs.pq \in Nat /\ hs.c \in Nat /\ hs.x \in Nat
      /\ hs.y \in Nat /\ hs.pc = "factor"
  BY DEF FactorInv, factor_even
<1>1. CASE Fail
  BY <1>1, FailKeeps
<1>2. CASE hs.pq % 2 = 0 /\ Factored(2, (hs.pq \div 2) % UINT32)
  <2> DEFINE h == hs.pq \div 2
  <2>1. h \in Nat /\ h % UINT32 \in Nat /\ (h < UINT32 => h % UINT32 = h)
    BY <1>0, NumbersAssumption
  <2>2. ASSUME NEW r \in 2..(UINT32 - 1), hs.pq % r = 0, IsPrime(r),
               IsPrime(hs.pq \div r), hs.pq \div r < UINT32
        PROVE  2 * (h % UINT32) = hs.pq /\ 1 < 2 /\ 1 < h % UINT32
    <3>1. h < UINT32 /\ h > 1 /\ 2 * h = hs.pq
      BY <1>0, <1>2, <2>2, EvenProduct
    <3> HIDE DEF h
    <3> QED BY <2>1, <3>1
  <2> HIDE DEF h
  <2>3. Factored(2, h % UINT32)
    BY <1>2 DEF h
  <2> QED BY <2>1, <2>2, <2>3, FactoredKeeps
<1>3. CASE hs.pq >= 2 /\ hs' = [hs EXCEPT !.c = 1, !.x = 2, !.y = 2] /\ UNCHANGED net
  <2>1. /\ DOMAIN hs' = DOMAIN NoCtx /\ hs'.pc = "factor" /\ hs'.pq = hs.pq /\ hs'.c = 1
        /\ hs'.x = 2 /\ hs'.y = 2
    BY <1>0, <1>3, CtxFields
  <2> QED BY <1>0, <1>3, <2>1, OtherKeeps
<1> QED BY <1>0, <1>1, <1>2, <1>3 DEF factor_even

\* The quotient by a divisor.
LEMMA Quotient ==
  ASSUME NEW n \in Nat, n > 1, NEW d \in Nat, Divides(d, n), d # 1, d # n
  PROVE  n \div d \in Nat /\ d * (n \div d) = n /\ 1 < d /\ 1 < n \div d
<1>1. PICK k \in Nat : n = d * k
  BY DEF Divides
<1>2. d > 0 /\ k > 0
  BY <1>1
<1>3. n \div d = k
  BY <1>1, <1>2
<1>4. k # 1
  BY <1>1
<1> QED BY <1>1, <1>2, <1>3, <1>4

\* One turn of the loop of Pollard rho.
LEMMA RhoKeeps == ASSUME FactorInv, rho_step PROVE FactorInv'
<1> DEFINE f(v) == (v * v + hs.c) % hs.pq
           x == f(hs.x)
           y == f(f(hs.y))
           d == IF x = y THEN 1 ELSE Gcd[hs.pq][Abs(x - y)]
<1>0. /\ DOMAIN hs = DOMAIN NoCtx /\ hs.pq \in Nat /\ hs.c \in Nat /\ hs.x \in Nat
      /\ hs.y \in Nat /\ hs.pc = "factor" /\ hs.c > 0 /\ hs.pq > 1
  BY DEF FactorInv, rho_step
<1>1. x \in Nat /\ y \in Nat
  <2>1. ASSUME NEW v \in Nat PROVE f(v) \in Nat
    <3>1. v * v + hs.c \in Nat
      BY <1>0
    <3> QED BY <1>0, <3>1, Remainder
  <2> HIDE DEF f
  <2> QED BY <1>0, <2>1
<1> HIDE DEF x, y
<1>2. x # y => d \in Nat /\ Divides(d, hs.pq)
  <2>1. Abs(x - y) \in Nat
    BY <1>1 DEF Abs
  <2> QED BY <1>0, <2>1, GcdDivides DEF Common
<1>3. d = 1 \/ (d \in Nat /\ Divides(d, hs.pq))
  BY <1>2, SMTT(20)
<1>r. \/ d # 1 /\ d # hs.pq /\ Factored(d, hs.pq \div d)
      \/ Fail
      \/ hs' = [hs EXCEPT !.x = x, !.y = y, !.steps = @ + 1] /\ UNCHANGED net
      \/ hs' = [hs EXCEPT !.c = NextC, !.steps = 0, !.x = 2, !.y = 2] /\ UNCHANGED net
  BY DEF rho_step, x, y
<1> HIDE DEF d
<1>4. CASE d # 1 /\ d # hs.pq /\ Factored(d, hs.pq \div d)
  <2>1. d \in Nat /\ hs.pq \div d \in Nat /\ d * (hs.pq \div d) = hs.pq /\ 1 < d
        /\ 1 < hs.pq \div d
    BY <1>0, <1>3, <1>4, Quotient, SMTT(20)
  <2> QED BY <1>4, <2>1, FactoredKeeps
<1>5. CASE Fail
  BY <1>5, FailKeeps
<1>6. CASE hs' = [hs EXCEPT !.x = x, !.y = y, !.steps = @ + 1] /\ UNCHANGED net
  <2>1. /\ DOMAIN hs' = DOMAIN NoCtx /\ hs'.pc = "factor" /\ hs'.pq = hs.pq /\ hs'.c = hs.c
        /\ hs'.x = x /\ hs'.y = y
    BY <1>0, <1>6, CtxFields
  <2> QED BY <1>0, <1>1, <1>6, <2>1, OtherKeeps
<1>7. CASE hs' = [hs EXCEPT !.c = NextC, !.steps = 0, !.x = 2, !.y = 2] /\ UNCHANGED net
  <2>1. /\ DOMAIN hs' = DOMAIN NoCtx /\ hs'.pc = "factor" /\ hs'.pq = hs.pq
        /\ hs'.c = hs.c + 1 /\ hs'.x = 2 /\ hs'.y = 2
    BY <1>0, <1>7, CtxFields DEF NextC
  <2> QED BY <1>0, <1>7, <2>1, OtherKeeps
<1> QED BY <1>r, <1>4, <1>5, <1>6, <1>7, SMTT(20)

\* No other step has factors to send.
LEMMA RestKeeps ==
  ASSUME FactorInv,
         \/ auth_step_req_pq \/ resPQ \/ auth_step_req_dh \/ auth_step_parse_dh
         \/ auth_step_set_client_dh \/ dh_gen \/ ConnectionLost \/ Server
  PROVE  FactorInv'
<1>0. /\ DOMAIN hs = DOMAIN NoCtx /\ hs.pq \in Nat /\ hs.c \in Nat /\ hs.x \in Nat
      /\ hs.y \in Nat /\ (net.type = "resPQ" => net.pq \in Nat)
  BY DEF FactorInv
<1>1. CASE Fail
  BY <1>1, FailKeeps
<1>2. CASE auth_step_req_pq
  <2>1. /\ hs' = [NoCtx EXCEPT !.pc = "resPQ", !.nonce = exchanges + 1]
        /\ net'.type = "req_pq_multi"
    BY <1>2 DEF auth_step_req_pq
  <2> QED BY <2>1, CtxFields, OtherKeeps
<1>3. CASE resPQ /\ ~Fail
  <2>1. /\ net.type = "resPQ" /\ net' = Empty
        /\ hs' = [hs EXCEPT !.pc = "factor", !.pq = net.pq,
                            !.server_nonce = net.server_nonce]
    BY <1>3 DEF resPQ
  <2>2. /\ DOMAIN hs' = DOMAIN NoCtx /\ hs'.pc = "factor" /\ hs'.pq = net.pq
        /\ hs'.c = hs.c /\ hs'.x = hs.x /\ hs'.y = hs.y
    BY <1>0, <2>1, CtxFields
  <2>3. hs.c = 0
    BY <1>3 DEF resPQ, FactorInv
  <2> QED BY <1>0, <2>1, <2>2, <2>3, CtxFields, OtherKeeps
<1>4. ASSUME NEW h \in {"parse_dh", "set_dh", "dh_gen", "done"}, DOMAIN hs' = DOMAIN hs,
             hs'.pc = h, UNCHANGED <<hs.pq, hs.c, hs.x, hs.y>>, net'.type # "resPQ"
      PROVE  FactorInv'
  BY <1>0, <1>4, OtherKeeps
<1>5. CASE auth_step_req_dh
  <2>1. /\ hs' = [hs EXCEPT !.pc = "parse_dh", !.new_nonce = NewNonce]
        /\ net'.type = "req_DH_params"
    BY <1>5 DEF auth_step_req_dh
  <2> QED BY <1>0, <1>4, <2>1, CtxFields
<1>6. CASE auth_step_parse_dh /\ ~Fail
  <2>1. /\ hs' = [hs EXCEPT !.pc = "set_dh", !.g = net.g, !.g_a = net.g_a]
        /\ net' = Empty
    BY <1>6 DEF auth_step_parse_dh
  <2> QED BY <1>0, <1>4, <2>1, CtxFields
<1>7. CASE auth_step_set_client_dh
  <2>1. PICK b \in Exponents :
          /\ hs' = [hs EXCEPT !.pc = "dh_gen", !.b = b]
          /\ net' = [type |-> "set_client_DH_params", nonce |-> hs.nonce,
                     server_nonce |-> hs.server_nonce,
                     under |-> dh_derive_temp_aes(hs.new_nonce, hs.server_nonce),
                     g_b |-> PowMod[b][hs.g]]
    BY <1>7, Zenon DEF auth_step_set_client_dh
  <2>2. net'.type = "set_client_DH_params"
    BY <2>1, Zenon
  <2> QED BY <1>0, <1>4, <2>1, <2>2, CtxFields
<1>8. CASE dh_gen /\ ~Fail
  <2>1. hs' = [hs EXCEPT !.pc = "done"] /\ net' = Empty
    BY <1>8, Zenon DEF dh_gen
  <2> QED BY <1>0, <1>4, <2>1, CtxFields
<1>9. CASE Server
  <2>1. UNCHANGED hs
    BY <1>9, Zenon DEF Server, ServeResPQ, ServeDH, ServeGen
  <2>2. net'.type = "resPQ" => net'.pq \in Nat
    <3>1. CASE ServeResPQ
      BY <3>1, NumbersAssumption DEF ServeResPQ
    <3>2. CASE ServeDH
      <4>1. \A n, sn, inner, g, ga : DHParams(n, sn, inner, g, ga).type # "resPQ"
        BY DEF DHParams
      <4>2. \E n, sn, inner, g, ga : net' = DHParams(n, sn, inner, g, ga)
        BY <3>2, Zenon DEF ServeDH
      <4> QED BY <4>1, <4>2, Zenon
    <3>3. CASE ServeGen
      <4> DEFINE key == PowMod[server.a][net.g_b]
      <4> HIDE DEF key
      <4>1. \E type \in {"dh_gen_ok", "dh_gen_retry", "dh_gen_fail"} : \E n, h :
              net' = [type |-> type, nonce |-> n, hash |-> h]
        BY <3>3, Zenon DEF ServeGen
      <4> QED BY <4>1
    <3> QED BY <1>9, <3>1, <3>2, <3>3 DEF Server
  <2> QED BY <2>1, <2>2 DEF FactorInv, FactorsRight
<1> QED BY <1>1, <1>2, <1>3, <1>5, <1>6, <1>7, <1>8, <1>9 DEF ConnectionLost

\* pq_factorize sends the factors of every product of two primes of 32 bits,
\* the smaller first, whatever pq, polynomial and number of steps.
THEOREM FactorsAreRight == HSpec => []FactorsRight
<1>1. HInit => FactorInv
  BY CtxFields DEF HInit, FactorInv, FactorsRight
<1>2. FactorInv /\ [HNext]_hvars => FactorInv'
  <2> SUFFICES ASSUME FactorInv, [HNext]_hvars PROVE FactorInv'
    OBVIOUS
  <2>1. CASE UNCHANGED hvars
    BY <2>1 DEF hvars, FactorInv, FactorsRight
  <2> QED BY <2>1, EvenKeeps, RhoKeeps, RestKeeps DEF HNext, Client
<1>3. FactorInv => FactorsRight
  BY DEF FactorInv
<1> QED BY <1>1, <1>2, <1>3, PTL DEF HSpec
\* How far pq_factorize has come: the polynomial it is at, and the steps of
\* the runners with it.
RhoRank == IF hs.c = 0 THEN 0 ELSE (hs.c - 1) * RHO_STEPS + hs.steps + 1
\* The turns of all polynomials together.
LastRho == Attempts * RHO_STEPS

\* The requests, and whether the one in flight has been answered.
Requests == {"req_pq_multi", "req_DH_params", "set_client_DH_params"}
Answered == IF net.type \in Requests THEN 0 ELSE 1

\* How far the exchange has come.
HandRank ==
  CASE hs.pc = "resPQ"    -> Answered
    [] hs.pc = "factor"   -> 2 + RhoRank
    [] hs.pc = "req_dh"   -> 3 + LastRho
    [] hs.pc = "parse_dh" -> 4 + LastRho + Answered
    [] hs.pc = "set_dh"   -> 6 + LastRho
    [] hs.pc = "dh_gen"   -> 7 + LastRho + Answered
    [] OTHER              -> 9 + LastRho

\* Each step, of either side, ends the exchange or brings it on.
ExchangeAdvances ==
  hs.pc \notin {"idle", "done"} =>
    hs'.pc = "idle" \/ (HandRank < HandRank' /\ HandRank' <= 9 + LastRho)

\* The frames that may be under way at each place.
InOrder ==
  /\ hs.pc = "resPQ" => net.type \in {"req_pq_multi", "resPQ"}
  /\ hs.pc = "parse_dh" =>
       net.type \in {"req_DH_params", "server_DH_params_ok", "server_DH_params_fail"}
  /\ hs.pc = "dh_gen" =>
       net.type \in {"set_client_DH_params", "dh_gen_ok", "dh_gen_retry", "dh_gen_fail"}
  /\ hs.pc \notin {"resPQ", "parse_dh", "dh_gen"} => net.type = "none"

OrderInv ==
  /\ DOMAIN hs = DOMAIN NoCtx
  /\ hs.pc \in {"idle", "resPQ", "factor", "req_dh", "parse_dh", "set_dh", "dh_gen", "done"}
  /\ hs.c \in 0 .. Attempts /\ hs.steps \in 0 .. RHO_STEPS - 1
  /\ hs.pc = "resPQ" => hs.c = 0
  /\ InOrder

\* What a step has to show.
Onward == OrderInv' /\ ExchangeAdvances

\* The product in the rank of the factorization.
LEMMA RhoProduct ==
  ASSUME NEW c \in 0 .. Attempts
  PROVE  /\ LastRho \in Nat
         /\ c > 0 => /\ (c - 1) * RHO_STEPS \in Nat
                     /\ c * RHO_STEPS = (c - 1) * RHO_STEPS + RHO_STEPS
                     /\ c * RHO_STEPS \in Nat /\ c * RHO_STEPS <= LastRho
BY NumbersAssumption DEF LastRho, Attempts

\* A failure ends the exchange.
LEMMA FailOnward == ASSUME OrderInv, Fail PROVE Onward
<1>1. hs' = NoCtx /\ net' = Empty
  BY DEF Fail
<1>2. hs'.pc = "idle" /\ OrderInv'
  BY <1>1, CtxFields, NumbersAssumption DEF OrderInv, InOrder, Attempts
<1> QED BY <1>2 DEF Onward, ExchangeAdvances

\* The ends of the factorization: the factors, or the next polynomial or step.
LEMMA FactorOnward ==
  ASSUME OrderInv, factor_even \/ rho_step, ~Fail
  PROVE  Onward
<1>0. /\ DOMAIN hs = DOMAIN NoCtx /\ hs.c \in 0 .. Attempts
      /\ hs.steps \in 0 .. RHO_STEPS - 1 /\ RHO_STEPS \in Nat \ {0}
  BY NumbersAssumption, SMTT(20) DEF OrderInv
<1>1. hs.pc = "factor" /\ net.type = "none"
  BY DEF factor_even, rho_step, OrderInv, InOrder
<1>2. RhoRank \in Nat /\ RhoRank <= LastRho /\ LastRho \in Nat
  <2>1. /\ LastRho \in Nat
        /\ hs.c > 0 => /\ (hs.c - 1) * RHO_STEPS \in Nat
                       /\ hs.c * RHO_STEPS = (hs.c - 1) * RHO_STEPS + RHO_STEPS
                       /\ hs.c * RHO_STEPS <= LastRho
    BY <1>0, RhoProduct, Zenon
  <2>2. CASE hs.c = 0
    BY <2>1, <2>2 DEF RhoRank
  <2>3. CASE hs.c > 0
    BY <1>0, <2>1, <2>3 DEF RhoRank
  <2>4. hs.c = 0 \/ hs.c > 0
    BY <1>0 DEF Attempts
  <2> QED BY <2>2, <2>3, <2>4, Zenon
<1>3. ASSUME NEW p, NEW q, Factored(p, q) PROVE Onward
  <2>1. /\ DOMAIN hs' = DOMAIN NoCtx /\ hs'.pc = "req_dh" /\ hs'.c = 0 /\ hs'.steps = 0
        /\ net'.type = "none"
    BY <1>0, <1>1, <1>3, CtxFields DEF Factored
  <2>2. OrderInv'
    BY <1>0, <2>1 DEF OrderInv, InOrder, Attempts
  <2>3. HandRank = 2 + RhoRank /\ HandRank' = 3 + LastRho
    BY <1>1, <2>1 DEF HandRank, LastRho
  <2> QED BY <1>2, <2>2, <2>3 DEF Onward, ExchangeAdvances
<1>4. ASSUME DOMAIN hs' = DOMAIN NoCtx, hs'.pc = "factor", hs'.c \in 1 .. Attempts,
             hs'.steps \in 0 .. RHO_STEPS - 1, UNCHANGED net,
             \/ hs'.c = hs.c + 1
             \/ hs'.c = hs.c /\ hs'.steps = hs.steps + 1
      PROVE  Onward
  <2>1. OrderInv'
    BY <1>1, <1>4 DEF OrderInv, InOrder
  <2>2. HandRank = 2 + RhoRank /\ HandRank' = 2 + RhoRank'
    BY <1>1, <1>4 DEF HandRank
  <2>3. RhoRank' = (hs'.c - 1) * RHO_STEPS + hs'.steps + 1
    BY <1>4 DEF RhoRank
  <2>4. RhoRank' <= LastRho /\ RhoRank < RhoRank'
    <3>1. CASE hs'.c = hs.c + 1
      <4>1. hs'.c - 1 = hs.c
        BY <1>0, <3>1
      <4> QED BY <1>0, <1>4, <2>3, <4>1, RhoProduct DEF RhoRank
    <3>2. CASE hs'.c = hs.c /\ hs'.steps = hs.steps + 1
      BY <1>0, <1>4, <2>3, <3>2, RhoProduct DEF RhoRank
    <3> QED BY <1>4, <3>1, <3>2
  <2> QED BY <1>0, <1>2, <1>4, <2>1, <2>2, <2>3, <2>4, RhoProduct
          DEF Onward, ExchangeAdvances
<1>5. CASE factor_even
  <2>1. \/ \E p, q : Factored(p, q)
        \/ /\ hs.c = 0 /\ hs' = [hs EXCEPT !.c = 1, !.x = 2, !.y = 2]
           /\ UNCHANGED net
    BY <1>5, Zenon DEF factor_even
  <2>2. CASE hs.c = 0 /\ hs' = [hs EXCEPT !.c = 1, !.x = 2, !.y = 2] /\ UNCHANGED net
    BY <1>0, <1>1, <1>4, <2>2, CtxFields DEF Attempts
  <2> QED BY <1>3, <2>1, <2>2
<1>6. CASE rho_step
  <2> DEFINE f(v) == (v * v + hs.c) % hs.pq
             x == f(hs.x)
             y == f(f(hs.y))
             d == IF x = y THEN 1 ELSE Gcd[hs.pq][Abs(x - y)]
  <2>1. \/ Factored(d, hs.pq \div d)
        \/ hs' = [hs EXCEPT !.x = x, !.y = y, !.steps = @ + 1]
           /\ hs.steps + 1 < RHO_STEPS /\ hs.c > 0 /\ UNCHANGED net
        \/ hs' = [hs EXCEPT !.c = NextC, !.steps = 0, !.x = 2, !.y = 2]
           /\ NextC <= Attempts /\ UNCHANGED net
    BY <1>6 DEF rho_step
  <2> HIDE DEF d, x, y
  <2>2. CASE /\ hs' = [hs EXCEPT !.x = x, !.y = y, !.steps = @ + 1]
             /\ hs.steps + 1 < RHO_STEPS /\ hs.c > 0 /\ UNCHANGED net
    <3>1. /\ DOMAIN hs' = DOMAIN NoCtx /\ hs'.pc = "factor" /\ hs'.c = hs.c
          /\ hs'.steps = hs.steps + 1
      BY <1>0, <1>1, <2>2, CtxFields
    <3> QED BY <1>0, <1>4, <2>2, <3>1
  <2>3. CASE /\ hs' = [hs EXCEPT !.c = NextC, !.steps = 0, !.x = 2, !.y = 2]
             /\ NextC <= Attempts /\ UNCHANGED net
    <3>1. /\ DOMAIN hs' = DOMAIN NoCtx /\ hs'.pc = "factor" /\ hs'.c = hs.c + 1
          /\ hs'.steps = 0
      BY <1>0, <1>1, <2>3, CtxFields DEF NextC
    <3> QED BY <1>0, <1>4, <2>3, <3>1 DEF NextC, Attempts
  <2> QED BY <1>3, <2>1, <2>2, <2>3, SMTT(20)
<1> QED BY <1>5, <1>6

\* The other steps: each has one place it comes from and one it goes to.
LEMMA PlainOnward ==
  ASSUME OrderInv, DOMAIN hs' = DOMAIN NoCtx, hs'.c = hs.c, hs'.steps = hs.steps,
         \/ hs.pc = "resPQ" /\ net.type # "req_pq_multi" /\ hs'.pc = "factor"
            /\ net'.type = "none"
         \/ hs.pc = "req_dh" /\ hs'.pc = "parse_dh" /\ net'.type = "req_DH_params"
         \/ hs.pc = "parse_dh" /\ hs'.pc = "set_dh" /\ net'.type = "none"
         \/ hs.pc = "set_dh" /\ hs'.pc = "dh_gen" /\ net'.type = "set_client_DH_params"
         \/ hs.pc = "dh_gen" /\ hs'.pc = "done" /\ net'.type = "none"
         \/ hs.pc = "resPQ" /\ hs'.pc = "resPQ" /\ net.type = "req_pq_multi"
            /\ net'.type = "resPQ"
         \/ hs.pc = "parse_dh" /\ hs'.pc = "parse_dh" /\ net.type = "req_DH_params"
            /\ net'.type \in {"server_DH_params_ok", "server_DH_params_fail"}
         \/ hs.pc = "dh_gen" /\ hs'.pc = "dh_gen" /\ net.type = "set_client_DH_params"
            /\ net'.type \in {"dh_gen_ok", "dh_gen_retry", "dh_gen_fail"}
  PROVE  Onward
<1>1. OrderInv'
  BY DEF OrderInv, InOrder
<1>2. LastRho \in Nat /\ LastRho' = LastRho
  BY RhoProduct DEF OrderInv, LastRho
<1>3. hs.pc = "resPQ" /\ hs'.pc = "factor" => RhoRank' = 0
  BY DEF OrderInv, RhoRank
<1>4. HandRank < HandRank' /\ HandRank' <= 9 + LastRho
  BY <1>2, <1>3 DEF HandRank, Answered, Requests, OrderInv, InOrder
<1> QED BY <1>1, <1>4 DEF Onward, ExchangeAdvances

\* The steps of the client that send or check a message.
LEMMA ClientOnward ==
  ASSUME OrderInv, auth_step_req_pq \/ Client \/ ConnectionLost
  PROVE  Onward
<1>0. DOMAIN hs = DOMAIN NoCtx
  BY DEF OrderInv
<1>1. CASE Fail
  BY <1>1, FailOnward
<1>2. CASE auth_step_req_pq
  <2>1. /\ hs' = [NoCtx EXCEPT !.pc = "resPQ", !.nonce = exchanges + 1]
        /\ net'.type = "req_pq_multi" /\ hs.pc = "idle"
    BY <1>2 DEF auth_step_req_pq
  <2>2. OrderInv'
    BY <2>1, CtxFields, NumbersAssumption DEF OrderInv, InOrder, Attempts
  <2> QED BY <2>1, <2>2 DEF Onward, ExchangeAdvances
<1>3. CASE resPQ /\ ~Fail
  <2>1. /\ hs.pc = "resPQ" /\ net.type = "resPQ" /\ net' = Empty
        /\ hs' = [hs EXCEPT !.pc = "factor", !.pq = net.pq,
                            !.server_nonce = net.server_nonce]
    BY <1>3 DEF resPQ
  <2> QED BY <1>0, <2>1, CtxFields, PlainOnward
<1>4. CASE (factor_even \/ rho_step) /\ ~Fail
  BY <1>4, FactorOnward
<1>5. CASE auth_step_req_dh
  <2>1. /\ hs.pc = "req_dh" /\ hs' = [hs EXCEPT !.pc = "parse_dh", !.new_nonce = NewNonce]
        /\ net'.type = "req_DH_params"
    BY <1>5 DEF auth_step_req_dh
  <2> QED BY <1>0, <2>1, CtxFields, PlainOnward
<1>6. CASE auth_step_parse_dh /\ ~Fail
  <2>1. /\ hs' = [hs EXCEPT !.pc = "set_dh", !.g = net.g, !.g_a = net.g_a]
        /\ hs.pc = "parse_dh" /\ net' = Empty
    BY <1>6 DEF auth_step_parse_dh
  <2> QED BY <1>0, <2>1, CtxFields, PlainOnward
<1>7. CASE auth_step_set_client_dh
  <2>1. PICK b \in Exponents :
          /\ hs.pc = "set_dh"
          /\ hs' = [hs EXCEPT !.pc = "dh_gen", !.b = b]
          /\ net' = [type |-> "set_client_DH_params", nonce |-> hs.nonce,
                     server_nonce |-> hs.server_nonce,
                     under |-> dh_derive_temp_aes(hs.new_nonce, hs.server_nonce),
                     g_b |-> PowMod[b][hs.g]]
    BY <1>7, Zenon DEF auth_step_set_client_dh
  <2>2. net'.type = "set_client_DH_params"
    BY <2>1
  <2> QED BY <1>0, <2>1, <2>2, CtxFields, PlainOnward
<1>8. CASE dh_gen /\ ~Fail
  <2>1. hs.pc = "dh_gen" /\ hs' = [hs EXCEPT !.pc = "done"] /\ net' = Empty
    BY <1>8, Zenon DEF dh_gen
  <2> QED BY <1>0, <2>1, CtxFields, PlainOnward
<1> QED BY <1>1, <1>2, <1>3, <1>4, <1>5, <1>6, <1>7, <1>8 DEF Client, ConnectionLost

\* The answers of the server.
LEMMA ServerOnward == ASSUME OrderInv, Server PROVE Onward
<1>1. UNCHANGED hs
  BY Zenon DEF Server, ServeResPQ, ServeDH, ServeGen
<1>2. \/ net.type = "req_pq_multi" /\ net'.type = "resPQ"
      \/ net.type = "req_DH_params"
         /\ net'.type \in {"server_DH_params_ok", "server_DH_params_fail"}
      \/ net.type = "set_client_DH_params"
         /\ net'.type \in {"dh_gen_ok", "dh_gen_retry", "dh_gen_fail"}
  <2>1. CASE ServeResPQ
    BY <2>1 DEF ServeResPQ
  <2>2. CASE ServeDH
    BY <2>2 DEF ServeDH, DHParams
  <2>3. CASE ServeGen
    BY <2>3 DEF ServeGen
  <2> QED BY <2>1, <2>2, <2>3 DEF Server
<1>3. \/ net.type = "req_pq_multi" /\ hs.pc = "resPQ"
      \/ net.type = "req_DH_params" /\ hs.pc = "parse_dh"
      \/ net.type = "set_client_DH_params" /\ hs.pc = "dh_gen"
  BY <1>2 DEF OrderInv, InOrder
<1> QED BY <1>1, <1>2, <1>3, PlainOnward DEF OrderInv

(***************************************************************************)
(* mtproto_auth_key_gen takes a bounded number of steps: every step of the *)
(* client or the server, for any number to factor and any answers, ends    *)
(* the exchange or brings it on, and 19 polynomials of RHO_STEPS steps and *)
(* nine steps besides are the most there can be.  No answer is waited for  *)
(* twice and no request repeated.                                          *)
(***************************************************************************)
THEOREM ExchangeIsBounded == HSpec => [][ExchangeAdvances]_hvars
<1>1. HInit => OrderInv
  BY CtxFields, NumbersAssumption DEF HInit, OrderInv, InOrder, Attempts
<1>2. OrderInv /\ HNext => Onward
  BY ClientOnward, ServerOnward DEF HNext
<1>3. OrderInv /\ UNCHANGED hvars => OrderInv'
  BY DEF hvars, OrderInv, InOrder
<1>4. OrderInv /\ [HNext]_hvars => OrderInv' /\ [ExchangeAdvances]_hvars
  BY <1>2, <1>3 DEF Onward
<1> QED BY <1>1, <1>4, PTL DEF HSpec

\* Induction on a set of natural numbers.
LEMMA Induction ==
  ASSUME NEW S, 0 \in S, \A n \in Nat : n \in S => n + 1 \in S
  PROVE  \A n \in Nat : n \in S
<1> SUFFICES ASSUME Nat \ S # {} PROVE FALSE
  OBVIOUS
<1>1. PICK m \in Nat \ S : \A n \in Nat \ S : m <= n
  BY Least
<1>2. m # 0 /\ m \in Nat
  OBVIOUS
<1>3. m - 1 \in Nat /\ m - 1 \in S
  BY <1>1, <1>2
<1> QED BY <1>2, <1>3

\* A function that is given its first value and a step exists.
LEMMA Recursion ==
  ASSUME NEW V, NEW first \in V, NEW step \in [V -> V]
  PROVE  \E f \in [Nat -> V] : f[0] = first /\ \A n \in Nat : f[n + 1] = step[f[n]]
<1> DEFINE Upto(n) == {g \in [0..n -> V] : /\ g[0] = first
                                           /\ \A i \in 0..(n - 1) : g[i + 1] = step[g[i]]}
<1>1. \A n \in Nat : Upto(n) # {}
  <2> DEFINE S == {n \in Nat : Upto(n) # {}}
  <2>1. 0 \in S
    <3>1. [i \in 0..0 |-> first] \in Upto(0)
      OBVIOUS
    <3> QED BY <3>1
  <2>2. ASSUME NEW n \in Nat, n \in S PROVE n + 1 \in S
    <3>1. PICK g \in [0..n -> V] : /\ g[0] = first
                                   /\ \A i \in 0..(n - 1) : g[i + 1] = step[g[i]]
      BY <2>2
    <3> DEFINE h == [i \in 0..(n + 1) |-> IF i = n + 1 THEN step[g[n]] ELSE g[i]]
    <3>2. h \in [0..(n + 1) -> V]
      BY <3>1
    <3>3. h[0] = first
      BY <3>1
    <3>4. \A i \in 0..n : h[i + 1] = step[h[i]]
      BY <3>1
    <3>5. (n + 1) - 1 = n
      OBVIOUS
    <3> HIDE DEF h
    <3>6. h \in Upto(n + 1)
      BY <3>2, <3>3, <3>4, <3>5
    <3> QED BY <3>6
  <2> HIDE DEF S
  <2>3. \A n \in Nat : n \in S
    BY <2>1, <2>2, Induction
  <2> QED BY <2>3 DEF S
<1>2. ASSUME NEW n \in Nat, NEW m \in Nat, NEW g \in Upto(n), NEW h \in Upto(m)
      PROVE  \A i \in Nat : i <= n /\ i <= m => g[i] = h[i]
  <2> DEFINE S == {i \in Nat : i <= n /\ i <= m => g[i] = h[i]}
  <2>1. 0 \in S
    OBVIOUS
  <2>2. ASSUME NEW i \in Nat, i \in S PROVE i + 1 \in S
    BY <2>2
  <2> HIDE DEF S
  <2>3. \A i \in Nat : i \in S
    BY <2>1, <2>2, Induction, SMTT(20)
  <2> QED BY <2>3 DEF S
<1> DEFINE g(n) == CHOOSE h : h \in Upto(n)
           f == [n \in Nat |-> g(n)[n]]
<1>3. \A n \in Nat : g(n) \in Upto(n)
  <2> HIDE DEF Upto
  <2> QED BY <1>1
<1> HIDE DEF g
<1>4. f \in [Nat -> V]
  BY <1>3
<1>5. f[0] = first
  BY <1>3
<1>6. ASSUME NEW n \in Nat PROVE f[n + 1] = step[f[n]]
  <2>1. g(n + 1)[n + 1] = step[g(n + 1)[n]]
    BY <1>3
  <2>2. g(n + 1)[n] = g(n)[n]
    <3> HIDE DEF Upto
    <3> QED BY <1>2, <1>3
  <2> QED BY <2>1, <2>2
<1> QED BY <1>4, <1>5, <1>6

\* A remainder is determined by its bounds.
LEMMA RemainderUnique ==
  ASSUME NEW p \in Nat, p # 0, NEW q \in Nat, NEW r \in Nat, r < p
  PROVE  (p * q + r) % p = r
<1> DEFINE n == p * q + r
           k == n \div p
<1>1. n \in Nat /\ k \in Nat /\ n % p \in Nat /\ n % p < p /\ n = p * k + (n % p)
  BY Remainder
<1> HIDE DEF k
<1>2. n = p * q + r
  OBVIOUS
<1> HIDE DEF n
<1>3. p * (q - k) = (n % p) - r /\ p * (k - q) = r - (n % p)
  BY <1>1, <1>2
<1>4. \A d \in Int : d >= 1 => p * d >= p
  OBVIOUS
<1>5. q = k
  BY <1>1, <1>3, <1>4
<1> QED BY <1>1, <1>2, <1>5 DEF n

\* Reducing a factor does not change the product's remainder.
LEMMA ReducedFactor ==
  ASSUME NEW p \in Nat, p # 0, NEW a \in Nat, NEW b \in Nat
  PROVE  (a * (b % p)) % p = (a * b) % p
<1> DEFINE q == b \div p
           r == b % p
           k == (a * r) \div p
           s == (a * r) % p
<1>1. q \in Nat /\ r \in Nat /\ b = p * q + r
  BY Remainder
<1> HIDE DEF q, r
<1>2. a * r \in Nat
  BY <1>1
<1>3. k \in Nat /\ s \in Nat /\ s < p /\ a * r = p * k + s
  BY <1>2, Remainder, SMTT(20)
<1> HIDE DEF k, s
<1>4. a * q + k \in Nat /\ a * (p * q + r) = p * (a * q) + a * r
  BY <1>1, <1>3
<1>5. p * (a * q + k) = p * (a * q) + p * k
  BY <1>1, <1>3
<1>6. a * b = p * (a * q + k) + s
  <2>1. p * (a * q) \in Nat /\ p * k \in Nat
    BY <1>1, <1>3
  <2> QED BY <1>1, <1>3, <1>4, <1>5, <2>1
<1>7. (a * b) % p = s
  BY <1>3, <1>4, <1>6, RemainderUnique
<1> QED BY <1>7 DEF s, r

\* PowMod satisfies its equation.
LEMMA PowEquation ==
  ASSUME NEW n \in Nat, NEW x \in Nat
  PROVE  PowMod[n][x] = IF n = 0 THEN 1 % Prime ELSE (x * PowMod[n - 1][x]) % Prime
<1>0. Prime \in Nat /\ Prime # 0
  BY NumbersAssumption
<1> DEFINE V == [Nat -> Nat]
           first == [y \in Nat |-> 1 % Prime]
           step == [v \in V |-> [y \in Nat |-> (y * v[y]) % Prime]]
           Eqn(f) == [m \in Nat |-> [y \in Nat |-> IF m = 0 THEN 1 % Prime
                                                 ELSE (y * f[m - 1][y]) % Prime]]
<1>1. first \in V
  BY <1>0
<1>2. step \in [V -> V]
  <2> SUFFICES ASSUME NEW v \in V, NEW y \in Nat PROVE (y * v[y]) % Prime \in Nat
    OBVIOUS
  <2>1. y * v[y] \in Nat
    OBVIOUS
  <2> QED BY <1>0, <2>1, Remainder
<1>3. PICK f \in [Nat -> V] : f[0] = first /\ \A m \in Nat : f[m + 1] = step[f[m]]
  <2> HIDE DEF V, first, step
  <2> QED BY <1>1, <1>2, Recursion
<1>4. ASSUME NEW m \in Nat
      PROVE  f[m] = [y \in Nat |-> IF m = 0 THEN 1 % Prime
                                   ELSE (y * f[m - 1][y]) % Prime]
  <2>1. CASE m = 0
    BY <1>3, <2>1
  <2>2. CASE m # 0
    <3>1. m - 1 \in Nat /\ m = (m - 1) + 1
      BY <2>2
    <3>2. f[m] = step[f[m - 1]] /\ f[m - 1] \in V
      BY <1>3, <3>1
    <3>3. f[m] = [y \in Nat |-> (y * f[m - 1][y]) % Prime]
      BY <3>2
    <3> QED BY <2>2, <3>3
  <2> QED BY <2>1, <2>2
<1>5. f = Eqn(f)
  BY <1>4
<1>6. PowMod = Eqn(PowMod)
  BY <1>5, Zenon DEF PowMod
<1>7. PowMod[n] = Eqn(PowMod)[n]
  BY <1>6, Zenon
<1>8. Eqn(PowMod)[n][x] = IF n = 0 THEN 1 % Prime ELSE (x * PowMod[n - 1][x]) % Prime
  OBVIOUS
<1> QED BY <1>7, <1>8, Zenon

\* A power is a remainder.
LEMMA PowType ==
  ASSUME NEW n \in Nat, NEW x \in Nat
  PROVE  PowMod[n][x] \in Nat /\ PowMod[n][x] < Prime
<1>0. Prime \in Nat /\ Prime # 0
  BY NumbersAssumption
<1> DEFINE S == {m \in Nat : PowMod[m][x] \in Nat /\ PowMod[m][x] < Prime}
<1>1. 0 \in S
  <2>1. PowMod[0][x] = 1 % Prime
    BY PowEquation
  <2> QED BY <1>0, <2>1, Remainder
<1>2. ASSUME NEW m \in Nat, m \in S PROVE m + 1 \in S
  <2>0. m + 1 \in Nat /\ m + 1 # 0 /\ (m + 1) - 1 = m
    OBVIOUS
  <2>1. PowMod[m + 1][x] = (x * PowMod[m][x]) % Prime
    BY <2>0, PowEquation
  <2>2. x * PowMod[m][x] \in Nat
    BY <1>2
  <2> QED BY <1>0, <2>1, <2>2, Remainder
<1> HIDE DEF S
<1>3. n \in S
  BY <1>1, <1>2, Induction
<1> QED BY <1>3 DEF S

\* x^(m + n) = x^m x^n.
LEMMA PowSum ==
  ASSUME NEW m \in Nat, NEW n \in Nat, NEW x \in Nat
  PROVE  PowMod[m + n][x] = (PowMod[m][x] * PowMod[n][x]) % Prime
<1>0. Prime \in Nat /\ Prime # 0
  BY NumbersAssumption
<1> DEFINE b == PowMod[n][x]
           S == {i \in Nat : PowMod[i + n][x] = (PowMod[i][x] * b) % Prime}
<1>b. b \in Nat /\ b < Prime
  BY PowType
<1>1. 0 \in S
  <2>1. PowMod[0][x] = 1 % Prime /\ 0 + n = n
    BY PowEquation
  <2>2. (b * (1 % Prime)) % Prime = (b * 1) % Prime
    BY <1>0, <1>b, ReducedFactor
  <2>3. 1 % Prime \in Nat
    BY <1>0, Remainder
  <2>4. (b * 1) % Prime = b /\ b * (1 % Prime) = (1 % Prime) * b
    <3> HIDE DEF b
    <3> QED BY <1>0, <1>b, <2>3
  <2> QED BY <2>1, <2>2, <2>4
<1>2. ASSUME NEW i \in Nat, i \in S PROVE i + 1 \in S
  <2> DEFINE a == PowMod[i][x]
  <2>a. a \in Nat
    BY PowType
  <2>0. i + 1 \in Nat /\ i + 1 # 0 /\ (i + 1) - 1 = i
    OBVIOUS
  <2>1. PowMod[i + 1][x] = (x * a) % Prime
    BY <2>0, PowEquation
  <2>2. (i + 1) + n \in Nat /\ (i + 1) + n # 0 /\ ((i + 1) + n) - 1 = i + n
    OBVIOUS
  <2>3. PowMod[(i + 1) + n][x] = (x * PowMod[i + n][x]) % Prime
    BY <2>2, PowEquation
  <2>4. PowMod[i + n][x] = (a * b) % Prime
    BY <1>2
  <2> HIDE DEF a, b
  <2>5. a * b \in Nat /\ x * a \in Nat
    BY <1>b, <2>a
  <2>6. (x * ((a * b) % Prime)) % Prime = (x * (a * b)) % Prime
    BY <1>0, <2>5, ReducedFactor
  <2>7. (b * ((x * a) % Prime)) % Prime = (b * (x * a)) % Prime
    BY <1>0, <1>b, <2>5, ReducedFactor
  <2>8. (x * a) % Prime \in Nat
    BY <1>0, <2>5, Remainder
  <2>9. b * (x * a) = x * (a * b) /\ b * ((x * a) % Prime) = ((x * a) % Prime) * b
    BY <1>b, <2>a, <2>8
  <2>10. PowMod[(i + 1) + n][x] = (((x * a) % Prime) * b) % Prime
    BY <2>3, <2>4, <2>6, <2>7, <2>9
  <2> QED BY <2>1, <2>10
<1> HIDE DEF S
<1>3. m \in S
  BY <1>1, <1>2, Induction
<1> QED BY <1>3 DEF S

\* (x^m)^n = x^(m n).
LEMMA PowProduct ==
  ASSUME NEW m \in Nat, NEW n \in Nat, NEW x \in Nat
  PROVE  PowMod[n][PowMod[m][x]] = PowMod[m * n][x]
<1> DEFINE y == PowMod[m][x]
           S == {i \in Nat : PowMod[i][y] = PowMod[m * i][x]}
<1>y. y \in Nat
  BY PowType
<1> HIDE DEF y
<1>1. 0 \in S
  <2>1. m * 0 = 0
    OBVIOUS
  <2> QED BY <1>y, <2>1, PowEquation
<1>2. ASSUME NEW i \in Nat, i \in S PROVE i + 1 \in S
  <2>1. PowMod[i + 1][y] = (y * PowMod[i][y]) % Prime
    BY <1>y, PowEquation
  <2>2. m * i \in Nat /\ m * (i + 1) = m + m * i
    OBVIOUS
  <2>3. PowMod[m + m * i][x] = (PowMod[m][x] * PowMod[m * i][x]) % Prime
    BY <2>2, PowSum
  <2> QED BY <1>2, <2>1, <2>2, <2>3 DEF y
<1> HIDE DEF S
<1>3. n \in S
  BY <1>1, <1>2, Induction
<1> QED BY <1>3 DEF S, y

\* Both sides of the exchange compute the same number.
LEMMA PowCommutes ==
  ASSUME NEW a \in Nat, NEW b \in Nat, NEW g \in Nat
  PROVE  PowMod[b][PowMod[a][g]] = PowMod[a][PowMod[b][g]]
<1>1. a * b = b * a
  OBVIOUS
<1>2. PowMod[b][PowMod[a][g]] = PowMod[a * b][g]
  BY PowProduct
<1>3. PowMod[a][PowMod[b][g]] = PowMod[b * a][g]
  BY PowProduct
<1> QED BY <1>1, <1>2, <1>3
\* dh_gen_ok for this exchange carries the hash that the client computes.
AcceptanceFits ==
  hs.pc = "dh_gen" /\ net.type = "dh_gen_ok" /\ net.nonce = hs.nonce
    => GoodGen(PowMod[hs.b][hs.g_a])

\* From the server's g_a on, what the client has is what the server made it of.
SameGroup ==
  /\ hs.g \in Nat /\ hs.g_a = PowMod[server.a][hs.g]
  /\ server.new_nonce = hs.new_nonce

DhInv ==
  /\ DOMAIN hs = DOMAIN NoCtx /\ DOMAIN server = DOMAIN NoServer
  /\ server.a \in Nat
  /\ net.type = "req_pq_multi" => hs.pc = "resPQ"
  /\ net.type = "req_DH_params" => hs.pc = "parse_dh"
  /\ net.type = "server_DH_params_ok" =>
       /\ net.under[1] = server.new_nonce
       /\ net.g \in Nat /\ net.g_a = PowMod[server.a][net.g]
  /\ net.type = "set_client_DH_params" =>
       hs.pc = "dh_gen" /\ net.g_b = PowMod[hs.b][hs.g]
  /\ hs.pc \in {"set_dh", "dh_gen"} => SameGroup
  /\ hs.pc = "dh_gen" => hs.b \in Nat
  /\ AcceptanceFits

\* The fields of the server's side.
LEMMA ServerFields ==
  {"new_nonce", "pq", "a", "key"} = DOMAIN NoServer /\ NoServer.a = 0
BY DEF NoServer

\* A step before the group is agreed, with a message of no consequence.
LEMMA EarlyStep ==
  ASSUME DhInv, DOMAIN hs' = DOMAIN NoCtx, DOMAIN server' = DOMAIN NoServer,
         server'.a \in Nat, hs'.pc \notin {"set_dh", "dh_gen"},
         \/ net'.type \in {"none", "resPQ", "server_DH_params_fail"}
         \/ net'.type = "req_pq_multi" /\ hs'.pc = "resPQ"
         \/ net'.type = "req_DH_params" /\ hs'.pc = "parse_dh"
         \/ net'.type = "server_DH_params_ok" /\ net'.under[1] = server'.new_nonce
            /\ net'.g \in Nat /\ net'.g_a = PowMod[server'.a][net'.g]
  PROVE  DhInv'
BY DEF DhInv, AcceptanceFits

\* A failure drops what the exchange has agreed on.
LEMMA FailDh == ASSUME DhInv, Fail PROVE DhInv'
<1>1. hs' = NoCtx /\ server' = NoServer /\ net' = Empty
  BY DEF Fail
<1> QED BY <1>1, CtxFields, ServerFields, EarlyStep

\* A step of the client that only moves its factorization on.
LEMMA QuietDh ==
  ASSUME DhInv, DOMAIN hs' = DOMAIN NoCtx, hs.pc = "factor",
         hs'.pc \in {"factor", "req_dh"}, UNCHANGED <<server, net>>
  PROVE  DhInv'
<1>1. net.type \notin {"req_pq_multi", "req_DH_params", "set_client_DH_params"}
  BY DEF DhInv
<1> QED BY <1>1 DEF DhInv, AcceptanceFits

\* The steps of the client.
LEMMA ClientDh ==
  ASSUME DhInv, auth_step_req_pq \/ Client \/ ConnectionLost
  PROVE  DhInv'
<1>0. /\ DOMAIN hs = DOMAIN NoCtx /\ DOMAIN server = DOMAIN NoServer /\ server.a \in Nat
  BY DEF DhInv
<1>1. CASE Fail
  BY <1>1, FailDh
<1>2. CASE auth_step_req_pq
  <2>1. /\ hs' = [NoCtx EXCEPT !.pc = "resPQ", !.nonce = exchanges + 1]
        /\ net'.type = "req_pq_multi" /\ UNCHANGED server
    BY <1>2 DEF auth_step_req_pq
  <2> QED BY <1>0, <2>1, CtxFields, EarlyStep
<1>3. CASE resPQ /\ ~Fail
  <2>1. /\ net' = Empty /\ UNCHANGED server
        /\ hs' = [hs EXCEPT !.pc = "factor", !.pq = net.pq,
                            !.server_nonce = net.server_nonce]
    BY <1>3 DEF resPQ
  <2> QED BY <1>0, <2>1, CtxFields, EarlyStep
<1>4. CASE (factor_even \/ rho_step) /\ ~Fail
  <2>1. ASSUME NEW p, NEW q, Factored(p, q), hs.pc = "factor" PROVE DhInv'
    <3>1. DOMAIN hs' = DOMAIN NoCtx /\ hs'.pc = "req_dh" /\ UNCHANGED <<server, net>>
      BY <1>0, <2>1, CtxFields DEF Factored
    <3> QED BY <2>1, <3>1, QuietDh
  <2>2. CASE factor_even
    <3>1. hs.pc = "factor"
      BY <2>2 DEF factor_even
    <3>2. \/ \E p, q : Factored(p, q)
          \/ hs' = [hs EXCEPT !.c = 1, !.x = 2, !.y = 2] /\ UNCHANGED <<server, net>>
      BY <1>4, <2>2, Zenon DEF factor_even
    <3> QED BY <1>0, <2>1, <3>1, <3>2, CtxFields, QuietDh
  <2>3. CASE rho_step
    <3> DEFINE f(v) == (v * v + hs.c) % hs.pq
               x == f(hs.x)
               y == f(f(hs.y))
               d == IF x = y THEN 1 ELSE Gcd[hs.pq][Abs(x - y)]
    <3>1. hs.pc = "factor"
      BY <2>3 DEF rho_step
    <3>2. \/ Factored(d, hs.pq \div d)
          \/ hs' = [hs EXCEPT !.x = x, !.y = y, !.steps = @ + 1]
             /\ UNCHANGED <<server, net>>
          \/ hs' = [hs EXCEPT !.c = NextC, !.steps = 0, !.x = 2, !.y = 2]
             /\ UNCHANGED <<server, net>>
      BY <1>4, <2>3 DEF rho_step
    <3> HIDE DEF d, x, y
    <3> QED BY <1>0, <2>1, <3>1, <3>2, CtxFields, QuietDh, ZenonT(30)
  <2> QED BY <1>4, <2>2, <2>3
<1>5. CASE auth_step_req_dh
  <2>1. /\ hs' = [hs EXCEPT !.pc = "parse_dh", !.new_nonce = NewNonce]
        /\ net'.type = "req_DH_params" /\ UNCHANGED server
    BY <1>5 DEF auth_step_req_dh
  <2> QED BY <1>0, <2>1, CtxFields, EarlyStep
<1>6. CASE auth_step_parse_dh /\ ~Fail
  <2>1. /\ hs' = [hs EXCEPT !.pc = "set_dh", !.g = net.g, !.g_a = net.g_a]
        /\ net' = Empty /\ UNCHANGED server
        /\ net.type = "server_DH_params_ok" /\ GoodDH
    BY <1>6 DEF auth_step_parse_dh
  <2>2. net.under[1] = hs.new_nonce
    BY <2>1 DEF GoodDH, dh_derive_temp_aes
  <2>3. SameGroup'
    BY <1>0, <2>1, <2>2, CtxFields DEF DhInv, SameGroup
  <2>4. DOMAIN hs' = DOMAIN NoCtx /\ hs'.pc = "set_dh" /\ net'.type = "none"
    BY <1>0, <2>1, CtxFields
  <2> QED BY <1>0, <2>1, <2>3, <2>4 DEF DhInv, AcceptanceFits
<1>7. CASE auth_step_set_client_dh
  <2>1. PICK b \in Exponents :
          /\ hs.pc = "set_dh"
          /\ hs' = [hs EXCEPT !.pc = "dh_gen", !.b = b]
          /\ net' = [type |-> "set_client_DH_params", nonce |-> hs.nonce,
                     server_nonce |-> hs.server_nonce,
                     under |-> dh_derive_temp_aes(hs.new_nonce, hs.server_nonce),
                     g_b |-> PowMod[b][hs.g]]
          /\ UNCHANGED server
    BY <1>7, Zenon DEF auth_step_set_client_dh
  <2>2. net'.type = "set_client_DH_params" /\ net'.g_b = PowMod[b][hs.g]
    BY <2>1
  <2>3. /\ DOMAIN hs' = DOMAIN NoCtx /\ hs'.pc = "dh_gen" /\ hs'.b = b /\ hs'.g = hs.g
        /\ hs'.g_a = hs.g_a /\ hs'.new_nonce = hs.new_nonce
    BY <1>0, <2>1, CtxFields
  <2>4. SameGroup' /\ hs'.b \in Nat
    BY <2>1, <2>3, NumbersAssumption DEF DhInv, SameGroup
  <2> QED BY <1>0, <2>1, <2>2, <2>3, <2>4 DEF DhInv, AcceptanceFits
<1>8. CASE dh_gen /\ ~Fail
  <2>1. hs' = [hs EXCEPT !.pc = "done"] /\ net' = Empty /\ UNCHANGED server
    BY <1>8, Zenon DEF dh_gen
  <2> QED BY <1>0, <2>1, CtxFields, EarlyStep
<1> QED BY <1>1, <1>2, <1>3, <1>4, <1>5, <1>6, <1>7, <1>8 DEF Client, ConnectionLost

\* The answers of the server.
LEMMA ServerDh == ASSUME DhInv, Server PROVE DhInv'
<1>0. /\ DOMAIN hs = DOMAIN NoCtx /\ DOMAIN server = DOMAIN NoServer /\ server.a \in Nat
  BY DEF DhInv
<1>1. CASE ServeResPQ
  <2>1. PICK pq \in PQs, n \in {hs.nonce, Other}, known \in BOOLEAN,
             count \in {MAX_FP_COUNT, MAX_FP_COUNT + 1} :
          /\ net.type = "req_pq_multi"
          /\ server' = [NoServer EXCEPT !.pq = pq]
          /\ net' = [type |-> "resPQ", nonce |-> n, pq |-> pq, our_fp |-> known,
                     server_nonce |-> ServerNonce, fp_count |-> count]
          /\ UNCHANGED hs
    BY <1>1, Zenon DEF ServeResPQ
  <2>2. net'.type = "resPQ" /\ DOMAIN server' = DOMAIN NoServer /\ server'.a = 0
    BY <2>1, ServerFields
  <2>3. hs.pc = "resPQ"
    BY <2>1 DEF DhInv
  <2> QED BY <1>0, <2>1, <2>2, <2>3, EarlyStep
<1>2. CASE ServeDH
  <2>1. PICK a \in Exponents, g \in Gs, n, in \in {net.nonce, Other},
             sn, isn \in {net.server_nonce, Other} :
          /\ server' = [server EXCEPT !.a = a, !.new_nonce = net.new_nonce]
          /\ net' = DHParams(n, sn, <<in, isn>>, g, PowMod[a][g])
    BY <1>2, Zenon DEF ServeDH
  <2>2. /\ DOMAIN server' = DOMAIN NoServer /\ server'.a = a /\ a \in Nat /\ g \in Nat
        /\ server'.new_nonce = net.new_nonce
    BY <1>0, <2>1, ServerFields, NumbersAssumption
  <2>3. \/ net'.type = "server_DH_params_fail"
        \/ /\ net'.type = "server_DH_params_ok" /\ net'.under[1] = net.new_nonce
           /\ net'.g = g /\ net'.g_a = PowMod[a][g]
    BY <2>1 DEF DHParams, dh_derive_temp_aes
  <2>4. hs.pc = "parse_dh" /\ UNCHANGED hs
    BY <1>2, Zenon DEF DhInv, ServeDH
  <2> QED BY <1>0, <2>2, <2>3, <2>4, EarlyStep
<1>3. CASE ServeGen
  <2> DEFINE key == PowMod[server.a][net.g_b]
  <2> HIDE DEF key
  <2>1. PICK type \in {"dh_gen_ok", "dh_gen_retry", "dh_gen_fail"}, n \in {hs.nonce, Other} :
          /\ net' = [type |-> type, nonce |-> n,
                     hash |-> <<server.new_nonce, IF type = "dh_gen_ok" THEN 1 ELSE 2, key>>]
          /\ server' = [server EXCEPT !.key = IF type = "dh_gen_ok" THEN key ELSE 0]
    BY <1>3, Zenon DEF ServeGen, key
  <2>2. net.type = "set_client_DH_params" /\ UNCHANGED hs
    BY <1>3, Zenon DEF ServeGen
  <2>3. hs.pc = "dh_gen" /\ hs.b \in Nat /\ SameGroup /\ net.g_b = PowMod[hs.b][hs.g]
    BY <2>2 DEF DhInv
  <2>4. /\ DOMAIN server' = DOMAIN NoServer /\ server'.a = server.a
        /\ server'.new_nonce = server.new_nonce
    BY <1>0, <2>1, ServerFields, SMTT(20)
  <2>5. key = PowMod[hs.b][hs.g_a]
    <3>1. PowMod[hs.b][PowMod[server.a][hs.g]] = PowMod[server.a][PowMod[hs.b][hs.g]]
      BY <1>0, <2>3, PowCommutes DEF SameGroup
    <3> QED BY <2>3, <3>1 DEF key, SameGroup
  <2>6. net'.type = type /\ (type = "dh_gen_ok" => net'.hash = <<server.new_nonce, 1, key>>)
    BY <2>1
  <2>7. SameGroup'
    BY <2>2, <2>3, <2>4, SMTT(20) DEF SameGroup
  <2>8. AcceptanceFits'
    BY <2>2, <2>3, <2>5, <2>6, SMTT(20) DEF AcceptanceFits, GoodGen, SameGroup
  <2> QED BY <1>0, <2>2, <2>3, <2>4, <2>6, <2>7, <2>8 DEF DhInv
<1> QED BY <1>1, <1>2, <1>3 DEF Server

(***************************************************************************)
(* The two sides of auth_step_set_client_dh compute the same key, so that  *)
(* an acceptance for this exchange always passes the client's comparison,  *)
(* for every group, generator and pair of exponents.                       *)
(***************************************************************************)
THEOREM AcceptanceAlwaysFits == HSpec => []AcceptanceFits
<1>1. HInit => DhInv
  BY CtxFields, ServerFields, SMTT(20) DEF HInit, DhInv, AcceptanceFits
<1>2. DhInv /\ [HNext]_hvars => DhInv'
  <2> SUFFICES ASSUME DhInv, [HNext]_hvars PROVE DhInv'
    OBVIOUS
  <2>1. CASE UNCHANGED hvars
    BY <2>1 DEF hvars, DhInv, SameGroup, AcceptanceFits, GoodGen
  <2> QED BY <2>1, ClientDh, ServerDh DEF HNext
<1>3. DhInv => AcceptanceFits
  BY DEF DhInv
<1> QED BY <1>1, <1>2, <1>3, PTL DEF HSpec
=============================================================================
