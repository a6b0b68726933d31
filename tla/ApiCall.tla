------------------------------- MODULE ApiCall -------------------------------
(***************************************************************************)
(* infrastructure/api_call.c over infrastructure/mtproto_rpc.c: one client *)
(* thread makes API calls, one after the other, on one connection to a DC. *)
(* The connection is a TCP stream, so frames arrive in order; the server   *)
(* answers each message it reads, rotates its salt and may send service    *)
(* frames at any time.  What a server may do beyond that is the constant   *)
(* Extra.                                                                  *)
(***************************************************************************)
EXTENDS Integers, Sequences, FiniteSets

CONSTANTS Salt,        \* server salts, in the order the server uses them
          Extra,       \* subset of {"push", "nested", "flood"}
          Limit,       \* SERVICE_FRAME_LIMIT
          MaxCalls,    \* bound: API calls made
          MaxQueue     \* bound: frames under way when the server sends more

ASSUME ExtraAssumption == Extra \subseteq {"push", "nested", "flood"}
ASSUME BoundAssumption ==
  /\ Salt \subseteq Nat
  /\ Limit \in Nat \ {0} /\ MaxCalls \in Nat /\ MaxQueue \in Nat

VARIABLES pc,          \* "idle", "send" (about to call api_call_once), "recv"
          call,        \* number of api_call calls made
          tries,       \* api_call_once calls within this api_call
          attempt,     \* frames drained in this api_call_once
          salt,        \* s->server_salt
          ret,         \* what the last api_call returned
          wire,        \* every message sent, oldest first
          down,        \* frames sent by the server and not yet read
          srvSalt,     \* the salt the server accepts
          srvPos,      \* messages of wire the server has read
          executed,    \* messages of wire the server has executed
          callSalt,    \* srvSalt when this call began
          link         \* the TCP connection: "up" or "down"

client == <<pc, call, tries, attempt, salt, ret, wire>>
server == <<srvSalt, srvPos, executed, callSalt>>
vars == <<pc, call, tries, attempt, salt, ret, wire, down,
          srvSalt, srvPos, executed, callSalt, link>>

(***************************************************************************)
(* Frames.  A frame is a bare message or a msg_container; inner holds the  *)
(* places of the messages that sit in a container within the container.    *)
(* "malformed" is a message classify_service_frame or rpc_parse_container  *)
(* rejects; a result with ok = FALSE is one that rpc_unwrap_gzip rejects.  *)
(***************************************************************************)
Result(n, ok) == [k |-> "result", req |-> n, ok |-> ok]
BadSalt(s) == [k |-> "bad_server_salt", salt |-> s]
NewSession(s) == [k |-> "new_session_created", salt |-> s]
Plain(k) == [k |-> k]

Bare(m) == [container |-> FALSE, msgs |-> <<m>>, inner |-> {}]
Container(ms) == [container |-> TRUE, msgs |-> ms, inner |-> {}]
Nested(ms, inner) == [container |-> TRUE, msgs |-> ms, inner |-> inner]

\* classify_service_frame that does not know bad_msg_notification.
ClassNoBadMsg(m) ==
  CASE m.k = "bad_server_salt"                              -> "SVC_BAD_SALT"
    [] m.k = "malformed"                                    -> "SVC_ERROR"
    [] m.k \in {"new_session_created", "msgs_ack", "pong"}  -> "SVC_SKIP"
    [] OTHER                                                -> "SVC_RESULT"

\* The classes of classify_service_frame for a message outside a container.
Class(m) ==
  CASE m.k = "bad_server_salt"                              -> "SVC_BAD_SALT"
    [] m.k \in {"bad_msg_notification", "malformed"}        -> "SVC_ERROR"
    [] m.k \in {"new_session_created", "msgs_ack", "pong"}  -> "SVC_SKIP"
    [] OTHER                                                -> "SVC_RESULT"

\* The messages of a frame that classify_service_frame gets to: it walks a
\* container in order and returns at the first error or bad salt.
Seen(f) ==
  {i \in 1 .. Len(f.msgs) :
     \A j \in 1 .. i - 1 : Class(f.msgs[j]) \notin {"SVC_ERROR", "SVC_BAD_SALT"}}

FrameClass(f) ==
  LET seen == {Class(f.msgs[i]) : i \in Seen(f)} IN
  IF "SVC_ERROR" \in seen THEN "SVC_ERROR"
  ELSE IF "SVC_BAD_SALT" \in seen THEN "SVC_BAD_SALT"
  ELSE IF "SVC_RESULT" \in seen THEN "SVC_RESULT" ELSE "SVC_SKIP"

\* classify_service_frame that keeps the old salt.
SaltAfterIgnored(s, f) == s

\* s->server_salt afterwards: the last salt among the messages it got to.
SaltAfter(s, f) ==
  LET carriers == {i \in Seen(f) :
                     f.msgs[i].k \in {"bad_server_salt", "new_session_created"}} IN
  IF carriers = {} THEN s
  ELSE f.msgs[CHOOSE i \in carriers : \A j \in carriers : j <= i].salt

\* The payload api_call_once unwraps: the first rpc_result directly in the
\* container, else the whole frame.
Payload(f) ==
  LET results == {i \in 1 .. Len(f.msgs) : i \notin f.inner /\ f.msgs[i].k = "result"} IN
  CASE ~f.container              -> f.msgs[1]
    [] f.container /\ results # {} ->
         f.msgs[CHOOSE i \in results : \A j \in results : i <= j]
    [] OTHER                     -> Plain("container")

\* rpc_unwrap_gzip passes everything but a corrupt gzip_packed result.
Unwraps(m) == m.k = "result" => m.ok

NotReturned == [rc |-> 0, why |-> "none", payload |-> Plain("none")]

-----------------------------------------------------------------------------
Init ==
  /\ pc = "idle" /\ call = 0 /\ tries = 0 /\ attempt = 0
  /\ salt \in Salt \cup {0}
  /\ ret = NotReturned
  /\ wire = << >> /\ down = << >>
  /\ srvSalt \in Salt /\ salt <= srvSalt
  /\ srvPos = 0 /\ executed = {} /\ callSalt = srvSalt
  /\ link = "up"

\* api_call is entered.
api_call ==
  /\ pc = "idle"
  /\ call < MaxCalls
  /\ pc' = "send" /\ call' = call + 1 /\ tries' = 1 /\ attempt' = 0
  /\ ret' = NotReturned
  /\ callSalt' = srvSalt
  /\ UNCHANGED <<salt, wire, down, srvSalt, srvPos, executed, link>>

Return(rc, why, payload) ==
  /\ pc' = "idle" /\ tries' = 0 /\ attempt' = 0
  /\ ret' = [rc |-> rc, why |-> why, payload |-> payload]

Fail(why) == Return(-1, why, Plain("none"))

\* api_call_once up to rpc_send_encrypted; on a dead connection the first
\* send may still be accepted by the kernel.
Send ==
  /\ pc = "send"
  /\ \/ /\ wire' = Append(wire, [call |-> call, salt |-> salt])
        /\ pc' = "recv" /\ attempt' = 0
        /\ UNCHANGED <<ret, tries>>
     \/ /\ link = "down"
        /\ Fail("send")
        /\ UNCHANGED wire
  /\ UNCHANGED <<call, salt, down, server, link>>

\* A receive that is tried again after the peer closed the connection.
RecvClosedAgain ==
  /\ pc = "recv" /\ down = << >> /\ link = "down"
  /\ UNCHANGED vars

\* rpc_recv_encrypted fails: the peer closed the connection.
RecvClosed ==
  /\ pc = "recv" /\ down = << >> /\ link = "down"
  /\ Fail("recv")
  /\ UNCHANGED <<call, salt, wire, down, server, link>>

\* A bad_server_salt: api_call retries once with the new salt.
BadServerSalt ==
  IF tries = 1
  THEN pc' = "send" /\ tries' = 2 /\ attempt' = 0 /\ UNCHANGED ret
  ELSE Fail("bad_salt_again")

\* The drain loop that falls through to the unwrapping when it is over.
SkipFallsThrough ==
  IF attempt + 1 < Limit
  THEN attempt' = attempt + 1 /\ UNCHANGED <<pc, tries, ret>>
  ELSE Return(0, "ok", Payload(Head(down)))

\* The drain loop with no limit.
SkipForever ==
  attempt' = attempt /\ UNCHANGED <<pc, tries, ret>>

\* SVC_SKIP: receive again, up to SERVICE_FRAME_LIMIT frames.
Skip ==
  IF attempt + 1 < Limit
  THEN attempt' = attempt + 1 /\ UNCHANGED <<pc, tries, ret>>
  ELSE Fail("drained")

\* The rest of api_call_once: unwrap the payload and hand it to the caller,
\* whatever request it answers.
Deliver(f) ==
  IF Unwraps(Payload(f)) THEN Return(0, "ok", Payload(f)) ELSE Fail("unwrap")

\* api_call that treats an error frame like a bad salt.
RecvRetriesErrors ==
  /\ pc = "recv" /\ down # << >>
  /\ LET f == Head(down) IN
     /\ salt' = SaltAfter(salt, f)
     /\ CASE FrameClass(f) \in {"SVC_ERROR", "SVC_BAD_SALT"} -> BadServerSalt
          [] FrameClass(f) = "SVC_SKIP"     -> Skip
          [] FrameClass(f) = "SVC_RESULT"   -> Deliver(f)
  /\ down' = Tail(down)
  /\ UNCHANGED <<call, wire, server, link>>

\* One turn of the drain loop of api_call_once.
Recv ==
  /\ pc = "recv" /\ down # << >>
  /\ LET f == Head(down) IN
     /\ salt' = SaltAfter(salt, f)
     /\ CASE FrameClass(f) = "SVC_ERROR"    -> Fail("error")
          [] FrameClass(f) = "SVC_BAD_SALT" -> BadServerSalt
          [] FrameClass(f) = "SVC_SKIP"     -> Skip
          [] FrameClass(f) = "SVC_RESULT"   -> Deliver(f)
  /\ down' = Tail(down)
  /\ UNCHANGED <<call, wire, server, link>>

Client == Send \/ RecvClosed \/ Recv

-----------------------------------------------------------------------------
\* The ways a server packs the answer to message n.
Answers(n) ==
  {Bare(Result(n, TRUE)), Bare(Result(n, FALSE)), Bare(Plain("malformed")),
   Container(<<NewSession(srvSalt), Result(n, TRUE), Plain("msgs_ack")>>)}
    \cup (IF "push" \in Extra
          THEN {Container(<<Plain("updates"), Result(n, TRUE)>>)} ELSE {})
    \cup (IF "nested" \in Extra
          THEN {Nested(<<Plain("msgs_ack"), Result(n, TRUE)>>, {2})} ELSE {})

\* The server reads the next message.  A wrong salt, or a msg_id or seq_no
\* it does not accept, is refused; anything else is executed and answered.
Answer ==
  /\ link = "up" /\ srvPos < Len(wire)
  /\ srvPos' = srvPos + 1
  /\ \/ /\ wire[srvPos'].salt # srvSalt
        /\ down' = Append(down, Bare(BadSalt(srvSalt)))
        /\ UNCHANGED executed
     \/ /\ wire[srvPos'].salt = srvSalt
        /\ down' = Append(down, Bare(Plain("bad_msg_notification")))
        /\ UNCHANGED executed
     \/ /\ wire[srvPos'].salt = srvSalt
        /\ executed' = executed \cup {srvPos'}
        /\ \E f \in Answers(srvPos') : down' = Append(down, f)
  /\ UNCHANGED <<client, srvSalt, callSalt, link>>

\* Room for a frame that answers nothing.  Unless it floods, the server has
\* fewer than SERVICE_FRAME_LIMIT of them under way at any time.
Room ==
  /\ link = "up"
  /\ Len(down) < MaxQueue
  /\ "flood" \in Extra \/ attempt + Len(down) + 1 < Limit

\* A service frame.
Service ==
  /\ Room
  /\ \E m \in {Plain("msgs_ack"), Plain("pong"), NewSession(srvSalt)} :
       \E f \in {Bare(m), Container(<<m>>)} : down' = Append(down, f)
  /\ UNCHANGED <<client, server, link>>

\* The server pushes an update the client did not ask for.
Push ==
  /\ "push" \in Extra
  /\ Room
  /\ down' = Append(down, Bare(Plain("updates")))
  /\ UNCHANGED <<client, server, link>>

\* A new salt; salts do not come back.
Rotate ==
  /\ \E s \in Salt : s > srvSalt /\ srvSalt' = s
  /\ UNCHANGED <<client, down, srvPos, executed, callSalt, link>>

\* The server or the network closes the connection; frames under way may be
\* lost with it.
Close ==
  /\ link = "up"
  /\ link' = "down"
  /\ \E n \in 0 .. Len(down) : down' = SubSeq(down, 1, n)
  /\ UNCHANGED <<client, server>>

Next == api_call \/ Client \/ Answer \/ Service \/ Push \/ Rotate \/ Close

Spec == Init /\ [][Next]_vars

\* The client thread runs, and the server answers what it has read.
FairSpec == Spec /\ WF_vars(Client) /\ WF_vars(Answer)

\* The client thread runs; the server keeps sending service frames.
FloodSpec == Spec /\ WF_vars(Client) /\ WF_vars(Service)

-----------------------------------------------------------------------------
Leaf ==
  [k : {"result"}, req : Nat, ok : BOOLEAN]
    \cup [k : {"bad_server_salt", "new_session_created"}, salt : Salt]
    \cup [k : {"msgs_ack", "pong", "updates", "bad_msg_notification", "malformed"}]

Frame == [container : BOOLEAN, msgs : Seq(Leaf), inner : SUBSET Nat]

\* Every variable has its type; a call makes one or two attempts, and an
\* attempt drains fewer than SERVICE_FRAME_LIMIT frames.
TypeOK ==
  /\ pc \in {"idle", "send", "recv"}
  /\ call \in Nat /\ tries \in 0 .. 2 /\ attempt \in 0 .. Limit - 1
  /\ salt \in Salt \cup {0} /\ srvSalt \in Salt
  /\ ret \in [rc : {0, -1},
              why : {"none", "ok", "send", "recv", "error", "drained", "unwrap",
                     "bad_salt_again"},
              payload : Leaf \cup {Plain("none"), Plain("container")}]
  /\ wire \in Seq([call : Nat, salt : Salt \cup {0}])
  /\ down \in Seq(Frame)
  /\ srvPos \in 0 .. Len(wire) /\ executed \subseteq 1 .. srvPos
  /\ callSalt \in Salt /\ link \in {"up", "down"}

\* What api_call returns with 0 is the answer of the server to a message
\* this very call sent (api_call_once never compares req_msg_id with the id
\* it sent, so this rests on the stream being in step).
ResponseMatches ==
  ret.why = "ok" =>
    /\ ret.payload.k = "result"
    /\ wire[ret.payload.req].call = call

\* When no call is under way on a live connection, nothing that the next
\* call could take for its own outcome is left to read: every message sent
\* was answered and the answer consumed, on every error path too.
InStep ==
  pc = "idle" /\ link = "up" =>
    /\ srvPos = Len(wire)
    /\ \A i \in 1 .. Len(down) : FrameClass(down[i]) = "SVC_SKIP"

\* The salt retry never makes the server execute one call twice.
AtMostOnce ==
  \A m, n \in executed : wire[m].call = wire[n].call => m = n

\* A call that returned 0 was executed: exactly one of its messages was.
SuccessIsExecuted ==
  ret.why = "ok" => \E n \in executed : wire[n].call = call

\* One retry is enough for one salt change: a call gives up on a second
\* bad_server_salt only if the server changed salts again while it ran.
SaltRetrySuffices ==
  ret.why = "bad_salt_again" => srvSalt # callSalt

\* Whatever the server sends, a bare service frame is never handed to the
\* caller as a result (the guard after the drain loop of api_call_once).
ServiceNeverSurfaced ==
  ret.why = "ok" => ret.payload.k \in {"result", "updates", "container"}

\* Every call returns.
CallReturns == pc # "idle" ~> pc = "idle"
=============================================================================
