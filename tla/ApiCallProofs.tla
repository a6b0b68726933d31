---------------------------- MODULE ApiCallProofs ----------------------------
(***************************************************************************)
(* Proofs about calls (ApiCall).  First with a quiet server: one that      *)
(* sends nothing the client did not ask for but service frames, and fewer  *)
(* of those than SERVICE_FRAME_LIMIT.  Then with any server.               *)
(***************************************************************************)
EXTENDS ApiCall, WellFoundedInduction, TLAPS

\* The frames a quiet server sends.
Notice == {Plain("msgs_ack"), Plain("pong")} \cup {NewSession(s) : s \in Salt}
SkipFrames == {Bare(m) : m \in Notice} \cup {Container(<<m>>) : m \in Notice}
SaltFrames == {Bare(BadSalt(s)) : s \in Salt}
ErrorFrames == {Bare(Plain("bad_msg_notification")), Bare(Plain("malformed"))}
GoodFrames(n) ==
  {Bare(Result(n, TRUE))}
    \cup {Container(<<NewSession(s), Result(n, TRUE), Plain("msgs_ack")>>) : s \in Salt}
CorruptFrames(n) == {Bare(Result(n, FALSE))}
AnswerFrames(n) ==
  SaltFrames \cup ErrorFrames \cup GoodFrames(n) \cup CorruptFrames(n)

\* The shape of the state.
Shape ==
  /\ pc \in {"idle", "send", "recv"}
  /\ call \in Nat /\ tries \in 0 .. 2 /\ attempt \in Nat
  /\ salt \in Salt \cup {0} /\ srvSalt \in Salt
  /\ wire \in Seq([call : Nat, salt : Salt \cup {0}])
  /\ down \in Seq(SkipFrames \cup AnswerFrames(Len(wire)))
  /\ srvPos \in Nat /\ srvPos <= Len(wire)
  /\ executed \subseteq 1 .. srvPos
  /\ callSalt \in Salt /\ callSalt <= srvSalt /\ link \in {"up", "down"}
  /\ pc = "recv" => Len(wire) > 0 /\ wire[Len(wire)].call = call
  /\ pc # "recv" => attempt = 0
  /\ pc # "idle" => tries \in {1, 2} /\ ret = NotReturned
  /\ \A n \in 1 .. Len(wire) : wire[n].call <= call

\* Where the answer to the last message is.
Stream ==
  /\ \A i \in 1 .. Len(down) : down[i] \notin SkipFrames =>
       /\ pc = "recv" /\ srvPos = Len(wire)
       /\ attempt + i <= Limit
       /\ \A j \in 1 .. Len(down) : j # i => down[j] \in SkipFrames
       /\ down[i] \in SaltFrames => Len(wire) \notin executed
       /\ down[i] \in GoodFrames(Len(wire)) => Len(wire) \in executed
  /\ link = "up" =>
       \/ /\ pc # "recv" /\ srvPos = Len(wire)
          /\ attempt + Len(down) < Limit
       \/ /\ pc = "recv" /\ srvPos = Len(wire) - 1
          /\ attempt + Len(down) < Limit
       \/ /\ pc = "recv" /\ srvPos = Len(wire)
          /\ attempt + Len(down) <= Limit
          /\ \E i \in 1 .. Len(down) : down[i] \notin SkipFrames

\* What the server has executed.
Executions ==
  /\ pc = "send" => \A n \in executed : wire[n].call # call
  /\ pc = "recv" => \A n \in executed : n # Len(wire) => wire[n].call # call
  /\ AtMostOnce

\* The salts under way.
Salts ==
  srvSalt = callSalt =>
    /\ pc = "send" /\ tries = 2 => salt = srvSalt
    /\ pc = "recv" /\ tries = 2 => wire[Len(wire)].salt = srvSalt
    /\ \A i \in 1 .. Len(down) : down[i] \in SaltFrames =>
         down[i] = Bare(BadSalt(srvSalt)) /\ tries = 1

\* What the last call returned.
Returned == ResponseMatches /\ SuccessIsExecuted /\ SaltRetrySuffices

QuietInv == Shape /\ Stream /\ Executions /\ Salts /\ Returned

-----------------------------------------------------------------------------
\* A bare message is seen whole.
LEMMA BareSeen == \A m : Seen(Bare(m)) = {1} /\ Bare(m).msgs[1] = m
BY DEF Seen, Bare

\* The classes of classify_service_frame.
LEMMA BareClass == \A m : Class(m) \in {"SVC_ERROR", "SVC_BAD_SALT", "SVC_RESULT", "SVC_SKIP"}
                          => FrameClass(Bare(m)) = Class(m)
<1> SUFFICES ASSUME NEW m,
                    Class(m) \in {"SVC_ERROR", "SVC_BAD_SALT", "SVC_RESULT", "SVC_SKIP"}
             PROVE  FrameClass(Bare(m)) = Class(m)
  OBVIOUS
<1>1. {Class(Bare(m).msgs[i]) : i \in Seen(Bare(m))} = {Class(m)}
  BY BareSeen
<1> QED
  BY <1>1 DEF FrameClass

\* A result is passed on.
LEMMA ResultClass ==
  \A m : Class(m) = "SVC_RESULT" => FrameClass(Bare(m)) = "SVC_RESULT"
BY BareClass

\* A notice is skipped.
LEMMA NoticeClass ==
  ASSUME NEW m \in Notice PROVE Class(m) = "SVC_SKIP"
BY DEF Notice, Plain, NewSession, Class

\* A service frame is skipped and at most brings a salt.
LEMMA SkipFacts ==
  ASSUME NEW f \in SkipFrames, NEW s
  PROVE  /\ FrameClass(f) = "SVC_SKIP"
         /\ SaltAfter(s, f) \in Salt \cup {s}
<1>1. PICK m \in Notice : f = Bare(m) \/ f = Container(<<m>>)
  BY DEF SkipFrames
<1>2. Seen(f) = {1} /\ f.msgs[1] = m
  BY <1>1 DEF Seen, Bare, Container
<1>3. {Class(f.msgs[i]) : i \in Seen(f)} = {"SVC_SKIP"}
  BY <1>2, NoticeClass
<1>4. FrameClass(f) = "SVC_SKIP"
  BY <1>3 DEF FrameClass
<1>5. SaltAfter(s, f) \in Salt \cup {s}
  <2> DEFINE carriers == {i \in Seen(f) :
                     f.msgs[i].k \in {"bad_server_salt", "new_session_created"}}
  <2>1. CASE carriers = {}
    BY <2>1 DEF SaltAfter
  <2>2. CASE carriers # {}
    <3>1. carriers = {1}
      BY <2>2, <1>2
    <3>2. (CHOOSE i \in carriers : \A j \in carriers : j <= i) = 1
      BY <3>1
    <3>3. m.k \in {"bad_server_salt", "new_session_created"}
      BY <3>1, <1>2
    <3>4. m.salt \in Salt
      BY <3>3 DEF Notice, Plain, NewSession
    <3> QED
      BY <2>2, <3>2, <3>4, <1>2 DEF SaltAfter
  <2> QED
    BY <2>1, <2>2
<1> QED
  BY <1>4, <1>5

\* A bad_server_salt brings the salt to retry with.
LEMMA SaltFacts ==
  ASSUME NEW x, NEW s
  PROVE  /\ FrameClass(Bare(BadSalt(x))) = "SVC_BAD_SALT"
         /\ SaltAfter(s, Bare(BadSalt(x))) = x
<1> DEFINE f == Bare(BadSalt(x))
<1>1. Class(BadSalt(x)) = "SVC_BAD_SALT"
  BY DEF Class, BadSalt
<1>2. Seen(f) = {1} /\ f.msgs[1] = BadSalt(x)
  BY BareSeen
<1> DEFINE carriers == {i \in Seen(f) :
                     f.msgs[i].k \in {"bad_server_salt", "new_session_created"}}
<1>3. carriers = {1}
  BY <1>2 DEF BadSalt
<1>4. (CHOOSE i \in carriers : \A j \in carriers : j <= i) = 1
  BY <1>3
<1>5. SaltAfter(s, f) = f.msgs[CHOOSE i \in carriers : \A j \in carriers : j <= i].salt
  BY <1>3 DEF SaltAfter
<1>6. SaltAfter(s, f) = x
  BY <1>2, <1>4, <1>5 DEF BadSalt
<1> QED
  BY <1>1, <1>6, BareClass

\* Frames that end a call with an error.
LEMMA ErrorFacts ==
  ASSUME NEW f \in ErrorFrames, NEW s
  PROVE  /\ FrameClass(f) = "SVC_ERROR"
         /\ SaltAfter(s, f) = s
<1>1. PICK m \in {Plain("bad_msg_notification"), Plain("malformed")} : f = Bare(m)
  BY DEF ErrorFrames
<1>2. Class(m) = "SVC_ERROR"
  BY DEF Class, Plain
<1>3. {i \in Seen(f) : f.msgs[i].k \in {"bad_server_salt", "new_session_created"}} = {}
  BY <1>1, BareSeen DEF Plain
<1> QED
  BY <1>1, <1>2, <1>3, BareClass DEF SaltAfter

\* A result that does not decode.
LEMMA CorruptFacts ==
  ASSUME NEW n, NEW f \in CorruptFrames(n), NEW s
  PROVE  /\ FrameClass(f) = "SVC_RESULT"
         /\ SaltAfter(s, f) = s
         /\ ~Unwraps(Payload(f))
<1>1. f = Bare(Result(n, FALSE))
  BY DEF CorruptFrames
<1>2. Class(Result(n, FALSE)) = "SVC_RESULT"
  BY DEF Class, Result
<1>3. {i \in Seen(f) : f.msgs[i].k \in {"bad_server_salt", "new_session_created"}} = {}
  BY <1>1, BareSeen DEF Result
<1>4. Payload(f) = Result(n, FALSE)
  BY <1>1 DEF Payload, Bare
<1>5. ~Unwraps(Payload(f))
  BY <1>4 DEF Unwraps, Result
<1> QED
  <2>1. FrameClass(f) = "SVC_RESULT"
    BY <1>1, <1>2, ResultClass, Zenon
  <2>2. SaltAfter(s, f) = s
    BY <1>3 DEF SaltAfter
  <2> QED
    BY <2>1, <2>2, <1>5

\* The answers to a call.
LEMMA GoodFacts ==
  ASSUME NEW n, NEW f \in GoodFrames(n), NEW s
  PROVE  /\ FrameClass(f) = "SVC_RESULT"
         /\ SaltAfter(s, f) \in Salt \cup {s}
         /\ Payload(f) = Result(n, TRUE)
         /\ Unwraps(Payload(f))
<1>0. Unwraps(Result(n, TRUE))
  BY DEF Unwraps, Result
<1>1. CASE f = Bare(Result(n, TRUE))
  <2>1. Class(Result(n, TRUE)) = "SVC_RESULT"
    BY DEF Class, Result
  <2>2. {i \in Seen(f) : f.msgs[i].k \in {"bad_server_salt", "new_session_created"}} = {}
    BY <1>1, BareSeen DEF Result
  <2>3. Payload(f) = Result(n, TRUE)
    BY <1>1 DEF Payload, Bare
  <2>4. FrameClass(f) = "SVC_RESULT"
    BY <1>1, <2>1, ResultClass, Zenon
  <2>5. SaltAfter(s, f) = s
    BY <2>2 DEF SaltAfter
  <2> QED
    BY <1>0, <2>3, <2>4, <2>5
<1>2. ASSUME NEW t \in Salt,
             f = Container(<<NewSession(t), Result(n, TRUE), Plain("msgs_ack")>>)
      PROVE  /\ FrameClass(f) = "SVC_RESULT"
             /\ SaltAfter(s, f) \in Salt \cup {s}
             /\ Payload(f) = Result(n, TRUE)
  <2>1. /\ Len(f.msgs) = 3 /\ f.container /\ f.inner = {}
        /\ f.msgs[1] = NewSession(t) /\ f.msgs[2] = Result(n, TRUE)
        /\ f.msgs[3] = Plain("msgs_ack")
    BY <1>2 DEF Container
  <2>2. /\ Class(f.msgs[1]) = "SVC_SKIP" /\ Class(f.msgs[2]) = "SVC_RESULT"
        /\ Class(f.msgs[3]) = "SVC_SKIP"
    BY <2>1 DEF Class, NewSession, Result, Plain
  <2>3. Seen(f) = {1, 2, 3}
    <3>1. \A i \in {1, 2, 3} : Class(f.msgs[i]) \notin {"SVC_ERROR", "SVC_BAD_SALT"}
      BY <2>2
    <3>2. 1 .. Len(f.msgs) = {1, 2, 3}
      BY <2>1
    <3>3. \A i \in {1, 2, 3} : \A j \in 1 .. i - 1 : j \in {1, 2, 3}
      OBVIOUS
    <3> QED
      BY <3>1, <3>2, <3>3 DEF Seen
  <2>4. {Class(f.msgs[i]) : i \in Seen(f)} = {"SVC_SKIP", "SVC_RESULT"}
    BY <2>2, <2>3
  <2>5. FrameClass(f) = "SVC_RESULT"
    BY <2>4 DEF FrameClass
  <2> DEFINE carriers == {i \in Seen(f) :
                     f.msgs[i].k \in {"bad_server_salt", "new_session_created"}}
  <2>6. carriers = {1}
    BY <2>1, <2>3 DEF NewSession, Result, Plain
  <2>7. (CHOOSE i \in carriers : \A j \in carriers : j <= i) = 1
    BY <2>6
  <2>8. SaltAfter(s, f) = f.msgs[CHOOSE i \in carriers : \A j \in carriers : j <= i].salt
    BY <2>6 DEF SaltAfter
  <2>9. SaltAfter(s, f) = t
    <3>1. SaltAfter(s, f) = NewSession(t).salt
      BY <2>1, <2>7, <2>8
    <3> QED
      BY <3>1 DEF NewSession
  <2> DEFINE results == {i \in 1 .. Len(f.msgs) : i \notin f.inner /\ f.msgs[i].k = "result"}
  <2>10. results = {2}
    BY <2>1 DEF NewSession, Result, Plain
  <2>11. (CHOOSE i \in results : \A j \in results : i <= j) = 2
    BY <2>10
  <2>12. Payload(f) = f.msgs[CHOOSE i \in results : \A j \in results : i <= j]
    BY <2>1, <2>10 DEF Payload
  <2> QED
    BY <2>1, <2>5, <2>9, <2>11, <2>12
<1> QED
  BY <1>0, <1>1, <1>2 DEF GoodFrames

\* The classes tell the frames apart.
LEMMA Apart ==
  ASSUME NEW n, NEW f \in AnswerFrames(n)
  PROVE  /\ f \notin SkipFrames
         /\ f \in SaltFrames <=> FrameClass(f) = "SVC_BAD_SALT"
         /\ f \in ErrorFrames <=> FrameClass(f) = "SVC_ERROR"
         /\ f \in GoodFrames(n) \cup CorruptFrames(n) <=> FrameClass(f) = "SVC_RESULT"
         /\ f \in GoodFrames(n) => f \notin CorruptFrames(n)
<1>1. f \in SaltFrames => FrameClass(f) = "SVC_BAD_SALT"
  BY SaltFacts DEF SaltFrames
<1>2. f \in ErrorFrames => FrameClass(f) = "SVC_ERROR"
  BY ErrorFacts
<1>3. f \in GoodFrames(n) => FrameClass(f) = "SVC_RESULT" /\ Unwraps(Payload(f))
  BY GoodFacts
<1>4. f \in CorruptFrames(n) => FrameClass(f) = "SVC_RESULT" /\ ~Unwraps(Payload(f))
  BY CorruptFacts
<1>5. f \in SkipFrames => FrameClass(f) = "SVC_SKIP"
  BY SkipFacts
<1> QED
  BY <1>1, <1>2, <1>3, <1>4, <1>5 DEF AnswerFrames

\* Sequences: appending,
LEMMA AppendFacts ==
  ASSUME NEW S, NEW q \in Seq(S), NEW e \in S
  PROVE  /\ Append(q, e) \in Seq(S)
         /\ Len(Append(q, e)) = Len(q) + 1
         /\ \A i \in 1 .. Len(q) : Append(q, e)[i] = q[i]
         /\ Append(q, e)[Len(q) + 1] = e
OBVIOUS

\* taking the head off,
LEMMA TailFacts ==
  ASSUME NEW S, NEW q \in Seq(S), q # << >>
  PROVE  /\ Tail(q) \in Seq(S)
         /\ Len(q) >= 1 /\ Len(Tail(q)) = Len(q) - 1
         /\ Head(q) = q[1] /\ q[1] \in S
         /\ \A i \in 1 .. Len(q) - 1 : Tail(q)[i] = q[i + 1]
OBVIOUS

\* prefixes,
LEMMA PrefixFacts ==
  ASSUME NEW S, NEW q \in Seq(S), NEW n \in 0 .. Len(q)
  PROVE  /\ SubSeq(q, 1, n) \in Seq(S)
         /\ Len(SubSeq(q, 1, n)) = n
         /\ \A i \in 1 .. n : SubSeq(q, 1, n)[i] = q[i]
OBVIOUS

\* A sequence over a set whose members all lie in another one.
LEMMA SeqIn ==
  ASSUME NEW S, NEW T, NEW q \in Seq(S), \A i \in 1 .. Len(q) : q[i] \in T
  PROVE  q \in Seq(T)
OBVIOUS

\* elements,
LEMMA SeqElem ==
  ASSUME NEW S, NEW q \in Seq(S)
  PROVE  Len(q) \in Nat /\ \A i \in 1 .. Len(q) : q[i] \in S
OBVIOUS

\* and wider sets of elements.
LEMMA SeqWider ==
  ASSUME NEW S, NEW T, NEW q \in Seq(S)
  PROVE  q \in Seq(S \cup T)
OBVIOUS

\* A notice is never taken for a new salt.
LEMMA SkipIsNoSalt == \A f \in SkipFrames : f \notin SaltFrames
<1> SUFFICES ASSUME NEW f \in SkipFrames, f \in SaltFrames PROVE FALSE
  OBVIOUS
<1>1. f \in AnswerFrames(0)
  BY DEF AnswerFrames
<1> QED
  BY <1>1, Apart

\* Nothing has been sent at first.
LEMMA InitQuiet == Init => QuietInv
<1> SUFFICES ASSUME Init PROVE QuietInv
  OBVIOUS
<1> USE BoundAssumption DEF Init, NotReturned
<1>1. Shape
  <2>1. /\ wire \in Seq([call : Nat, salt : Salt \cup {0}])
        /\ down \in Seq(SkipFrames \cup AnswerFrames(Len(wire)))
        /\ Len(wire) = 0
    OBVIOUS
  <2> QED
    BY <2>1 DEF Shape
<1>2. Stream
  BY DEF Stream
<1>3. Executions /\ Salts
  BY DEF Executions, Salts, AtMostOnce
<1>4. Returned
  BY DEF Returned, ResponseMatches, SuccessIsExecuted, SaltRetrySuffices
<1> QED
  BY <1>1, <1>2, <1>3, <1>4 DEF QuietInv

-----------------------------------------------------------------------------
\* Outside "recv" only service frames are under way.
LEMMA OnlySkips ==
  ASSUME QuietInv, pc # "recv"
  PROVE  \A i \in 1 .. Len(down) : down[i] \in SkipFrames
BY DEF QuietInv, Stream

\* The shape of the state, for the steps below.
LEMMA ShapeFacts ==
  ASSUME Shape
  PROVE  /\ Len(wire) \in Nat /\ Len(down) \in Nat
         /\ \A n \in 1 .. Len(wire) : wire[n].call \in Nat /\ wire[n].call <= call
<1>1. Len(wire) \in Nat
  BY SeqElem DEF Shape
<1>2. \A n \in 1 .. Len(wire) : wire[n] \in [call : Nat, salt : Salt \cup {0}]
  BY SeqElem DEF Shape
<1>3. \A r \in [call : Nat, salt : Salt \cup {0}] : r.call \in Nat
  OBVIOUS
<1>4. Len(down) \in Nat
  BY SeqElem DEF Shape
<1>5. \A n \in 1 .. Len(wire) : wire[n].call <= call
  BY DEF Shape
<1> QED
  BY <1>1, <1>2, <1>3, <1>4, <1>5

\* A call is entered.
LEMMA api_callQuiet ==
  ASSUME QuietInv, api_call PROVE QuietInv'
<1>0. /\ pc = "idle" /\ pc' = "send" /\ call' = call + 1 /\ tries' = 1
      /\ attempt' = 0 /\ ret' = NotReturned /\ callSalt' = srvSalt
      /\ salt' = salt /\ wire' = wire /\ down' = down /\ srvSalt' = srvSalt
      /\ srvPos' = srvPos /\ executed' = executed /\ link' = link
  BY DEF api_call
<1>1. Shape'
  <2>1. \A n \in 1 .. Len(wire') : wire'[n].call <= call'
    <3>1. call \in Nat
      BY DEF QuietInv, Shape
    <3> QED
      BY <1>0, <3>1, ShapeFacts DEF QuietInv
  <2> QED
    BY <1>0, <2>1, BoundAssumption DEF QuietInv, Shape
<1>2. Stream'
  BY <1>0, OnlySkips DEF QuietInv, Shape, Stream
<1>3. Executions'
  <2>1. \A n \in executed : wire[n].call # call + 1
    BY DEF QuietInv, Shape
  <2> QED
    BY <1>0, <2>1 DEF QuietInv, Executions, AtMostOnce
<1>4. Salts'
  BY <1>0, OnlySkips, SkipIsNoSalt DEF Salts
<1>5. Returned'
  BY <1>0 DEF Returned, ResponseMatches, SuccessIsExecuted, SaltRetrySuffices,
       NotReturned
<1> QED
  BY <1>1, <1>2, <1>3, <1>4, <1>5 DEF QuietInv

\* A failing call leaves no answer behind: what is under way is service
\* frames, and on a live connection the last message has been answered.
LEMMA FailQuiet ==
  ASSUME QuietInv, pc' = "idle", tries' = 0, attempt' = 0,
         ret'.why # "ok",
         ret'.why = "bad_salt_again" => srvSalt # callSalt,
         salt' \in Salt \cup {0},
         call' = call, wire' = wire, link' = link, srvSalt' = srvSalt,
         srvPos' = srvPos, executed' = executed, callSalt' = callSalt,
         down' \in Seq(SkipFrames),
         link = "up" => srvPos = Len(wire) /\ Len(down') < Limit
  PROVE  QuietInv'
<1>1. Len(down') \in Nat /\ \A i \in 1 .. Len(down') : down'[i] \in SkipFrames
  BY SeqElem
<1>2. Shape'
  <2>1. down' \in Seq(SkipFrames \cup AnswerFrames(Len(wire')))
    BY SeqWider
  <2>2. \A n \in 1 .. Len(wire') : wire'[n].call <= call'
    BY ShapeFacts DEF QuietInv
  <2> QED
    BY BoundAssumption, <2>1, <2>2 DEF QuietInv, Shape
<1>3. Stream'
  <2>1. attempt' + Len(down') < Limit \/ link # "up"
    BY BoundAssumption, <1>1
  <2> QED
    BY <1>1, <2>1 DEF Stream
<1>4. Executions'
  BY DEF QuietInv, Executions, AtMostOnce
<1>5. Salts'
  BY <1>1, SkipIsNoSalt DEF Salts
<1>6. Returned'
  BY DEF Returned, ResponseMatches, SuccessIsExecuted, SaltRetrySuffices
<1> QED
  BY <1>2, <1>3, <1>4, <1>5, <1>6 DEF QuietInv

\* A request is sent.
LEMMA SendQuiet ==
  ASSUME QuietInv, Send PROVE QuietInv'
<1>0. /\ pc = "send" /\ call' = call /\ salt' = salt /\ down' = down
      /\ srvSalt' = srvSalt /\ srvPos' = srvPos /\ executed' = executed
      /\ callSalt' = callSalt /\ link' = link
  BY DEF Send, server
<1>1. \A i \in 1 .. Len(down) : down[i] \in SkipFrames
  BY <1>0, OnlySkips
<1>2. down \in Seq(SkipFrames)
  BY <1>1, SeqIn DEF QuietInv, Shape
<1>3. CASE link = "down" /\ Fail("send") /\ wire' = wire
  <2>1. pc' = "idle" /\ tries' = 0 /\ attempt' = 0 /\ ret'.why = "send"
    BY <1>3 DEF Fail, Return
  <2>2. salt' \in Salt \cup {0}
    BY <1>0 DEF QuietInv, Shape
  <2> QED
    BY <1>0, <1>2, <1>3, <2>1, <2>2, FailQuiet
<1>4. CASE /\ wire' = Append(wire, [call |-> call, salt |-> salt])
           /\ pc' = "recv" /\ attempt' = 0
           /\ ret' = ret /\ tries' = tries
  <2>1. /\ wire' \in Seq([call : Nat, salt : Salt \cup {0}])
        /\ Len(wire') = Len(wire) + 1
        /\ \A n \in 1 .. Len(wire) : wire'[n] = wire[n]
        /\ wire'[Len(wire) + 1] = [call |-> call, salt |-> salt]
    <3>1. [call |-> call, salt |-> salt] \in [call : Nat, salt : Salt \cup {0}]
      BY DEF QuietInv, Shape
    <3> QED
      BY <1>4, <3>1, AppendFacts DEF QuietInv, Shape
  <2>2. Shape'
    <3>1. down' \in Seq(SkipFrames \cup AnswerFrames(Len(wire')))
      BY <1>0, <1>2, SeqWider
    <3>2. Len(wire) \in Nat
      BY DEF QuietInv, Shape
    <3>3. \A n \in 1 .. Len(wire') : wire'[n].call <= call'
      <4> SUFFICES ASSUME NEW n \in 1 .. Len(wire') PROVE wire'[n].call <= call
        BY <1>0
      <4>1. CASE n \in 1 .. Len(wire)
        BY <4>1, <2>1, ShapeFacts DEF QuietInv
      <4>2. CASE n = Len(wire) + 1
        <5>1. call \in Nat
          BY DEF QuietInv, Shape
        <5> QED
          BY <4>2, <5>1, <2>1
      <4> QED
        BY <4>1, <4>2, <2>1, <3>2
    <3> QED
      BY <1>0, <1>4, <2>1, <3>1, <3>2, <3>3 DEF QuietInv, Shape
  <2>3. Stream'
    BY <1>0, <1>1, <1>4, <2>1 DEF QuietInv, Shape, Stream
  <2>4. Executions'
    <3>1. \A n \in executed : n \in 1 .. Len(wire) /\ wire'[n] = wire[n]
      BY <2>1, ShapeFacts DEF QuietInv, Shape
    <3> QED
      BY <1>0, <1>4, <3>1 DEF QuietInv, Executions, AtMostOnce
  <2>5. Salts'
    BY <1>0, <1>1, <1>4, <2>1, SkipIsNoSalt DEF QuietInv, Shape, Salts
  <2>6. Returned'
    <3>1. ret' = NotReturned
      BY <1>0, <1>4 DEF QuietInv, Shape
    <3>2. ret'.why = "none"
      BY <3>1 DEF NotReturned
    <3> QED
      BY <3>2 DEF Returned, ResponseMatches, SuccessIsExecuted, SaltRetrySuffices
  <2> QED
    BY <2>2, <2>3, <2>4, <2>5, <2>6 DEF QuietInv
<1> QED
  BY <1>3, <1>4 DEF Send

\* The connection is found closed.
LEMMA RecvClosedQuiet ==
  ASSUME QuietInv, RecvClosed PROVE QuietInv'
<1>1. /\ down = << >> /\ link = "down" /\ call' = call /\ salt' = salt /\ down' = down
      /\ wire' = wire /\ srvSalt' = srvSalt /\ srvPos' = srvPos
      /\ executed' = executed /\ callSalt' = callSalt /\ link' = link
      /\ pc' = "idle" /\ tries' = 0 /\ attempt' = 0 /\ ret'.why = "recv"
  BY DEF RecvClosed, server, Fail, Return
<1>2. down' \in Seq(SkipFrames)
  BY <1>1
<1>3. salt' \in Salt \cup {0}
  BY <1>1 DEF QuietInv, Shape
<1> QED
  BY <1>1, <1>2, <1>3, FailQuiet

\* Reading a service frame.
LEMMA RecvSkip ==
  ASSUME QuietInv, Recv, down[1] \in SkipFrames PROVE QuietInv'
<1>0. /\ pc = "recv" /\ down # << >> /\ down' = Tail(down) /\ call' = call /\ wire' = wire
      /\ srvSalt' = srvSalt /\ srvPos' = srvPos /\ executed' = executed
      /\ callSalt' = callSalt /\ link' = link
  BY DEF Recv, server
<1> DEFINE S == SkipFrames \cup AnswerFrames(Len(wire))
<1>1. /\ down' \in Seq(S) /\ Len(down) \in Nat /\ Len(down) >= 1
      /\ Len(down') = Len(down) - 1 /\ Head(down) = down[1]
      /\ \A i \in 1 .. Len(down) - 1 : down'[i] = down[i + 1]
  BY <1>0, TailFacts, SeqElem DEF QuietInv, Shape
<1>2. /\ FrameClass(down[1]) = "SVC_SKIP"
      /\ SaltAfter(salt, down[1]) \in Salt \cup {salt}
  BY SkipFacts
<1>3. Skip /\ salt' \in Salt \cup {0}
  <2>1. Skip /\ salt' = SaltAfter(salt, down[1])
    BY <1>1, <1>2 DEF Recv
  <2> QED
    BY <1>2, <2>1 DEF QuietInv, Shape
<1>4. \A i \in 1 .. Len(down') : down'[i] \notin SkipFrames =>
        i + 1 \in 1 .. Len(down) /\ down[i + 1] = down'[i]
  BY <1>1
<1>5. CASE attempt + 1 < Limit
  <2>1. attempt' = attempt + 1 /\ pc' = pc /\ tries' = tries /\ ret' = ret
    BY <1>3, <1>5 DEF Skip
  <2>2. attempt \in Nat
    BY DEF QuietInv, Shape
  <2>3. Shape'
    <3>1. \A n \in 1 .. Len(wire') : wire'[n].call <= call'
      BY <1>0, ShapeFacts DEF QuietInv
    <3> QED
      BY <1>0, <1>1, <1>3, <2>1, <3>1 DEF QuietInv, Shape
  <2>4. Stream'
    <3>1. \A i \in 1 .. Len(down') : down'[i] \notin SkipFrames =>
       /\ pc' = "recv" /\ srvPos' = Len(wire')
       /\ attempt' + i <= Limit
       /\ \A j \in 1 .. Len(down') : j # i => down'[j] \in SkipFrames
       /\ down'[i] \in SaltFrames => Len(wire') \notin executed'
       /\ down'[i] \in GoodFrames(Len(wire')) => Len(wire') \in executed'
      <4> SUFFICES ASSUME NEW i \in 1 .. Len(down'), down'[i] \notin SkipFrames
                   PROVE  /\ srvPos = Len(wire)
                          /\ attempt + (i + 1) <= Limit
                          /\ \A j \in 1 .. Len(down') : j # i => down'[j] \in SkipFrames
                          /\ down'[i] \in SaltFrames => Len(wire) \notin executed
                          /\ down'[i] \in GoodFrames(Len(wire)) => Len(wire) \in executed
        BY <1>0, <1>1, <2>1, <2>2
      <4>1. i + 1 \in 1 .. Len(down) /\ down[i + 1] = down'[i]
        BY <1>4
      <4>2. \A j \in 1 .. Len(down') : j # i => down'[j] \in SkipFrames
        <5> SUFFICES ASSUME NEW j \in 1 .. Len(down'), j # i PROVE down'[j] \in SkipFrames
          OBVIOUS
        <5>1. j + 1 \in 1 .. Len(down) /\ j + 1 # i + 1 /\ down'[j] = down[j + 1]
          BY <1>1
        <5> QED
          BY <4>1, <5>1 DEF QuietInv, Stream
      <4> QED
        BY <4>1, <4>2 DEF QuietInv, Stream
    <3>2. ASSUME link' = "up"
          PROVE  \/ /\ pc' = "recv" /\ srvPos' = Len(wire') - 1
                    /\ attempt' + Len(down') < Limit
                 \/ /\ pc' = "recv" /\ srvPos' = Len(wire')
                    /\ attempt' + Len(down') <= Limit
                    /\ \E i \in 1 .. Len(down') : down'[i] \notin SkipFrames
      <4>1. attempt' + Len(down') = attempt + Len(down)
        BY <1>1, <2>1, <2>2
      <4>2. CASE srvPos = Len(wire) - 1 /\ attempt + Len(down) < Limit
        BY <1>0, <2>1, <4>1, <4>2
      <4>3. CASE /\ srvPos = Len(wire) /\ attempt + Len(down) <= Limit
                 /\ \E i \in 1 .. Len(down) : down[i] \notin SkipFrames
        <5>1. PICK i \in 1 .. Len(down) : down[i] \notin SkipFrames
          BY <4>3
        <5>2. i # 1
          BY <5>1
        <5>3. i - 1 \in 1 .. Len(down') /\ down'[i - 1] = down[i]
          BY <1>1, <5>2
        <5> QED
          BY <1>0, <2>1, <4>1, <4>3, <5>1, <5>3
      <4> QED
        BY <1>0, <3>2, <4>2, <4>3 DEF QuietInv, Stream
    <3> QED
      BY <3>1, <3>2 DEF Stream
  <2>5. Executions'
    BY <1>0, <2>1 DEF QuietInv, Executions, AtMostOnce
  <2>6. Salts'
    <3>1. \A i \in 1 .. Len(down') : i + 1 \in 1 .. Len(down) /\ down'[i] = down[i + 1]
      BY <1>1
    <3> QED
      BY <1>0, <2>1, <3>1 DEF QuietInv, Salts
  <2>7. Returned'
    BY <1>0, <2>1 DEF QuietInv, Returned, ResponseMatches, SuccessIsExecuted,
         SaltRetrySuffices
  <2> QED
    BY <2>3, <2>4, <2>5, <2>6, <2>7 DEF QuietInv
<1>6. CASE ~(attempt + 1 < Limit)
  <2>1. pc' = "idle" /\ tries' = 0 /\ attempt' = 0 /\ ret'.why = "drained"
    BY <1>3, <1>6 DEF Skip, Fail, Return
  <2>2. attempt \in Nat
    BY DEF QuietInv, Shape
  <2>3. \A i \in 1 .. Len(down') : down'[i] \in SkipFrames
    <3> SUFFICES ASSUME NEW i \in 1 .. Len(down'), down'[i] \notin SkipFrames PROVE FALSE
      OBVIOUS
    <3>1. i + 1 \in 1 .. Len(down) /\ down[i + 1] \notin SkipFrames
      BY <1>4
    <3>2. attempt + (i + 1) <= Limit
      BY <3>1 DEF QuietInv, Stream
    <3> QED
      BY <1>6, <2>2, <3>2, <1>1, BoundAssumption
  <2>4. down' \in Seq(SkipFrames)
    BY <1>1, <2>3, SeqIn
  <2>5. link # "up"
    <3> SUFFICES ASSUME link = "up" PROVE FALSE
      OBVIOUS
    <3>1. ~(attempt + Len(down) < Limit)
      BY <1>1, <1>6, <2>2, BoundAssumption
    <3>2. PICK i \in 1 .. Len(down) : down[i] \notin SkipFrames
      BY <1>0, <3>1 DEF QuietInv, Stream
    <3>3. i # 1
      BY <3>2
    <3>4. i - 1 \in 1 .. Len(down') /\ down'[i - 1] = down[i]
      BY <1>1, <3>3
    <3> QED
      BY <2>3, <3>2, <3>4
  <2> QED
    BY <1>0, <1>3, <2>1, <2>4, <2>5, FailQuiet
<1> QED
  BY <1>5, <1>6

\* Reading the answer to the last message.
LEMMA RecvAnswer ==
  ASSUME QuietInv, Recv, down[1] \notin SkipFrames PROVE QuietInv'
<1>0. /\ pc = "recv" /\ down # << >> /\ down' = Tail(down) /\ call' = call /\ wire' = wire
      /\ srvSalt' = srvSalt /\ srvPos' = srvPos /\ executed' = executed
      /\ callSalt' = callSalt /\ link' = link
  BY DEF Recv, server
<1> DEFINE S == SkipFrames \cup AnswerFrames(Len(wire))
<1>1. /\ down' \in Seq(S) /\ Len(down) \in Nat /\ Len(down) >= 1 /\ down[1] \in S
      /\ Len(down') = Len(down) - 1 /\ Head(down) = down[1]
      /\ \A i \in 1 .. Len(down) - 1 : down'[i] = down[i + 1]
  BY <1>0, TailFacts, SeqElem DEF QuietInv, Shape
<1>2. /\ 1 \in 1 .. Len(down) /\ srvPos = Len(wire)
      /\ \A j \in 1 .. Len(down) : j # 1 => down[j] \in SkipFrames
      /\ down[1] \in SaltFrames => Len(wire) \notin executed
      /\ down[1] \in GoodFrames(Len(wire)) => Len(wire) \in executed
  BY <1>1 DEF QuietInv, Stream
<1>3. \A i \in 1 .. Len(down') : down'[i] \in SkipFrames
  <2> SUFFICES ASSUME NEW i \in 1 .. Len(down') PROVE down'[i] \in SkipFrames
    OBVIOUS
  <2>1. i + 1 \in 1 .. Len(down) /\ i + 1 # 1 /\ down'[i] = down[i + 1]
    BY <1>1
  <2> QED
    BY <1>2, <2>1
<1>4. down' \in Seq(SkipFrames)
  BY <1>1, <1>3, SeqIn
<1>5. link = "up" => Len(down') < Limit
  <2>1. attempt \in Nat
    BY DEF QuietInv, Shape
  <2>2. link = "up" => attempt + Len(down) <= Limit
    BY <1>1, <2>1, BoundAssumption DEF QuietInv, Stream
  <2> QED
    BY <1>1, <2>1, <2>2, BoundAssumption
<1>6. down[1] \in AnswerFrames(Len(wire))
  BY <1>1
<1>7. salt \in Salt \cup {0}
  BY DEF QuietInv, Shape
<1>8. salt' = SaltAfter(salt, down[1])
  BY <1>1 DEF Recv
<1>9. ASSUME pc' = "idle", tries' = 0, attempt' = 0, ret'.why \in {"error", "unwrap"},
             salt' \in Salt \cup {0}
      PROVE  QuietInv'
  BY <1>0, <1>2, <1>4, <1>5, <1>9, FailQuiet
<1>10. CASE down[1] \in ErrorFrames
  <2>1. FrameClass(down[1]) = "SVC_ERROR" /\ salt' = salt
    BY <1>8, <1>10, ErrorFacts
  <2>2. Fail("error")
    BY <1>1, <2>1 DEF Recv
  <2> QED
    BY <1>7, <1>9, <2>1, <2>2 DEF Fail, Return
<1>11. CASE down[1] \in CorruptFrames(Len(wire))
  <2>1. /\ FrameClass(down[1]) = "SVC_RESULT" /\ salt' = salt
        /\ ~Unwraps(Payload(down[1]))
    BY <1>8, <1>11, CorruptFacts
  <2>2. Deliver(down[1])
    BY <1>1, <2>1 DEF Recv
  <2>3. Fail("unwrap")
    BY <2>1, <2>2 DEF Deliver
  <2> QED
    BY <1>7, <1>9, <2>1, <2>3 DEF Fail, Return
<1>12. CASE down[1] \in GoodFrames(Len(wire))
  <2>1. /\ FrameClass(down[1]) = "SVC_RESULT" /\ salt' \in Salt \cup {0}
        /\ Unwraps(Payload(down[1])) /\ Payload(down[1]) = Result(Len(wire), TRUE)
    <3>1. SaltAfter(salt, down[1]) \in Salt \cup {salt}
      BY <1>12, GoodFacts
    <3>2. /\ FrameClass(down[1]) = "SVC_RESULT"
          /\ Unwraps(Payload(down[1])) /\ Payload(down[1]) = Result(Len(wire), TRUE)
      BY <1>12, GoodFacts, Zenon
    <3> QED
      BY <1>7, <1>8, <3>1, <3>2
  <2>2. Deliver(down[1])
    BY <1>1, <2>1 DEF Recv
  <2>3. Return(0, "ok", Payload(down[1]))
    BY <2>1, <2>2 DEF Deliver
  <2>4. pc' = "idle" /\ tries' = 0 /\ attempt' = 0 /\ ret'.why = "ok"
    BY <2>3 DEF Return
  <2>5. ret'.payload.k = "result" /\ ret'.payload.req = Len(wire)
    BY <2>1, <2>3 DEF Return, Result
  <2>6. Shape'
    <3>1. \A n \in 1 .. Len(wire') : wire'[n].call <= call'
      BY <1>0, ShapeFacts DEF QuietInv
    <3> QED
      BY <1>0, <1>1, <2>1, <2>4, <3>1 DEF QuietInv, Shape
  <2>7. Stream'
    <3>1. attempt' + Len(down') = Len(down')
      BY <2>4, <1>1
    <3> QED
      BY <1>0, <1>2, <1>3, <1>5, <2>4, <3>1 DEF Stream
  <2>8. Executions'
    BY <1>0, <2>4 DEF QuietInv, Executions, AtMostOnce
  <2>9. Salts'
    BY <1>3, <2>4, SkipIsNoSalt DEF Salts
  <2>10. Returned'
    <3>1. wire[Len(wire)].call = call
      BY <1>0 DEF QuietInv, Shape
    <3>2. ResponseMatches'
      BY <1>0, <2>5, <3>1 DEF ResponseMatches
    <3>3. SuccessIsExecuted'
      BY <1>0, <1>2, <1>12, <3>1 DEF SuccessIsExecuted
    <3>4. SaltRetrySuffices'
      BY <2>4 DEF SaltRetrySuffices
    <3> QED
      BY <3>2, <3>3, <3>4 DEF Returned
  <2> QED
    BY <2>6, <2>7, <2>8, <2>9, <2>10 DEF QuietInv
<1>13. CASE down[1] \in SaltFrames
  <2>1. PICK x \in Salt : down[1] = Bare(BadSalt(x))
    BY <1>13 DEF SaltFrames
  <2>2. FrameClass(down[1]) = "SVC_BAD_SALT" /\ salt' = x
    BY <1>8, <2>1, SaltFacts
  <2>3. BadServerSalt
    BY <1>1, <2>2 DEF Recv
  <2>4. srvSalt = callSalt => down[1] = Bare(BadSalt(srvSalt)) /\ tries = 1
    BY <1>2, <1>13 DEF QuietInv, Salts
  <2>5. srvSalt = callSalt => x = srvSalt
    BY <2>4, <2>1, SaltFacts
  <2>6. CASE tries = 1
    <3>1. pc' = "send" /\ tries' = 2 /\ attempt' = 0 /\ ret' = ret
      BY <2>3, <2>6 DEF BadServerSalt
    <3>2. Shape'
      <4>1. \A n \in 1 .. Len(wire') : wire'[n].call <= call'
        BY <1>0, ShapeFacts DEF QuietInv
      <4> QED
        BY <1>0, <1>1, <2>2, <3>1, <4>1 DEF QuietInv, Shape
    <3>3. Stream'
      <4>1. attempt' + Len(down') = Len(down')
        BY <3>1, <1>1
      <4> QED
        BY <1>0, <1>2, <1>3, <1>5, <3>1, <4>1 DEF Stream
    <3>4. Executions'
      <4>1. \A n \in executed : wire[n].call # call
        BY <1>0, <1>2, <1>13 DEF QuietInv, Executions
      <4> QED
        BY <1>0, <3>1, <4>1 DEF QuietInv, Executions, AtMostOnce
    <3>5. Salts'
      BY <1>0, <1>3, <2>2, <2>5, <3>1, SkipIsNoSalt DEF Salts
    <3>6. Returned'
      BY <1>0, <3>1 DEF QuietInv, Returned, ResponseMatches, SuccessIsExecuted,
                        SaltRetrySuffices
    <3> QED
      BY <3>2, <3>3, <3>4, <3>5, <3>6 DEF QuietInv
  <2>7. CASE tries # 1
    <3>1. pc' = "idle" /\ tries' = 0 /\ attempt' = 0 /\ ret'.why = "bad_salt_again"
      BY <2>3, <2>7 DEF BadServerSalt, Fail, Return
    <3>2. srvSalt # callSalt
      BY <2>4, <2>7
    <3> QED
      BY <1>0, <1>2, <1>4, <1>5, <2>2, <3>1, <3>2, FailQuiet
  <2> QED
    BY <2>6, <2>7
<1> QED
  BY <1>6, <1>10, <1>11, <1>12, <1>13 DEF AnswerFrames

\* The server answers the message the client waits on.
LEMMA AnswerQuiet ==
  ASSUME QuietInv, Answer, Extra = {} PROVE QuietInv'
<1>0. /\ link = "up" /\ srvPos < Len(wire) /\ srvPos' = srvPos + 1
      /\ pc' = pc /\ call' = call /\ tries' = tries /\ attempt' = attempt
      /\ salt' = salt /\ ret' = ret /\ wire' = wire
      /\ srvSalt' = srvSalt /\ callSalt' = callSalt /\ link' = link
  BY DEF Answer, client
<1>1. /\ Len(wire) \in Nat /\ Len(down) \in Nat /\ srvPos \in Nat /\ attempt \in Nat
      /\ down \in Seq(SkipFrames \cup AnswerFrames(Len(wire)))
  BY ShapeFacts DEF QuietInv, Shape
<1>2. pc = "recv" /\ srvPos' = Len(wire) /\ attempt + Len(down) < Limit
  BY <1>0, <1>1 DEF QuietInv, Stream
<1>3. \A i \in 1 .. Len(down) : down[i] \in SkipFrames
  BY <1>0, <1>1 DEF QuietInv, Stream
<1>4. Len(wire) \notin executed
  BY <1>0, <1>1 DEF QuietInv, Shape
<1>5. PICK f \in AnswerFrames(Len(wire)) :
        /\ down' = Append(down, f)
        /\ f \in SaltFrames =>
             /\ executed' = executed /\ f = Bare(BadSalt(srvSalt))
             /\ wire[Len(wire)].salt # srvSalt
        /\ f \in GoodFrames(Len(wire)) => executed' = executed \cup {Len(wire)}
        /\ executed' = executed \/ executed' = executed \cup {Len(wire)}
  <2>0. srvSalt \in Salt
    BY DEF QuietInv, Shape
  <2>1. CASE /\ wire[srvPos'].salt # srvSalt
             /\ down' = Append(down, Bare(BadSalt(srvSalt)))
             /\ executed' = executed
    <3>1. Bare(BadSalt(srvSalt)) \in SaltFrames
      BY <2>0 DEF SaltFrames
    <3>2. Bare(BadSalt(srvSalt)) \in AnswerFrames(Len(wire))
      BY <3>1 DEF AnswerFrames
    <3>3. Bare(BadSalt(srvSalt)) \notin GoodFrames(Len(wire))
      BY <3>1, <3>2, Apart
    <3> QED
      BY <1>2, <2>1, <3>2, <3>3
  <2>2. CASE /\ down' = Append(down, Bare(Plain("bad_msg_notification")))
             /\ executed' = executed
    <3>1. Bare(Plain("bad_msg_notification")) \in ErrorFrames
      BY DEF ErrorFrames
    <3>2. Bare(Plain("bad_msg_notification")) \in AnswerFrames(Len(wire))
      BY <3>1 DEF AnswerFrames
    <3>3. /\ Bare(Plain("bad_msg_notification")) \notin GoodFrames(Len(wire))
          /\ Bare(Plain("bad_msg_notification")) \notin SaltFrames
      BY <3>1, <3>2, Apart
    <3> QED
      BY <2>2, <3>2, <3>3
  <2>3. ASSUME executed' = executed \cup {srvPos'},
               NEW f \in Answers(srvPos'), down' = Append(down, f)
        PROVE  /\ f \in AnswerFrames(Len(wire)) /\ f \notin SaltFrames
               /\ executed' = executed \cup {Len(wire)}
    <3>1. f \in {Bare(Result(Len(wire), TRUE)), Bare(Result(Len(wire), FALSE)),
                 Bare(Plain("malformed")),
                 Container(<<NewSession(srvSalt), Result(Len(wire), TRUE),
                             Plain("msgs_ack")>>)}
      <4>1. Answers(Len(wire)) =
              {Bare(Result(Len(wire), TRUE)), Bare(Result(Len(wire), FALSE)),
                 Bare(Plain("malformed")),
                 Container(<<NewSession(srvSalt), Result(Len(wire), TRUE),
                             Plain("msgs_ack")>>)} \cup {} \cup {}
        <5>1. ~("push" \in Extra) /\ ~("nested" \in Extra)
          OBVIOUS
        <5> QED
          BY <5>1, Zenon DEF Answers
      <4>2. f \in Answers(Len(wire))
        BY <1>2, <2>3
      <4> QED
        BY <4>1, <4>2, Zenon
    <3>2. f \in GoodFrames(Len(wire)) \cup CorruptFrames(Len(wire)) \cup ErrorFrames
      BY <2>0, <3>1, Zenon DEF GoodFrames, CorruptFrames, ErrorFrames
    <3>3. f \in AnswerFrames(Len(wire))
      BY <3>2 DEF AnswerFrames
    <3>4. f \notin SaltFrames
      BY <3>2, <3>3, Apart
    <3> QED
      BY <1>2, <2>3, <3>3, <3>4
  <2> QED
    BY <2>1, <2>2, <2>3 DEF Answer
<1>6. f \notin SkipFrames
  BY Apart
<1> DEFINE S == SkipFrames \cup AnswerFrames(Len(wire))
<1>7. /\ down' \in Seq(S) /\ Len(down') = Len(down) + 1
      /\ \A i \in 1 .. Len(down) : down'[i] = down[i]
      /\ down'[Len(down) + 1] = f
  <2>1. f \in S
    OBVIOUS
  <2> QED
    BY <1>1, <1>5, <2>1, AppendFacts
<1>8. \A i \in 1 .. Len(down') : i # Len(down) + 1 => down'[i] \in SkipFrames
  BY <1>1, <1>3, <1>7
<1>9. Shape'
  <2>1. \A n \in 1 .. Len(wire') : wire'[n].call <= call'
    BY <1>0, ShapeFacts DEF QuietInv
  <2>2. executed' \subseteq 1 .. srvPos'
    <3>1. executed \subseteq 1 .. srvPos
      BY DEF QuietInv, Shape
    <3>2. \A n \in executed' : n \in executed \/ n = srvPos + 1
      BY <1>0, <1>1, <1>2, <1>5
    <3>3. \A n \in executed' : n \in 1 .. srvPos + 1
      <4> SUFFICES ASSUME NEW n \in executed' PROVE n \in 1 .. srvPos + 1
        OBVIOUS
      <4>1. CASE n \in executed
        <5>1. n \in 1 .. srvPos
          BY <3>1, <4>1
        <5> QED
          BY <1>1, <5>1
      <4>2. CASE n = srvPos + 1
        BY <1>1, <4>2
      <4> QED
        BY <3>2, <4>1, <4>2
    <3> QED
      BY <1>0, <3>3
  <2>3. down' \in Seq(SkipFrames \cup AnswerFrames(Len(wire')))
    BY <1>0, <1>7
  <2> QED
    BY <1>0, <1>1, <1>2, <2>1, <2>2, <2>3 DEF QuietInv, Shape
<1>10. Stream'
  <2>1. \A i \in 1 .. Len(down') : down'[i] \notin SkipFrames =>
       /\ pc' = "recv" /\ srvPos' = Len(wire')
       /\ attempt' + i <= Limit
       /\ \A j \in 1 .. Len(down') : j # i => down'[j] \in SkipFrames
       /\ down'[i] \in SaltFrames => Len(wire') \notin executed'
       /\ down'[i] \in GoodFrames(Len(wire')) => Len(wire') \in executed'
    <3> SUFFICES ASSUME NEW i \in 1 .. Len(down'), down'[i] \notin SkipFrames
                 PROVE  /\ attempt + i <= Limit
                        /\ \A j \in 1 .. Len(down') : j # i => down'[j] \in SkipFrames
                        /\ down'[i] \in SaltFrames => Len(wire) \notin executed'
                        /\ down'[i] \in GoodFrames(Len(wire)) => Len(wire) \in executed'
      BY <1>0, <1>2
    <3>1. i = Len(down) + 1
      BY <1>8
    <3>2. down'[i] = f
      BY <1>7, <3>1
    <3> QED
      BY <1>1, <1>2, <1>4, <1>5, <1>8, <3>1, <3>2, BoundAssumption
  <2>2. /\ pc' = "recv" /\ srvPos' = Len(wire') /\ attempt' + Len(down') <= Limit
        /\ \E i \in 1 .. Len(down') : down'[i] \notin SkipFrames
    BY <1>0, <1>1, <1>2, <1>6, <1>7, BoundAssumption
  <2> QED
    BY <2>1, <2>2 DEF Stream
<1>11. Executions'
  <2>1. \A n \in executed : n # Len(wire) /\ wire[n].call # call
    BY <1>2, <1>4 DEF QuietInv, Executions
  <2>2. wire[Len(wire)].call = call
    BY <1>2 DEF QuietInv, Shape
  <2>3. AtMostOnce'
    BY <1>0, <1>5, <2>1, <2>2 DEF QuietInv, Executions, AtMostOnce
  <2> QED
    BY <1>0, <1>2, <1>5, <2>1, <2>3 DEF Executions
<1>12. Salts'
  <2>1. ASSUME srvSalt = callSalt
        PROVE  \A i \in 1 .. Len(down') : down'[i] \in SaltFrames =>
                 down'[i] = Bare(BadSalt(srvSalt)) /\ tries = 1
    <3> SUFFICES ASSUME NEW i \in 1 .. Len(down'), down'[i] \in SaltFrames
                 PROVE  down'[i] = Bare(BadSalt(srvSalt)) /\ tries = 1
      OBVIOUS
    <3>1. i = Len(down) + 1 /\ down'[i] = f
      BY <1>7, <1>8, SkipIsNoSalt
    <3>2. f = Bare(BadSalt(srvSalt)) /\ wire[Len(wire)].salt # srvSalt
      BY <1>5, <3>1
    <3>3. tries # 2
      BY <1>2, <2>1, <3>2 DEF QuietInv, Salts
    <3>4. tries = 1
      BY <1>2, <3>3 DEF QuietInv, Shape
    <3> QED
      BY <3>1, <3>2, <3>4
  <2> QED
    BY <1>0, <1>2, <2>1 DEF QuietInv, Salts
<1>13. Returned'
  <2>1. ret'.why = "none"
    BY <1>0, <1>2 DEF QuietInv, Shape, NotReturned
  <2> QED
    BY <2>1 DEF Returned, ResponseMatches, SuccessIsExecuted, SaltRetrySuffices
<1> QED
  BY <1>9, <1>10, <1>11, <1>12, <1>13 DEF QuietInv

\* The server sends a service frame.
LEMMA ServiceQuiet ==
  ASSUME QuietInv, Service, Extra = {} PROVE QuietInv'
<1>0. /\ link = "up" /\ attempt + Len(down) + 1 < Limit
      /\ pc' = pc /\ call' = call /\ tries' = tries /\ attempt' = attempt
      /\ salt' = salt /\ ret' = ret /\ wire' = wire
      /\ srvSalt' = srvSalt /\ callSalt' = callSalt /\ link' = link
      /\ srvPos' = srvPos /\ executed' = executed
  BY DEF Service, Room, client, server
<1>1. /\ Len(wire) \in Nat /\ Len(down) \in Nat /\ srvPos \in Nat /\ attempt \in Nat
      /\ down \in Seq(SkipFrames \cup AnswerFrames(Len(wire))) /\ srvSalt \in Salt
  BY ShapeFacts DEF QuietInv, Shape
<1>2. PICK f \in SkipFrames : down' = Append(down, f)
  BY <1>1 DEF Service, SkipFrames, Notice
<1> DEFINE S == SkipFrames \cup AnswerFrames(Len(wire))
<1>3. /\ down' \in Seq(S) /\ Len(down') = Len(down) + 1
      /\ \A i \in 1 .. Len(down) : down'[i] = down[i]
      /\ down'[Len(down) + 1] = f
  <2>1. f \in S
    OBVIOUS
  <2> QED
    BY <1>1, <1>2, <2>1, AppendFacts
<1>4. \A i \in 1 .. Len(down') : down'[i] \notin SkipFrames \/ down'[i] \in SaltFrames =>
        i \in 1 .. Len(down) /\ down'[i] = down[i]
  <2> SUFFICES ASSUME NEW i \in 1 .. Len(down'),
                      down'[i] \notin SkipFrames \/ down'[i] \in SaltFrames
               PROVE  i \in 1 .. Len(down) /\ down'[i] = down[i]
    OBVIOUS
  <2>1. i # Len(down) + 1
    BY <1>3, SkipIsNoSalt
  <2> QED
    BY <1>1, <1>3, <2>1
<1>5. Shape'
  <2>1. \A n \in 1 .. Len(wire') : wire'[n].call <= call'
    BY <1>0, ShapeFacts DEF QuietInv
  <2> QED
    BY <1>0, <1>3, <2>1 DEF QuietInv, Shape
<1>6. Stream'
  <2>1. \A i \in 1 .. Len(down') : down'[i] \notin SkipFrames =>
       /\ pc' = "recv" /\ srvPos' = Len(wire')
       /\ attempt' + i <= Limit
       /\ \A j \in 1 .. Len(down') : j # i => down'[j] \in SkipFrames
       /\ down'[i] \in SaltFrames => Len(wire') \notin executed'
       /\ down'[i] \in GoodFrames(Len(wire')) => Len(wire') \in executed'
    <3> SUFFICES ASSUME NEW i \in 1 .. Len(down'), down'[i] \notin SkipFrames
                 PROVE  /\ pc = "recv" /\ srvPos = Len(wire)
                        /\ attempt + i <= Limit
                        /\ \A j \in 1 .. Len(down') : j # i => down'[j] \in SkipFrames
                        /\ down'[i] \in SaltFrames => Len(wire) \notin executed
                        /\ down'[i] \in GoodFrames(Len(wire)) => Len(wire) \in executed
      BY <1>0
    <3>1. i \in 1 .. Len(down) /\ down'[i] = down[i]
      BY <1>4
    <3>2. ASSUME NEW j \in 1 .. Len(down'), j # i PROVE down'[j] \in SkipFrames
      <4>1. CASE j \in 1 .. Len(down)
        BY <1>3, <3>1, <3>2, <4>1 DEF QuietInv, Stream
      <4>2. CASE j = Len(down) + 1
        BY <1>3, <4>2
      <4> QED
        BY <1>1, <1>3, <4>1, <4>2
    <3> QED
      BY <3>1, <3>2 DEF QuietInv, Stream
  <2>2. attempt' + Len(down') < Limit
    BY <1>0, <1>1, <1>3, BoundAssumption
  <2>3. (\E i \in 1 .. Len(down) : down[i] \notin SkipFrames)
          => \E i \in 1 .. Len(down') : down'[i] \notin SkipFrames
    BY <1>1, <1>3
  <2>4. attempt' + Len(down') <= Limit
    BY <1>0, <1>1, <1>3, BoundAssumption
  <2> QED
    BY <1>0, <2>1, <2>2, <2>3, <2>4 DEF QuietInv, Stream
<1>7. Executions'
  BY <1>0 DEF QuietInv, Executions, AtMostOnce
<1>8. Salts'
  BY <1>0, <1>4 DEF QuietInv, Salts
<1>9. Returned'
  BY <1>0 DEF QuietInv, Returned, ResponseMatches, SuccessIsExecuted, SaltRetrySuffices
<1> QED
  BY <1>5, <1>6, <1>7, <1>8, <1>9 DEF QuietInv

\* The server changes its salt.
LEMMA RotateQuiet ==
  ASSUME QuietInv, Rotate PROVE QuietInv'
<1>0. /\ srvSalt' \in Salt /\ srvSalt' > srvSalt
      /\ pc' = pc /\ call' = call /\ tries' = tries /\ attempt' = attempt
      /\ salt' = salt /\ ret' = ret /\ wire' = wire /\ down' = down
      /\ callSalt' = callSalt /\ link' = link
      /\ srvPos' = srvPos /\ executed' = executed
  BY DEF Rotate, client
<1>1. srvSalt' # callSalt /\ callSalt <= srvSalt'
  <2>1. srvSalt \in Nat /\ callSalt \in Nat /\ srvSalt' \in Nat /\ callSalt <= srvSalt
    BY <1>0, BoundAssumption DEF QuietInv, Shape
  <2> QED
    BY <1>0, <2>1
<1>2. Shape'
  <2>1. \A n \in 1 .. Len(wire') : wire'[n].call <= call'
    BY <1>0, ShapeFacts DEF QuietInv
  <2> QED
    BY <1>0, <1>1, <2>1 DEF QuietInv, Shape
<1>3. Stream' /\ Executions'
  BY <1>0 DEF QuietInv, Stream, Executions, AtMostOnce
<1>4. Salts' /\ Returned'
  BY <1>0, <1>1 DEF QuietInv, Salts, Returned, ResponseMatches, SuccessIsExecuted,
                    SaltRetrySuffices
<1> QED
  BY <1>2, <1>3, <1>4 DEF QuietInv

\* The connection is closed.
LEMMA CloseQuiet ==
  ASSUME QuietInv, Close PROVE QuietInv'
<1>0. /\ link' = "down"
      /\ pc' = pc /\ call' = call /\ tries' = tries /\ attempt' = attempt
      /\ salt' = salt /\ ret' = ret /\ wire' = wire
      /\ srvSalt' = srvSalt /\ callSalt' = callSalt
      /\ srvPos' = srvPos /\ executed' = executed
  BY DEF Close, client, server
<1>1. PICK n \in 0 .. Len(down) : down' = SubSeq(down, 1, n)
  BY DEF Close
<1>2. /\ Len(down) \in Nat /\ down \in Seq(SkipFrames \cup AnswerFrames(Len(wire)))
  BY ShapeFacts DEF QuietInv, Shape
<1>3. /\ down' \in Seq(SkipFrames \cup AnswerFrames(Len(wire))) /\ Len(down') = n
      /\ \A i \in 1 .. n : down'[i] = down[i]
  BY <1>1, <1>2, PrefixFacts
<1>4. \A i \in 1 .. Len(down') : i \in 1 .. Len(down) /\ down'[i] = down[i]
  BY <1>2, <1>3
<1>5. Shape'
  <2>1. \A m \in 1 .. Len(wire') : wire'[m].call <= call'
    BY <1>0, ShapeFacts DEF QuietInv
  <2> QED
    BY <1>0, <1>3, <2>1 DEF QuietInv, Shape
<1>6. Stream'
  BY <1>0, <1>4 DEF QuietInv, Stream
<1>7. Executions' /\ Returned'
  BY <1>0 DEF QuietInv, Executions, AtMostOnce, Returned, ResponseMatches,
              SuccessIsExecuted, SaltRetrySuffices
<1>8. Salts'
  BY <1>0, <1>4 DEF QuietInv, Salts
<1> QED
  BY <1>5, <1>6, <1>7, <1>8 DEF QuietInv

\* Every step with a quiet server.
LEMMA NextQuiet ==
  ASSUME QuietInv, [Next]_vars, Extra = {} PROVE QuietInv'
<1>1. CASE Recv
  BY <1>1, RecvSkip, RecvAnswer
<1>2. CASE Push
  BY <1>2 DEF Push
<1>3. CASE UNCHANGED vars
  BY <1>3 DEF vars, QuietInv, Shape, Stream, Executions, AtMostOnce, Salts, Returned,
              ResponseMatches, SuccessIsExecuted, SaltRetrySuffices
<1> QED
  BY <1>1, <1>2, <1>3, api_callQuiet, SendQuiet, RecvClosedQuiet, AnswerQuiet,
     ServiceQuiet, RotateQuiet, CloseQuiet DEF Next, Client

\* With a quiet server the invariant holds throughout.
THEOREM Quiet ==
  ASSUME Extra = {} PROVE Spec => []QuietInv
<1>1. Init => QuietInv
  BY InitQuiet
<1>2. QuietInv /\ [Next]_vars => QuietInv'
  BY NextQuiet
<1> QED
  BY <1>1, <1>2, PTL DEF Spec

\* With a quiet server api_call hands its caller the answer to its own
\* request, although api_call_once never looks at req_msg_id, for any
\* number of calls, salts and service frames.
THEOREM CallsGetTheirOwnAnswer ==
  ASSUME Extra = {} PROVE Spec => []ResponseMatches
<1>1. QuietInv => ResponseMatches
  BY DEF QuietInv, Returned
<1> QED
  BY <1>1, Quiet, PTL

\* With a quiet server the salt retry of api_call executes no request twice.
THEOREM RetryIsSafe ==
  ASSUME Extra = {} PROVE Spec => []AtMostOnce
<1>1. QuietInv => AtMostOnce
  BY DEF QuietInv, Executions
<1> QED
  BY <1>1, Quiet, PTL

\* With a quiet server one retry is enough for one salt change.
THEOREM OneRetryIsEnough ==
  ASSUME Extra = {} PROVE Spec => []SaltRetrySuffices
<1>1. QuietInv => SaltRetrySuffices
  BY DEF QuietInv, Returned
<1> QED
  BY <1>1, Quiet, PTL

\* With a quiet server no call, successful or failed, leaves an answer
\* behind for the next one.
THEOREM StreamStaysInStep ==
  ASSUME Extra = {} PROVE Spec => []InStep
<1>1. QuietInv => InStep
  BY OnlySkips, SkipFacts DEF QuietInv, Stream, InStep
<1> QED
  BY <1>1, Quiet, PTL

-----------------------------------------------------------------------------
(***************************************************************************)
(* Any server: whatever Extra holds, how many service frames are under way *)
(* and however an answer is packed.                                        *)
(***************************************************************************)
\* A non-empty set of natural numbers has a least element.
LEMMA Least ==
  ASSUME NEW S, S \subseteq Nat, S # {}
  PROVE  \E i \in S : \A j \in S : i <= j
<1> DEFINE R == OpToRel(<, Nat)
<1>1. IsWellFoundedOn(R, Nat)
  BY NatLessThanWellFounded
<1>2. \E x \in S : \A y \in S : ~(<<y, x>> \in R)
  <2> HIDE DEF R
  <2> QED BY <1>1, WFMin
<1>3. \A x, y \in Nat : y < x => <<y, x>> \in R
  BY DEF OpToRel
<1>4. PICK x \in S : \A y \in S : ~(<<y, x>> \in R)
  BY <1>2
<1>5. \A y \in S : ~(y < x)
  <2> HIDE DEF R
  <2> QED BY <1>3, <1>4, Zenon
<1>6. \A y \in S : x <= y
  BY <1>5, SMT
<1> QED BY <1>6

\* One that is bounded has a greatest element.
LEMMA Greatest ==
  ASSUME NEW n \in Nat, NEW S, S \subseteq 1 .. n, S # {}
  PROVE  \E i \in S : \A j \in S : j <= i
<1> DEFINE T == {k \in Nat : n - k \in S}
<1>1. T # {}
  <2>1. PICK j \in S : TRUE
    OBVIOUS
  <2>2. n - j \in T
    OBVIOUS
  <2> QED BY <2>2
<1>2. PICK k \in T : \A l \in T : k <= l
  <2> HIDE DEF T
  <2>1. T \subseteq Nat
    BY DEF T
  <2> QED BY <1>1, <2>1, Least
<1>3. ASSUME NEW j \in S PROVE j <= n - k
  <2>1. n - j \in T
    OBVIOUS
  <2> QED BY <1>2, <2>1
<1> QED BY <1>2, <1>3

\* The frames any server sends: a bare frame holds one message.
AnyFrame == {f \in Frame : ~f.container => Len(f.msgs) = 1}

\* What a server puts into a frame is a message.
LEMMA LeafFacts ==
  /\ \A n \in Nat : Result(n, TRUE) \in Leaf /\ Result(n, FALSE) \in Leaf
  /\ \A s \in Salt : BadSalt(s) \in Leaf /\ NewSession(s) \in Leaf
  /\ Plain("msgs_ack") \in Leaf /\ Plain("pong") \in Leaf
  /\ Plain("updates") \in Leaf /\ Plain("malformed") \in Leaf
  /\ Plain("bad_msg_notification") \in Leaf
BY DEF Result, BadSalt, NewSession, Plain, Leaf

\* The ways to pack messages give frames.
LEMMA AnyFrameFacts ==
  /\ \A m \in Leaf : Bare(m) \in AnyFrame
  /\ \A ms \in Seq(Leaf) :
       Container(ms) \in AnyFrame /\ Nested(ms, {2}) \in AnyFrame
BY DEF Bare, Container, Nested, AnyFrame, Frame

\* What Payload hands over is no service message, unless it is a bare frame
\* with one.
LEMMA PayloadFacts ==
  ASSUME NEW f \in AnyFrame
  PROVE  /\ Payload(f) \in Leaf \cup {Plain("container")}
         /\ f.container => Payload(f).k \in {"result", "container"}
         /\ ~f.container => Payload(f) = f.msgs[1] /\ f.msgs[1] \in Leaf
<1> DEFINE results == {i \in 1 .. Len(f.msgs) : i \notin f.inner /\ f.msgs[i].k = "result"}
<1>0. f.msgs \in Seq(Leaf) /\ f.container \in BOOLEAN
  BY DEF AnyFrame, Frame
<1>1. CASE ~f.container
  <2>1. Len(f.msgs) = 1
    BY <1>1 DEF AnyFrame
  <2>2. f.msgs[1] \in Leaf
    BY <1>0, <2>1
  <2>3. Payload(f) = f.msgs[1]
    BY <1>1 DEF Payload
  <2> QED BY <1>1, <2>2, <2>3
<1>2. CASE f.container /\ results # {}
  <2>1. results \subseteq Nat
    BY <1>0
  <2>2. \E i \in results : \A j \in results : i <= j
    BY <1>2, <2>1, Least
  <2> DEFINE i == CHOOSE i \in results : \A j \in results : i <= j
  <2>3. i \in results
    BY <2>2
  <2>4. Payload(f) = f.msgs[i]
    BY <1>2 DEF Payload
  <2> HIDE DEF i
  <2>5. f.msgs[i] \in Leaf /\ f.msgs[i].k = "result"
    BY <1>0, <2>3
  <2> QED BY <1>2, <2>4, <2>5
<1>3. CASE f.container /\ results = {}
  <2>1. Payload(f) = Plain("container")
    BY <1>3 DEF Payload
  <2> QED BY <1>3, <2>1 DEF Plain
<1> QED BY <1>0, <1>1, <1>2, <1>3

\* The salt of a frame is one the server uses.
LEMMA SaltAfterFacts ==
  ASSUME NEW f \in AnyFrame, NEW s
  PROVE  SaltAfter(s, f) \in Salt \cup {s}
<1> DEFINE carriers == {i \in Seen(f) :
                     f.msgs[i].k \in {"bad_server_salt", "new_session_created"}}
<1>0. f.msgs \in Seq(Leaf) /\ Seen(f) \subseteq 1 .. Len(f.msgs) /\ Len(f.msgs) \in Nat
  BY DEF AnyFrame, Frame, Seen
<1>1. CASE carriers = {}
  BY <1>1 DEF SaltAfter
<1>2. CASE carriers # {}
  <2>1. \E i \in carriers : \A j \in carriers : j <= i
    <3>1. carriers \subseteq 1 .. Len(f.msgs)
      BY <1>0
    <3> HIDE DEF carriers
    <3> QED BY <1>0, <1>2, <3>1, Greatest
  <2> DEFINE i == CHOOSE i \in carriers : \A j \in carriers : j <= i
  <2>2. i \in carriers
    BY <2>1
  <2>3. SaltAfter(s, f) = f.msgs[i].salt
    BY <1>2 DEF SaltAfter
  <2> HIDE DEF i
  <2>4. /\ f.msgs[i] \in Leaf
        /\ f.msgs[i].k \in {"bad_server_salt", "new_session_created"}
    BY <1>0, <2>2
  <2>5. f.msgs[i].salt \in Salt
    BY <2>4 DEF Leaf
  <2> QED BY <2>3, <2>5
<1> QED BY <1>1, <1>2

\* A bare frame has the class of its message.
LEMMA BareFrameClass ==
  ASSUME NEW f \in AnyFrame, ~f.container, FrameClass(f) = "SVC_RESULT"
  PROVE  Class(f.msgs[1]) = "SVC_RESULT"
<1>0. Len(f.msgs) = 1
  BY DEF AnyFrame
<1>1. Seen(f) = {1}
  <2>1. 1 .. 1 = {1} /\ 1 .. 1 - 1 = {}
    OBVIOUS
  <2> QED BY <1>0, <2>1, Zenon DEF Seen
<1>2. {Class(f.msgs[i]) : i \in Seen(f)} = {Class(f.msgs[1])}
  BY <1>1
<1> QED BY <1>2 DEF FrameClass

\* classify_service_frame's class for a result is left to two kinds.
LEMMA ResultKinds ==
  ASSUME NEW m \in Leaf, Class(m) = "SVC_RESULT"
  PROVE  m.k \in {"result", "updates"}
BY DEF Leaf, Class

\* TypeOK and the shape of the frames carry ServiceNeverSurfaced.
AnyInv ==
  /\ TypeOK
  /\ down \in Seq(AnyFrame)
  /\ ServiceNeverSurfaced

\* It holds of a fresh connection.
LEMMA InitAny == Init => AnyInv
<1> SUFFICES ASSUME Init PROVE AnyInv
  OBVIOUS
<1>1. TypeOK
  BY BoundAssumption DEF Init, TypeOK, NotReturned, Plain
<1>2. down \in Seq(AnyFrame)
  BY DEF Init
<1>3. ServiceNeverSurfaced
  BY DEF Init, ServiceNeverSurfaced, NotReturned
<1> QED BY <1>1, <1>2, <1>3 DEF AnyInv

\* A failed call returns nothing.
LEMMA FailAny ==
  ASSUME NEW why \in {"send", "recv", "error", "drained", "unwrap",
                      "bad_salt_again"},
         Fail(why)
  PROVE  /\ pc' \in {"idle", "send", "recv"}
         /\ tries' \in 0 .. 2 /\ attempt' \in 0 .. Limit - 1
         /\ ret' \in [rc : {0, -1},
              why : {"none", "ok", "send", "recv", "error", "drained", "unwrap",
                     "bad_salt_again"},
              payload : Leaf \cup {Plain("none"), Plain("container")}]
         /\ ServiceNeverSurfaced'
<1>1. 0 \in 0 .. Limit - 1
  BY BoundAssumption
<1> QED BY <1>1 DEF Fail, Return, ServiceNeverSurfaced

\* Frames added by the server keep the type of the queue.
LEMMA QueueAny ==
  ASSUME AnyInv, NEW f \in AnyFrame, down' = Append(down, f)
  PROVE  down' \in Seq(AnyFrame) /\ down' \in Seq(Frame)
<1>1. f \in Frame /\ down \in Seq(Frame) /\ down \in Seq(AnyFrame)
  BY DEF AnyInv, TypeOK, AnyFrame
<1> QED BY <1>1

\* One turn of the drain loop keeps it.
LEMMA RecvAny == AnyInv /\ Recv => AnyInv'
<1> SUFFICES ASSUME AnyInv, Recv PROVE AnyInv'
  OBVIOUS
<1> USE DEF AnyInv
<1> DEFINE f == Head(down)
<1>1. f \in AnyFrame
  BY DEF Recv
<1>2. /\ down' \in Seq(AnyFrame) /\ down' \in Seq(Frame)
  BY DEF Recv, TypeOK
<1>3. salt' \in Salt \cup {0}
  BY <1>1, SaltAfterFacts DEF Recv, TypeOK
<1>4. /\ pc' \in {"idle", "send", "recv"}
      /\ tries' \in 0 .. 2 /\ attempt' \in 0 .. Limit - 1
      /\ ret' \in [rc : {0, -1},
              why : {"none", "ok", "send", "recv", "error", "drained", "unwrap",
                     "bad_salt_again"},
              payload : Leaf \cup {Plain("none"), Plain("container")}]
      /\ ServiceNeverSurfaced'
  <2>0. 0 \in 0 .. Limit - 1
    BY BoundAssumption
  <2>1. CASE FrameClass(f) = "SVC_ERROR"
    BY <2>1, FailAny DEF Recv
  <2>2. CASE FrameClass(f) = "SVC_BAD_SALT"
    <3>1. BadServerSalt
      BY <2>2 DEF Recv
    <3>2. CASE tries = 1
      BY <2>0, <3>1, <3>2 DEF BadServerSalt, TypeOK, ServiceNeverSurfaced
    <3>3. CASE tries # 1
      BY <3>1, <3>3, FailAny DEF BadServerSalt
    <3> QED BY <3>2, <3>3
  <2>3. CASE FrameClass(f) = "SVC_SKIP"
    <3>1. Skip
      BY <2>3 DEF Recv
    <3>2. CASE attempt + 1 < Limit
      BY <3>1, <3>2, BoundAssumption DEF Skip, TypeOK, ServiceNeverSurfaced
    <3>3. CASE ~(attempt + 1 < Limit)
      BY <3>1, <3>3, FailAny DEF Skip
    <3> QED BY <3>2, <3>3
  <2>4. CASE FrameClass(f) = "SVC_RESULT"
    <3>1. Deliver(f)
      BY <2>4 DEF Recv
    <3>2. CASE Unwraps(Payload(f))
      <4>1. Return(0, "ok", Payload(f))
        BY <3>1, <3>2 DEF Deliver
      <4>2. Payload(f).k \in {"result", "updates", "container"}
        <5>1. CASE f.container
          BY <1>1, <5>1, PayloadFacts
        <5>2. CASE ~f.container
          BY <1>1, <2>4, <5>2, PayloadFacts, BareFrameClass, ResultKinds
        <5> QED BY <5>1, <5>2
      <4>3. Payload(f) \in Leaf \cup {Plain("container")}
        BY <1>1, PayloadFacts
      <4> HIDE DEF f
      <4> QED BY <2>0, <4>1, <4>2, <4>3 DEF Return, ServiceNeverSurfaced
    <3>3. CASE ~Unwraps(Payload(f))
      BY <3>1, <3>3, FailAny DEF Deliver
    <3> QED BY <3>2, <3>3
  <2>5. FrameClass(f) \in {"SVC_ERROR", "SVC_BAD_SALT", "SVC_SKIP", "SVC_RESULT"}
    BY DEF FrameClass
  <2> QED BY <2>1, <2>2, <2>3, <2>4, <2>5
<1>5. UNCHANGED <<call, wire, server, link>>
  BY DEF Recv
<1> QED BY <1>2, <1>3, <1>4, <1>5 DEF TypeOK, server

\* So do the steps of the server and of the network.
LEMMA ServerAny ==
  ASSUME AnyInv, Answer \/ Service \/ Push \/ Rotate \/ Close
  PROVE  AnyInv'
<1>0. /\ srvSalt \in Salt /\ srvPos \in Nat /\ Len(wire) \in Nat
      /\ down \in Seq(AnyFrame) /\ down \in Seq(Frame)
  BY DEF AnyInv, TypeOK
<1>1. CASE Answer
  <2>1. srvPos' \in Nat /\ srvPos' \in 0 .. Len(wire)
    BY <1>0, <1>1 DEF Answer
  <2>2. \E f \in AnyFrame : down' = Append(down, f)
    <3>1. CASE \E f \in Answers(srvPos') : down' = Append(down, f)
      <4>1. ASSUME NEW f \in Answers(srvPos') PROVE f \in AnyFrame
        <5> DEFINE n == srvPos'
        <5>1. /\ Bare(Result(n, TRUE)) \in AnyFrame
              /\ Bare(Result(n, FALSE)) \in AnyFrame
              /\ Bare(Plain("malformed")) \in AnyFrame
          BY <1>0, <2>1, LeafFacts, AnyFrameFacts
        <5>2. /\ <<NewSession(srvSalt), Result(n, TRUE), Plain("msgs_ack")>> \in Seq(Leaf)
              /\ <<Plain("updates"), Result(n, TRUE)>> \in Seq(Leaf)
              /\ <<Plain("msgs_ack"), Result(n, TRUE)>> \in Seq(Leaf)
          <6>1. /\ NewSession(srvSalt) \in Leaf /\ Result(n, TRUE) \in Leaf
                /\ Plain("msgs_ack") \in Leaf /\ Plain("updates") \in Leaf
            BY <1>0, <2>1, LeafFacts, Zenon
          <6>2. \A a, b, c \in Leaf : <<a, b, c>> \in Seq(Leaf) /\ <<a, b>> \in Seq(Leaf)
            OBVIOUS
          <6> QED BY <6>1, <6>2, Zenon
        <5>3. /\ Container(<<NewSession(srvSalt), Result(n, TRUE), Plain("msgs_ack")>>) \in AnyFrame
              /\ Container(<<Plain("updates"), Result(n, TRUE)>>) \in AnyFrame
              /\ Nested(<<Plain("msgs_ack"), Result(n, TRUE)>>, {2}) \in AnyFrame
          BY <5>2, AnyFrameFacts
        <5> QED BY <5>1, <5>3 DEF Answers
      <4> QED BY <3>1, <4>1
    <3>2. CASE down' = Append(down, Bare(BadSalt(srvSalt)))
      BY <1>0, <3>2, LeafFacts, AnyFrameFacts
    <3>3. CASE down' = Append(down, Bare(Plain("bad_msg_notification")))
      BY <1>0, <3>3, LeafFacts, AnyFrameFacts
    <3> QED BY <1>1, <3>1, <3>2, <3>3 DEF Answer
  <2>3. down' \in Seq(AnyFrame) /\ down' \in Seq(Frame)
    BY <2>2, QueueAny
  <2>4. executed' \subseteq 1 .. srvPos'
    <3>1. executed \subseteq 1 .. srvPos /\ srvPos' = srvPos + 1
      BY <1>1 DEF AnyInv, TypeOK, Answer
    <3>2. executed' \subseteq executed \cup {srvPos'}
      BY <1>1 DEF Answer
    <3> QED BY <1>0, <3>1, <3>2
  <2> QED BY <1>1, <2>1, <2>3, <2>4
          DEF AnyInv, Answer, TypeOK, ServiceNeverSurfaced, client
<1>2. CASE Service \/ Push
  <2>1. \E f \in AnyFrame : down' = Append(down, f)
    <3>1. CASE Service
      <4>1. PICK m \in {Plain("msgs_ack"), Plain("pong"), NewSession(srvSalt)} :
              \E f \in {Bare(m), Container(<<m>>)} : down' = Append(down, f)
        BY <3>1 DEF Service
      <4>2. m \in Leaf /\ <<m>> \in Seq(Leaf)
        BY <1>0, LeafFacts
      <4> QED BY <4>1, <4>2, AnyFrameFacts
    <3>2. CASE Push
      BY <1>0, <3>2, LeafFacts, AnyFrameFacts DEF Push
    <3> QED BY <1>2, <3>1, <3>2
  <2>2. down' \in Seq(AnyFrame) /\ down' \in Seq(Frame)
    BY <2>1, QueueAny
  <2>3. UNCHANGED <<client, server, link>>
    BY <1>2 DEF Service, Push
  <2> QED BY <2>2, <2>3 DEF AnyInv, TypeOK, ServiceNeverSurfaced, client, server
<1>3. CASE Rotate
  BY <1>3 DEF Rotate, AnyInv, TypeOK, ServiceNeverSurfaced, client
<1>4. CASE Close
  <2>1. down' \in Seq(AnyFrame) /\ down' \in Seq(Frame)
    BY <1>0, <1>4 DEF Close
  <2> QED BY <1>4, <2>1 DEF Close, AnyInv, TypeOK, ServiceNeverSurfaced, client, server
<1> QED BY <1>1, <1>2, <1>3, <1>4

\* Every step keeps it.
LEMMA NextAny == AnyInv /\ [Next]_vars => AnyInv'
<1> SUFFICES ASSUME AnyInv, [Next]_vars PROVE AnyInv'
  OBVIOUS
<1>0. 0 \in 0 .. Limit - 1
  BY BoundAssumption
<1>1. CASE UNCHANGED vars
  BY <1>1 DEF AnyInv, TypeOK, ServiceNeverSurfaced, vars
<1>2. CASE api_call
  BY <1>0, <1>2 DEF api_call, AnyInv, TypeOK, ServiceNeverSurfaced, NotReturned, Plain
<1>3. CASE Send
  <2>1. CASE UNCHANGED wire
    <3>1. Fail("send") \/ UNCHANGED <<ret, tries>>
      BY <1>3 DEF Send
    <3>2. Fail("send")
      BY <1>3, <2>1 DEF Send, AnyInv, TypeOK
    <3> QED BY <1>3, <2>1, <3>2, FailAny DEF Send, AnyInv, TypeOK, server
  <2>2. CASE wire' = Append(wire, [call |-> call, salt |-> salt])
             /\ pc' = "recv" /\ attempt' = 0 /\ UNCHANGED <<ret, tries>>
    BY <1>0, <1>3, <2>2 DEF Send, AnyInv, TypeOK, server, ServiceNeverSurfaced
  <2> QED BY <1>3, <2>1, <2>2 DEF Send
<1>4. CASE RecvClosed
  BY <1>4, FailAny DEF RecvClosed, AnyInv, TypeOK, server
<1> QED BY <1>1, <1>2, <1>3, <1>4, RecvAny, ServerAny DEF Next, Client

\* Every variable keeps its type: in particular api_call makes at most two
\* attempts and an attempt drains fewer than SERVICE_FRAME_LIMIT frames.
THEOREM Typing == Spec => []TypeOK
<1>1. AnyInv => TypeOK
  BY DEF AnyInv
<1> QED BY InitAny, NextAny, <1>1, PTL DEF Spec

\* Whatever the server sends and however it packs it, api_call returns 0 with
\* a result, an update or a container, and never with a bare service frame.
THEOREM NoServiceFrameSurfaces == Spec => []ServiceNeverSurfaced
<1>1. AnyInv => ServiceNeverSurfaced
  BY DEF AnyInv
<1> QED BY InitAny, NextAny, <1>1, PTL DEF Spec

\* How far a call has come: its first or second attempt, and within it the
\* request still to send or the frames read since.
CallRank ==
  (IF tries = 2 THEN Limit + 1 ELSE 0) + (IF pc = "send" THEN 0 ELSE attempt + 1)

\* The most that a call can come to.
LastRank == 2 * Limit + 1

\* A step of a call that has been entered ends it or brings it on, and no
\* other step sets it back.
CallAdvances ==
  pc # "idle" =>
    /\ Client => pc' = "idle" \/ (CallRank < CallRank' /\ CallRank' <= LastRank)
    /\ ~Client => UNCHANGED client

\* A call under way is in its first or its second attempt.
CallInv == AnyInv /\ (pc # "idle" => tries \in {1, 2})

\* The counters of a call stay within their bounds.
LEMMA CallKeeps == CallInv /\ [Next]_vars => CallInv'
<1> SUFFICES ASSUME CallInv, [Next]_vars PROVE CallInv'
  OBVIOUS
<1>1. AnyInv' /\ AnyInv
  BY NextAny DEF CallInv
<1>2. tries \in 0 .. 2 /\ tries' \in 0 .. 2
  BY <1>1, SMTT(20) DEF AnyInv, TypeOK
<1>3. (pc # "idle" => tries \in {1, 2})'
  <2>1. CASE api_call
    BY <2>1 DEF api_call
  <2>2. CASE Send
    BY <2>2 DEF Send, Fail, Return, CallInv
  <2>3. CASE RecvClosed
    BY <2>3 DEF RecvClosed, Fail, Return
  <2>4. CASE Recv
    <3>1. Fail("error") \/ BadServerSalt \/ Skip \/ Deliver(Head(down))
      BY <2>4, Zenon DEF Recv, FrameClass
    <3> QED BY <3>1, <2>4 DEF Fail, BadServerSalt, Skip, Deliver, Return, CallInv, Recv
  <2>5. CASE UNCHANGED client
    BY <2>5 DEF client, CallInv
  <2> QED BY <2>1, <2>2, <2>3, <2>4, <2>5
      DEF Next, Client, Answer, Service, Push, Rotate, Close, vars, client
<1> QED BY <1>1, <1>3 DEF CallInv

(***************************************************************************)
(* api_call and api_call_once: whatever the server sends and whenever, a   *)
(* call takes at most 2 * SERVICE_FRAME_LIMIT + 2 steps of its own.  Each  *)
(* step returns, or sends the request, or drains one more frame, or goes   *)
(* over to the one retry, and the limit on frames and the single retry     *)
(* bound them; nothing else moves a call.  With a fair client thread and   *)
(* frames to read this is why every call returns.                          *)
(***************************************************************************)
THEOREM EveryCallIsBounded == Spec => [][CallAdvances]_vars
<1>1. Init => CallInv
  BY InitAny DEF CallInv, Init
<1>2. CallInv /\ [Next]_vars => CallAdvances
  <2> SUFFICES ASSUME CallInv, [Next]_vars, pc # "idle"
               PROVE  CallAdvances
    BY DEF CallAdvances
  <2>0. /\ tries \in {1, 2} /\ Limit \in Nat \ {0} /\ attempt \in 0 .. Limit - 1
        /\ pc \in {"send", "recv"}
    BY BoundAssumption DEF CallInv, AnyInv, TypeOK
  <2>1. CASE Send
    BY <2>0, <2>1 DEF Send, Fail, Return, CallAdvances, CallRank, LastRank, Client
  <2>2. CASE RecvClosed
    <3>1. pc' = "idle"
      BY <2>2, Zenon DEF RecvClosed, Fail, Return
    <3> QED BY <2>2, <3>1, Zenon DEF CallAdvances, Client
  <2>3. CASE Recv
    <3>1. Fail("error") \/ BadServerSalt \/ Skip \/ Deliver(Head(down))
      BY <2>3, Zenon DEF Recv, FrameClass
    <3>2. pc = "recv"
      BY <2>3 DEF Recv
    <3>3. pc' = "idle" \/ (CallRank < CallRank' /\ CallRank' <= LastRank)
      <4>1. CASE BadServerSalt
        BY <4>1, <3>2, <2>0 DEF BadServerSalt, Fail, Return, CallRank, LastRank
      <4>2. CASE Skip
        BY <4>2, <3>2, <2>0 DEF Skip, Fail, Return, CallRank, LastRank
      <4>3. CASE Fail("error") \/ Deliver(Head(down))
        BY <4>3, Zenon DEF Fail, Deliver, Return
      <4> QED BY <3>1, <4>1, <4>2, <4>3
    <3> QED BY <3>3, <2>3 DEF CallAdvances, Client
  <2>4. CASE ~Client
    <3>1. UNCHANGED client
      BY <2>4 DEF Next, api_call, Answer, Service, Push, Rotate, Close, vars, client
    <3> QED BY <3>1, <2>4, SMTT(20) DEF CallAdvances
  <2> QED BY <2>1, <2>2, <2>3, <2>4 DEF Client
<1> QED BY <1>1, <1>2, CallKeeps, PTL DEF Spec
=============================================================================
