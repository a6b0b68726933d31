----------------------------- MODULE MCClient ------------------------------
(***************************************************************************)
(* What a command rests on, for TLC: config.ini, the transport, message    *)
(* ids and the key exchange.  They share nothing but the connection, whose *)
(* promise to the last two is FrameChannel, so a behaviour exercises one.  *)
(***************************************************************************)
EXTENDS Transport, MessageIds, Handshake, Setup

VARIABLE part

vars == <<part, tvars, ivars, hvars, svars>>

Init == /\ part \in {"transport", "ids", "handshake", "setup"}
        /\ TInit /\ IInit /\ HInit /\ SInit
        /\ part # "setup" => first = Absent /\ env = [id |-> "", hash |-> ""]
        /\ part # "ids" => clock = 0

Next ==
    \/ part = "transport" /\ TNext /\ UNCHANGED <<part, ivars, hvars, svars>>
    \/ part = "ids" /\ INext /\ UNCHANGED <<part, tvars, hvars, svars>>
    \/ part = "handshake" /\ HNext /\ UNCHANGED <<part, tvars, ivars, svars>>
    \/ part = "setup" /\ SNext /\ UNCHANGED <<part, tvars, ivars, hvars>>

\* In the key exchange the client computes and the server answers.
Fairness == WF_vars(part = "handshake" /\ (Client \/ Server)
                      /\ UNCHANGED <<part, tvars, ivars, svars>>)

Spec == Init /\ [][Next]_vars /\ Fairness

\* A short frame, a zero-length frame, an extended length, and one more than
\* the buffer holds.
MCIncoming ==
    <<<<1, 2>>, <<>>, <<1, 0, 2, 1, 3, 0>>, <<0, 3, 2, 2, 1, 0, 1, 2>>>>
MCOutgoing == {<<1, 2>>, <<3, 0, 1, 2, 2, 1>>}

\* config.ini absent, with the server key only, and with a hash that is cut
\* short, then given again.
MCFirstFiles ==
    {Absent, File(<<Line("rsa_pem", "pem")>>),
     File(<<Line("api_id", "12x"), Line("api_hash", "cut"),
            Line("rsa_pem", "pem"), Line("api_hash", "hash2")>>)}
MCEnvironments == {[id |-> "", hash |-> ""], [id |-> "", hash |-> "cut"],
                   [id |-> "12", hash |-> ""]}

\* Primes, squares, products of two primes, even and odd, and others.
MCPQs == 1..121
=============================================================================
