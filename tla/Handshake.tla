----------------------------- MODULE Handshake -----------------------------
(***************************************************************************)
(* infrastructure/mtproto_auth.c: the four steps that make an auth key,    *)
(* over a connection that delivers frames in order or fails.               *)
(*                                                                         *)
(* The ciphers are ideal: what is encrypted under a pair of nonces can be  *)
(* read with that pair, a hash is the tuple it is taken of.  Diffie-       *)
(* Hellman is computed, modulo a small prime; so is the factorization of   *)
(* pq.  A key is a number: padding it to 256 bytes on the left changes its *)
(* bytes, not the number.  A random value is fresh: the number of the      *)
(* exchange.  The server may fail, or answer for another exchange.         *)
(***************************************************************************)
EXTENDS Integers, Sequences

CONSTANTS
    PQs,            \* what the server may send to be factored
    UINT32,         \* 2^32
    RHO_STEPS,      \* steps of the two runners per polynomial, 1000000
    MAX_FP_COUNT,
    Prime, Gs,      \* the group the server offers: prime and generators
    Exponents,      \* secret exponents of either side
    MaxExchanges

ASSUME NumbersAssumption ==
    /\ PQs \subseteq Nat /\ Gs \subseteq Nat /\ Exponents \subseteq Nat
    /\ UINT32 \in Nat \ {0} /\ Prime \in Nat \ {0} /\ RHO_STEPS \in Nat \ {0}

VARIABLES
    hs,         \* AuthKeyCtx and the place in mtproto_auth_key_gen
    server,     \* the server's side of the exchange
    net,        \* the frame in flight, if any
    session,    \* auth key and salt of the MtProtoSession
    exchanges

hvars == <<hs, server, net, session, exchanges>>

NoKey == [key |-> 0, salt |-> <<0, 0>>]
NoCtx == [pc |-> "idle", nonce |-> 0, server_nonce |-> 0, new_nonce |-> 0,
          pq |-> 0, c |-> 0, steps |-> 0, x |-> 0, y |-> 0, p |-> 0, q |-> 0,
          g |-> 0, g_a |-> 0, b |-> 0]
NoServer == [new_nonce |-> 0, pq |-> 0, a |-> 0, key |-> 0]
Empty == [type |-> "none"]

HInit ==
    /\ hs = NoCtx /\ server = NoServer /\ net = Empty
    /\ session = NoKey /\ exchanges = 0

\* Another exchange's value in the place of this one's.
Other == 99

ServerNonce == 10 + exchanges
NewNonce == 20 + exchanges

\* The inner loop of pq_factorize.
Gcd[b \in Nat] == [a \in Nat |-> IF b = 0 THEN a ELSE Gcd[a % b][b]]

\* crypto_bn_mod_exp.
PowMod[n \in Nat] ==
    [x \in Nat |-> IF n = 0 THEN 1 % Prime ELSE (x * PowMod[n - 1][x]) % Prime]

\* The pair the temporary AES key and its initialization vector are made of.
dh_derive_temp_aes(new_nonce, server_nonce) == <<new_nonce, server_nonce>>

Abs(n) == IF n < 0 THEN -n ELSE n

\* The step returned -1, so mtproto_auth_key_gen does.
Fail == /\ hs' = NoCtx /\ server' = NoServer /\ net' = Empty
        /\ UNCHANGED <<session, exchanges>>

-----------------------------------------------------------------------------
\* mtproto_auth_key_gen starts; req_pq_multi carries a fresh nonce.
auth_step_req_pq ==
    /\ hs.pc = "idle" /\ exchanges < MaxExchanges
    /\ exchanges' = exchanges + 1
    /\ hs' = [NoCtx EXCEPT !.pc = "resPQ", !.nonce = exchanges + 1]
    /\ net' = [type |-> "req_pq_multi", nonce |-> exchanges + 1]
    /\ UNCHANGED <<server, session>>

\* ResPQ: constructor, nonce, number of fingerprints and the one we know.
GoodResPQ == /\ net.nonce = hs.nonce
             /\ net.fp_count <= MAX_FP_COUNT /\ net.our_fp

resPQ ==
    /\ hs.pc = "resPQ" /\ net.type = "resPQ"
    /\ IF GoodResPQ
       THEN /\ hs' = [hs EXCEPT !.pc = "factor", !.pq = net.pq,
                                !.server_nonce = net.server_nonce]
            /\ net' = Empty /\ UNCHANGED <<server, session, exchanges>>
       ELSE Fail

-----------------------------------------------------------------------------
\* pq_factorize: an even number is halved; else Pollard's rho, polynomial
\* x^2 + c for c = 1, 2, ..., one step of the two runners per step here.
\* Mutant: the factors are sent in the order they are found.
MutantFactored(p, q) ==
    /\ hs' = [hs EXCEPT !.pc = "req_dh", !.c = 0, !.steps = 0, !.x = 0,
                        !.y = 0, !.p = p, !.q = q]
    /\ UNCHANGED <<server, net, session, exchanges>>

Factored(p, q) ==
    /\ hs' = [hs EXCEPT !.pc = "req_dh", !.c = 0, !.steps = 0, !.x = 0,
                        !.y = 0, !.p = IF p > q THEN q ELSE p,
                        !.q = IF p > q THEN p ELSE q]
    /\ UNCHANGED <<server, net, session, exchanges>>

factor_even ==
    /\ hs.pc = "factor" /\ hs.c = 0
    /\ IF hs.pq < 2 THEN Fail
       ELSE IF hs.pq % 2 = 0 THEN Factored(2, (hs.pq \div 2) % UINT32)
       ELSE /\ hs' = [hs EXCEPT !.c = 1, !.x = 2, !.y = 2]
            /\ UNCHANGED <<server, net, session, exchanges>>

\* Mutant: the polynomial is not changed for the next attempt.
MutantNextC == 1

NextC == hs.c + 1

\* The last c tried.
Attempts == 19

rho_step ==
    LET f(v) == (v * v + hs.c) % hs.pq
        x == f(hs.x)
        y == f(f(hs.y))
        d == IF x = y THEN 1 ELSE Gcd[hs.pq][Abs(x - y)]
        small == d < UINT32 /\ hs.pq \div d < UINT32
    IN /\ hs.pc = "factor" /\ hs.c > 0
       /\ CASE d # 1 /\ d # hs.pq /\ small -> Factored(d, hs.pq \div d)
            [] d # 1 /\ d # hs.pq /\ ~small -> Fail
            [] d = 1 /\ x # y /\ hs.steps + 1 < RHO_STEPS ->
                 /\ hs' = [hs EXCEPT !.x = x, !.y = y, !.steps = @ + 1]
                 /\ UNCHANGED <<server, net, session, exchanges>>
            [] OTHER ->
                 IF NextC <= Attempts
                 THEN /\ hs' = [hs EXCEPT !.c = NextC, !.steps = 0,
                                          !.x = 2, !.y = 2]
                      /\ UNCHANGED <<server, net, session, exchanges>>
                 ELSE Fail

\* req_DH_params: the factors, and both again with the new nonce under RSA.
auth_step_req_dh ==
    /\ hs.pc = "req_dh"
    /\ net' = [type |-> "req_DH_params", p |-> hs.p, q |-> hs.q,
               nonce |-> hs.nonce, server_nonce |-> hs.server_nonce,
               new_nonce |-> NewNonce]
    /\ hs' = [hs EXCEPT !.pc = "parse_dh", !.new_nonce = NewNonce]
    /\ UNCHANGED <<server, session, exchanges>>

-----------------------------------------------------------------------------
\* server_DH_params_ok: nonces outside, the answer readable under the pair
\* of nonces, nonces inside, and a generator of 2 to 7.
GoodDH == /\ net.nonce = hs.nonce /\ net.server_nonce = hs.server_nonce
          /\ net.under = dh_derive_temp_aes(hs.new_nonce, hs.server_nonce)
          /\ net.inner = <<hs.nonce, hs.server_nonce>>
          /\ net.g \in 2..7

auth_step_parse_dh ==
    /\ hs.pc = "parse_dh"
    /\ net.type \in {"server_DH_params_ok", "server_DH_params_fail"}
    /\ IF net.type = "server_DH_params_ok" /\ GoodDH
       THEN /\ hs' = [hs EXCEPT !.pc = "set_dh", !.g = net.g,
                                !.g_a = net.g_a]
            /\ net' = Empty /\ UNCHANGED <<server, session, exchanges>>
       ELSE Fail

\* set_client_DH_params: g_b under the same pair.
auth_step_set_client_dh ==
    \E b \in Exponents :
       /\ hs.pc = "set_dh"
       /\ hs' = [hs EXCEPT !.pc = "dh_gen", !.b = b]
       /\ net' = [type |-> "set_client_DH_params", nonce |-> hs.nonce,
                  server_nonce |-> hs.server_nonce,
                  under |-> dh_derive_temp_aes(hs.new_nonce,
                                               hs.server_nonce),
                  g_b |-> PowMod[b][hs.g]]
       /\ UNCHANGED <<server, session, exchanges>>

\* dh_gen_ok: the nonce, and the hash of the new nonce and the key.
GoodGen(key) == /\ net.type = "dh_gen_ok" /\ net.nonce = hs.nonce
                /\ net.hash = <<hs.new_nonce, 1, key>>

HasKey(key) == session' = [key |-> key,
                           salt |-> <<hs.new_nonce, hs.server_nonce>>]

\* Mutant: the key is set on the session before the answer is looked at.
MutantDhGen ==
    LET key == PowMod[hs.b][hs.g_a]
    IN /\ hs.pc = "dh_gen"
       /\ net.type \in {"dh_gen_ok", "dh_gen_retry", "dh_gen_fail"}
       /\ HasKey(key)
       /\ hs' = IF GoodGen(key) THEN [hs EXCEPT !.pc = "done"] ELSE NoCtx
       /\ net' = Empty /\ UNCHANGED <<server, exchanges>>

\* The rest of auth_step_set_client_dh: the server's last answer.
dh_gen ==
    LET key == PowMod[hs.b][hs.g_a]
    IN /\ hs.pc = "dh_gen"
       /\ net.type \in {"dh_gen_ok", "dh_gen_retry", "dh_gen_fail"}
       /\ IF GoodGen(key)
          THEN /\ HasKey(key) /\ hs' = [hs EXCEPT !.pc = "done"]
               /\ net' = Empty /\ UNCHANGED <<server, exchanges>>
          ELSE Fail

\* The connection fails during the exchange, or rpc_recv_unencrypted refuses
\* what it delivers.
ConnectionLost == hs.pc \notin {"idle", "done"} /\ Fail

-----------------------------------------------------------------------------
\* The server: it checks what it is sent, and may answer for another exchange.
ServeResPQ ==
    \E pq \in PQs, n \in {hs.nonce, Other}, fp \in BOOLEAN,
       count \in {MAX_FP_COUNT, MAX_FP_COUNT + 1} :
       /\ net.type = "req_pq_multi"
       /\ server' = [NoServer EXCEPT !.pq = pq]
       /\ net' = [type |-> "resPQ", nonce |-> n, pq |-> pq, our_fp |-> fp,
                  server_nonce |-> ServerNonce, fp_count |-> count]
       /\ UNCHANGED <<hs, session, exchanges>>

\* server_DH_params: the nonces outside and inside, g and g_a.
DHParams(n, sn, inner, g, g_a) ==
    IF net.p * net.q # server.pq
    THEN [type |-> "server_DH_params_fail"]
    ELSE [type |-> "server_DH_params_ok", nonce |-> n, server_nonce |-> sn,
          under |-> dh_derive_temp_aes(net.new_nonce, net.server_nonce),
          inner |-> inner, g |-> g, g_a |-> g_a]

ServeDH ==
    /\ net.type = "req_DH_params"
    /\ \E a \in Exponents, g \in Gs, n, in \in {net.nonce, Other},
          sn, isn \in {net.server_nonce, Other} :
         /\ server' = [server EXCEPT !.a = a, !.new_nonce = net.new_nonce]
         /\ net' = DHParams(n, sn, <<in, isn>>, g, PowMod[a][g])
    /\ UNCHANGED <<hs, session, exchanges>>

\* The server keeps the key only if it answers dh_gen_ok.
ServeGen ==
    LET key == PowMod[server.a][net.g_b]
    IN /\ net.type = "set_client_DH_params"
       /\ \E type \in {"dh_gen_ok", "dh_gen_retry", "dh_gen_fail"},
             n \in {hs.nonce, Other} :
            /\ net' = [type |-> type, nonce |-> n,
                       hash |-> <<server.new_nonce,
                                  IF type = "dh_gen_ok" THEN 1 ELSE 2, key>>]
            /\ server' = [server EXCEPT !.key =
                            IF type = "dh_gen_ok" THEN key ELSE 0]
       /\ UNCHANGED <<hs, session, exchanges>>

Client == \/ resPQ \/ factor_even \/ rho_step \/ auth_step_req_dh
          \/ auth_step_parse_dh \/ auth_step_set_client_dh \/ dh_gen
Server == ServeResPQ \/ ServeDH \/ ServeGen

HNext == auth_step_req_pq \/ Client \/ Server \/ ConnectionLost

HSpec == HInit /\ [][HNext]_hvars

-----------------------------------------------------------------------------
(***************************************************************************)
(* A session that has a key after mtproto_auth_key_gen shares it, and the  *)
(* salt, with the server: no failed or refused exchange leaves a key       *)
(* behind, and no accepted one a different key.                            *)
(***************************************************************************)
KeyAgreed ==
    session # NoKey =>
        /\ hs.pc = "done" /\ server.key = session.key
        /\ session.salt = <<server.new_nonce, hs.server_nonce>>

IsPrime(n) == n > 1 /\ \A d \in 2..(n - 1) : n % d # 0

(***************************************************************************)
(* pq_factorize sends the server the two factors, the smaller first, if pq *)
(* is a product of two primes of 32 bits, as the protocol has it.          *)
(***************************************************************************)
FactorsRight ==
    hs.pc = "req_dh" =>
        ((\E p \in 2..(UINT32 - 1) : /\ hs.pq % p = 0 /\ IsPrime(p)
                                     /\ IsPrime(hs.pq \div p)
                                     /\ hs.pq \div p < UINT32)
          => hs.p * hs.q = hs.pq /\ 1 < hs.p /\ hs.p <= hs.q)

(***************************************************************************)
(* An exchange comes to an end, with a key or without: the factorization   *)
(* tries a finite number of polynomials, and no answer is waited for twice.*)
(***************************************************************************)
ExchangeEnds == hs.pc # "idle" ~> hs.pc \in {"idle", "done"}
=============================================================================
