------------------------------ MODULE Resolver ------------------------------
(***************************************************************************)
(* domain_resolve_username (domain/read/user_info.c) and the table of      *)
(* answers it keeps: names that belong to a peer and names that belong to  *)
(* nobody, each for its own time.  On the server names change hands.       *)
(***************************************************************************)
EXTENDS Integers, FiniteSets, FiniteSetsExt

CONSTANTS
    Names,
    Owners,                 \* name -> who it may belong to, Nobody or a peer
    KeyOf,                  \* name -> its first 63 characters
    Nobody,
    RESOLVE_CACHE_TTL_S, RESOLVE_CACHE_NEG_TTL_S, RESOLVE_CACHE_MAX,
    STALE                   \* the largest age told apart

ASSUME ResolverAssumption ==
    /\ STALE \in Nat /\ RESOLVE_CACHE_MAX \in Nat
    /\ RESOLVE_CACHE_TTL_S \in 1..STALE
    /\ RESOLVE_CACHE_NEG_TTL_S \in 1..STALE

\* A name that is cut to another one is longer than Telegram allows, and so
\* is the other one: neither belongs to anybody.
ASSUME KeysAssumption ==
    \A m, n \in Names :
      KeyOf[m] = n => m = n \/ (Owners[m] = {Nobody} /\ Owners[n] = {Nobody})

VARIABLES
    owner,      \* the server: name -> [peer, age], age since it changed
    rcache      \* s_rcache: [valid, age, key, peer, hash], the peer Nobody in
                \* a negative entry

rvars == <<owner, rcache>>

NoEntry == [valid |-> FALSE, age |-> 0, key |-> "", peer |-> Nobody,
            hash |-> FALSE]

RInit ==
    /\ owner \in [Names -> [peer : UNION {Owners[n] : n \in Names},
                            age : {STALE}]]
    /\ \A n \in Names : owner[n].peer \in Owners[n]
    /\ rcache = [i \in 1..RESOLVE_CACHE_MAX |-> NoEntry]

Aged(n) == IF n < STALE THEN n + 1 ELSE n

RPass ==
    /\ owner' = [n \in Names |-> [owner[n] EXCEPT !.age = Aged(@)]]
    /\ rcache' = [i \in DOMAIN rcache |->
                    [rcache[i] EXCEPT !.age = IF rcache[i].valid
                                              THEN Aged(@) ELSE 0]]

ChangeHands(n) ==
    /\ \E p \in Owners[n] \ {owner[n].peer} :
         owner' = [owner EXCEPT ![n] = [peer |-> p, age |-> 0]]
    /\ UNCHANGED rcache

Matching(n) == {i \in DOMAIN rcache : rcache[i].valid /\ rcache[i].key = n}

Ttl(e) == IF e.peer = Nobody THEN RESOLVE_CACHE_NEG_TTL_S
          ELSE RESOLVE_CACHE_TTL_S

\* rcache_lookup_v2: the first entry with this key answers or, expired, is
\* dropped.
Forget(n) ==
    IF Matching(n) = {} THEN rcache
    ELSE [rcache EXCEPT ![Min(Matching(n))] = NoEntry]

\* Mutant: an entry answers once more when its time is up.
MutantHit(n) ==
    /\ Matching(n) # {}
    /\ LET e == rcache[Min(Matching(n))] IN e.age <= Ttl(e)

Hit(n) ==
    /\ Matching(n) # {}
    /\ LET e == rcache[Min(Matching(n))] IN e.age < Ttl(e)

\* The first free slot, else the oldest entry; ages of STALE are not told
\* apart, so any of those.
Slots(table) ==
    LET free == {i \in DOMAIN table : ~table[i].valid}
        oldest == Max({table[i].age : i \in DOMAIN table})
        last == {i \in DOMAIN table : table[i].age = oldest}
    IN IF free # {} THEN {Min(free)}
       ELSE IF oldest < STALE THEN {Min(last)} ELSE last

rcache_store_entry(table, n, p, h) ==
    {[table EXCEPT ![i] = [valid |-> TRUE, age |-> 0, key |-> KeyOf[n],
                           peer |-> p, hash |-> h]] : i \in Slots(table)}

\* The results of a call: the peer, or Nobody, whether its access hash is
\* known, and the table it leaves.  The table answers, its entry keeping its
\* age; a failed call or an answer out of place is not kept; what the server
\* says, USERNAME_* errors included, is.  Only the first chat and the first
\* user of an answer are looked at for the hash.
domain_resolve_username(n) ==
    LET p == owner[n].peer
        hashes == IF p = Nobody THEN {FALSE} ELSE BOOLEAN
        Told(h) == {[peer |-> p, hash |-> h, table |-> t] :
                      t \in rcache_store_entry(Forget(n), n, p, h)}
    IN IF Hit(n)
       THEN LET e == rcache[Min(Matching(n))]
            IN {[peer |-> e.peer, hash |-> e.hash, table |-> rcache]}
       ELSE {[peer |-> Nobody, hash |-> FALSE, table |-> Forget(n)]}
              \cup UNION {Told(h) : h \in hashes}
=============================================================================
