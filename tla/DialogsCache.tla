---------------------------- MODULE DialogsCache ----------------------------
(***************************************************************************)
(* The list of dialogs (domain/read/dialogs.c): domain_get_dialogs behind  *)
(* its cache and domain_dialogs_find_by_id over it.                        *)
(*                                                                         *)
(* The server's side is the log of the messages that arrived; a message    *)
(* puts its dialog in front.  Times are ages: fetched_at is the age of the *)
(* list, which counts no further than OLD, when nothing looks any more.    *)
(* The client asks with hash 0, so the server never answers                *)
(* dialogsNotModified; the archive has a slot of its own, which neither    *)
(* program here fills.                                                     *)
(***************************************************************************)
EXTENDS Integers, Sequences, FiniteSetsExt

CONSTANTS
    Peers,
    Kind, Id,               \* peer -> "user", "chat" or "channel"; its id
    FirstDialogs,           \* the list before any message, newest first
    MaxArrivals,            \* bound on the log
    DIALOGS_CACHE_TTL_S,
    OLD                     \* the largest age told apart

ASSUME TtlAssumption == OLD \in Nat /\ DIALOGS_CACHE_TTL_S \in 1..OLD
ASSUME FirstDialogsAssumption == FirstDialogs \in Seq(Peers)

VARIABLES
    log,        \* the server's messages: [peer, age]
    dcache      \* s_cache[0]: [valid, age, ver, entries]; ver, the length of
                \* the log its list was made from, is not in the program

dvars == <<log, dcache>>

DInit ==
    /\ log = <<>>
    /\ dcache = [valid |-> FALSE, age |-> 0, ver |-> 0, entries |-> <<>>]

Older(n) == IF n < OLD THEN n + 1 ELSE n

DPass ==
    /\ log' = [i \in 1..Len(log) |-> [log[i] EXCEPT !.age = Older(@)]]
    /\ dcache' = [dcache EXCEPT !.age = Older(@)]

Arrive(p) ==
    /\ Len(log) < MaxArrivals
    /\ log' = Append(log, [peer |-> p, age |-> 0])
    /\ UNCHANGED dcache

Dialogs == {FirstDialogs[i] : i \in DOMAIN FirstDialogs}
             \cup {log[i].peer : i \in DOMAIN log}

\* The number of the last message, below zero in the first list.
Recency(p) ==
    LET arrived == {i \in DOMAIN log : log[i].peer = p}
    IN IF arrived # {} THEN Max(arrived)
       ELSE -(CHOOSE i \in DOMAIN FirstDialogs : FirstDialogs[i] = p)

\* The dialogs newest first: one list.
ServerLists ==
    {list \in [1..Cardinality(Dialogs) -> Dialogs] :
       \A i, j \in DOMAIN list :
         i < j => Recency(list[i]) > Recency(list[j])}

Served == dcache.valid /\ dcache.age < DIALOGS_CACHE_TTL_S

\* The first k dialogs, with or without their access hashes.
Parsed(list, k, joined) ==
    [ver |-> Len(log),
     entries |-> [i \in 1..k |-> [peer |-> list[i], hash |-> joined]]]

\* The answer: a parser that stops early keeps the entries before, and does
\* not reach the chats and users that give titles and access hashes.
Answers(max) ==
    LET n == Min({max, Cardinality(Dialogs)})
    IN UNION {{Parsed(list, k, FALSE) : k \in 0..n} \cup {Parsed(list, n, TRUE)} :
                list \in ServerLists}

\* The results of a call: whether it succeeded, the list it gives, and the
\* cache it leaves.
domain_get_dialogs(max) ==
    LET cached == [ver |-> dcache.ver,
                   entries |-> SubSeq(dcache.entries, 1,
                                      Min({max, Len(dcache.entries)}))]
    IN IF Served THEN {[ok |-> TRUE, list |-> cached, cache |-> dcache]}
       ELSE {[ok |-> FALSE, list |-> [ver |-> 0, entries |-> <<>>],
              cache |-> dcache]}
              \cup {[ok |-> TRUE, list |-> a,
                     cache |-> [valid |-> TRUE, age |-> 0, ver |-> a.ver,
                                entries |-> a.entries]] : a \in Answers(max)}

\* The first entry with this id, in a valid list of any age, or none.
domain_dialogs_find_by_id(cache, id) ==
    LET mine == {i \in DOMAIN cache.entries : Id[cache.entries[i].peer] = id}
    IN IF cache.valid /\ mine # {} THEN <<cache.entries[Min(mine)]>> ELSE <<>>
=============================================================================
