-------------------------------- MODULE Repl --------------------------------
(***************************************************************************)
(* The commands of tg-tui that name peers (main/tg_tui.c): an argument is  *)
(* "self", a name or an id; resolve_history_peer turns each into a peer,   *)
(* one after the other, and the command then sends its request             *)
(* (domain/write/*.c, history.c, search.c).  The server may change between *)
(* any two calls.                                                          *)
(***************************************************************************)
EXTENDS DialogsCache, Resolver

CONSTANTS
    Typed,      \* sets of arguments; a behaviour uses one of them
    Limits      \* what `dialogs` is asked for

Self == "self"

\* A peer is told by its kind and its id together; "self" is neither
\* a name nor a peer.
ASSUME PeersAssumption ==
    /\ \A p \in Peers : Kind[p] \in {"user", "chat", "channel"}
    /\ \A p, q \in Peers : Kind[p] = Kind[q] /\ Id[p] = Id[q] => p = q
    /\ \A n \in Names : Owners[n] \subseteq Peers \cup {Nobody}
    /\ Self \notin Names \cup Peers /\ Limits \subseteq Nat

OnePeer == {"history", "search", "send", "reply", "edit", "delete", "read",
            "upload", "download"}

VARIABLES
    typed,      \* the arguments of this behaviour, never changes
    repl        \* args, as typed; got, the peers found so far; sent, the
                \* request of the last step, if it sent one

qvars == <<typed, repl>>

Quiet == [method |-> "none", peers |-> <<>>]
Prompt == [args |-> <<>>, got |-> <<>>, sent |-> Quiet]

QInit == typed \in Typed /\ repl = Prompt

\* InputPeer and InputChannel; the chat's has no access hash.
write_input_peer(g) ==
    IF g.peer = Self THEN [type |-> "self", id |-> "", hash |-> FALSE]
    ELSE [type |-> Kind[g.peer], id |-> Id[g.peer],
          hash |-> g.hash /\ Kind[g.peer] # "chat"]

Named(method, got) ==
    [method |-> method,
     peers |-> [i \in DOMAIN got |-> write_input_peer(got[i])]]

IsChannel(g) == g.peer # Self /\ Kind[g.peer] = "channel"

\* Mutant: every delete is messages.deleteMessages.
MutantDelete(got) == [method |-> "messages.deleteMessages", peers |-> <<>>]

\* messages.deleteMessages has ids and no peer.
domain_delete_messages(got) ==
    IF IsChannel(got[1])
    THEN Named("channels.deleteMessages", got)
    ELSE [method |-> "messages.deleteMessages", peers |-> <<>>]

domain_mark_read(got) ==
    Named(IF IsChannel(got[1]) THEN "channels.readHistory"
          ELSE "messages.readHistory", got)

domain_send_message_reply(got) == Named("messages.sendMessage", got)
domain_edit_message(got) == Named("messages.editMessage", got)
domain_forward_messages(got) == Named("messages.forwardMessages", got)
domain_get_history(got) == Named("messages.getHistory", got)
domain_search_peer(got) == Named("messages.search", got)
domain_send_file(got) == Named("messages.sendMedia", got)

Request(command, got) ==
    CASE command \in {"history", "download"} -> domain_get_history(got)
      [] command = "search" -> domain_search_peer(got)
      [] command \in {"send", "reply"} -> domain_send_message_reply(got)
      [] command = "edit" -> domain_edit_message(got)
      [] command = "delete" -> domain_delete_messages(got)
      [] command = "read" -> domain_mark_read(got)
      [] command = "upload" -> domain_send_file(got)
      [] command = "forward" -> domain_forward_messages(got)

Found(p, h) == repl' = [repl EXCEPT !.got = Append(@, [peer |-> p, hash |-> h])]
CannotResolve == repl' = Prompt

\* The access hash is sent whether or not it is known.
resolve_numeric_peer(id) ==
    LET known == domain_dialogs_find_by_id(dcache, id)
        First(list) == IF list = <<>> THEN CannotResolve
                       ELSE Found(list[1].peer, list[1].hash)
    IN /\ UNCHANGED <<log, owner, rcache>>
       /\ IF known # <<>> THEN UNCHANGED dcache /\ First(known)
          ELSE \E r \in domain_get_dialogs(200) :
                 /\ dcache' = r.cache
                 /\ First(domain_dialogs_find_by_id(r.cache, id))

resolve_name(n) ==
    /\ UNCHANGED <<dvars, owner>>
    /\ \E r \in domain_resolve_username(n) :
         /\ rcache' = r.table
         /\ IF r.peer = Nobody \/ (Kind[r.peer] # "chat" /\ ~r.hash)
            THEN CannotResolve ELSE Found(r.peer, r.hash)

Type(args) ==
    /\ repl.args = <<>>
    /\ repl' = [Prompt EXCEPT !.args = args]
    /\ UNCHANGED <<typed, dvars, rvars>>

Resolving == Len(repl.got) < Len(repl.args)
Asked(a) == Resolving /\ repl.args[Len(repl.got) + 1] = a

resolve_history_peer(a) ==
    /\ Asked(a)
    /\ UNCHANGED typed
    /\ CASE a = Self -> Found(Self, FALSE) /\ UNCHANGED <<dvars, rvars>>
         [] a \in Names -> resolve_name(a)
         [] OTHER -> resolve_numeric_peer(a)

\* Which command it was shows only now.
RunCommand(command) ==
    /\ repl.args # <<>> /\ ~Resolving
    /\ (command = "forward") = (Len(repl.args) = 2)
    /\ repl' = [repl EXCEPT !.args = <<>>, !.sent = Request(command, repl.got)]
    /\ UNCHANGED <<typed, dvars, rvars>>

do_dialogs(limit) ==
    /\ repl.args = <<>> /\ repl' = Prompt
    /\ \E r \in domain_get_dialogs(limit) : dcache' = r.cache
    /\ UNCHANGED <<typed, log, rvars>>

do_info(n) ==
    /\ repl.args = <<>> /\ repl' = Prompt
    /\ \E r \in domain_resolve_username(n) : rcache' = r.table
    /\ UNCHANGED <<typed, owner, dvars>>

Environment ==
    /\ repl' = IF repl.args = <<>> THEN Prompt ELSE repl
    /\ UNCHANGED typed
    /\ \/ DPass /\ RPass
       \/ typed \cap Names = {} /\ \E p \in Peers : Arrive(p) /\ UNCHANGED rvars
       \/ \E n \in typed \cap Names : ChangeHands(n) /\ UNCHANGED dvars

\* A behaviour uses names, and the table of names, or ids and the dialogs.
QNext ==
    \/ Environment
    \/ \E a \in typed : Type(<<a>>) \/ \E b \in typed : Type(<<a, b>>)
    \/ \E a \in typed : resolve_history_peer(a)
    \/ \E c \in OnePeer \cup {"forward"} : RunCommand(c)
    \/ typed \cap Names = {} /\ \E l \in Limits : do_dialogs(l)
    \/ \E n \in typed \cap Names : do_info(n)

QSpec == DInit /\ RInit /\ QInit /\ [][QNext]_<<dvars, rvars, qvars>>

-----------------------------------------------------------------------------
\* The peer the server takes an InputPeer for.
Denoted(w) ==
    IF w.type = "self" THEN {Self}
    ELSE {p \in Peers : Kind[p] = w.type /\ Id[p] = w.id}

\* A command given a name reaches the peer that owns the name, or one that
\* owned it less than RESOLVE_CACHE_TTL_S ago: the InputPeer made from the
\* answer of domain_resolve_username, cached or not, denotes that peer and
\* carries the access hash the server asks for.
ReachesOwner(n) ==
    Len(repl'.got) > Len(repl.got) =>
      LET w == write_input_peer(repl'.got[Len(repl'.got)]) IN
      /\ w.type = "chat" \/ w.hash
      /\ \/ Denoted(w) = {owner[n].peer}
         \/ owner[n].age < RESOLVE_CACHE_TTL_S

\* A name is refused without asking the server only if it belonged to nobody
\* less than RESOLVE_CACHE_NEG_TTL_S ago ("a user that appears later is
\* visible within a few minutes"), or its peer came without hash.
RefusalRecent(n) ==
    repl' = Prompt /\ Hit(n) =>
      \/ owner[n].peer = Nobody
      \/ owner[n].age < RESOLVE_CACHE_NEG_TTL_S
      \/ rcache[Min(Matching(n))].peer # Nobody

(***************************************************************************)
(* What domain_resolve_username answers, from its cache or not, was true   *)
(* within the lifetime of a cached answer: names reach their owners, and   *)
(* names without owner are refused.                                        *)
(***************************************************************************)
ResolvesRecently ==
    [][\A n \in Names : Asked(n) => ReachesOwner(n) /\ RefusalRecent(n)
      ]_<<repl, owner, rcache>>

(***************************************************************************)
(* Message ids mean something only in a box: a channel has its own, all    *)
(* else shares the account's.  A request acts on the box of the peer the   *)
(* ids were given with, so that a delete in a channel never reaches the    *)
(* account's messages (the is_channel branches of delete.c and             *)
(* read_history.c).                                                        *)
(***************************************************************************)
ActsInItsBox ==
    repl.sent # Quiet =>
      LET box(p) == IF p # Self /\ Kind[p] = "channel" THEN p ELSE "account"
          to == repl.sent.peers
      IN IF to = <<>> THEN box(repl.got[1].peer) = "account"
         ELSE Denoted(to[1]) = {repl.got[1].peer}
=============================================================================
