------------------------- MODULE InteractiveProofs --------------------------
(***************************************************************************)
(* Proofs about tg-tui: the full-screen loop (Tui), and the commands that  *)
(* resolve peers (Repl) through the list of dialogs (DialogsCache) and the *)
(* table of names (Resolver).                                              *)
(***************************************************************************)
EXTENDS Repl, Tui, SequenceTheorems, FiniteSetTheorems,
        WellFoundedInduction, TLAPS

\* The list of dialogs.

\* A set of numbers has a least element, and Min is it.
LEMMA Least ==
  ASSUME NEW S, S \subseteq Nat, S # {}
  PROVE  Min(S) \in S /\ \A j \in S : Min(S) <= j
<1> DEFINE R == OpToRel(<, Nat)
<1>1. IsWellFoundedOn(R, Nat)
  BY NatLessThanWellFounded, Zenon
<1>2. \E x \in S : \A y \in S : ~(<<y, x>> \in R)
  <2> HIDE DEF R
  <2> QED BY <1>1, WFMin, Zenon
<1>3. \A x, y \in Nat : y < x => <<y, x>> \in R
  BY DEF OpToRel
<1>4. PICK x \in S : \A y \in S : ~(<<y, x>> \in R)
  BY <1>2, Zenon
<1>5. \A y \in S : ~(y < x)
  <2> HIDE DEF R
  <2> QED BY <1>3, <1>4, Zenon
<1>6. \A y \in S : x <= y
  BY <1>5, SMT
<1> QED BY <1>6, Zenon DEF Min

\* The smaller of two numbers.
LEMMA MinOfTwo ==
  ASSUME NEW m \in Nat, NEW n \in Nat
  PROVE  Min({m, n}) \in Nat /\ Min({m, n}) <= m /\ Min({m, n}) <= n
BY Least

\* An entry of a list of dialogs, and a message of the server's log.
Entry == [peer : Peers, hash : BOOLEAN]
Message == [peer : Peers, age : Nat]

\* The server's log and the cached list.
DialogsInv ==
    /\ log \in Seq(Message)
    /\ DOMAIN dcache = {"valid", "age", "ver", "entries"}
    /\ dcache.entries \in Seq(Entry)

\* Nothing arrived and nothing is cached at first.
LEMMA DialogsStart == DInit => DialogsInv
BY DEF DInit, DialogsInv

\* There are finitely many dialogs, all of them peers.
LEMMA ListsAreSequences ==
  ASSUME DialogsInv
  PROVE  Cardinality(Dialogs) \in Nat /\ Dialogs \subseteq Peers
<1> DEFINE A == {FirstDialogs[i] : i \in DOMAIN FirstDialogs}
           B == {log[i].peer : i \in DOMAIN log}
<1>1. FirstDialogs \in Seq(Peers) /\ log \in Seq(Message)
  BY FirstDialogsAssumption DEF DialogsInv
<1>2. DOMAIN FirstDialogs = 1..Len(FirstDialogs) /\ Len(FirstDialogs) \in Nat
      /\ DOMAIN log = 1..Len(log) /\ Len(log) \in Nat
  BY <1>1
<1>3. IsFiniteSet(DOMAIN FirstDialogs) /\ IsFiniteSet(DOMAIN log)
  BY <1>2, FS_Interval
<1>4. IsFiniteSet(A) /\ IsFiniteSet(B)
  <2> DEFINE f == [i \in DOMAIN FirstDialogs |-> FirstDialogs[i]]
             g == [i \in DOMAIN log |-> log[i].peer]
  <2>1. f \in Surjection(DOMAIN FirstDialogs, A) /\ g \in Surjection(DOMAIN log, B)
    BY DEF Surjection
  <2> HIDE DEF f, g
  <2> QED BY <1>3, <2>1, FS_Surjection, Zenon
<1>5. IsFiniteSet(A \cup B)
  BY <1>4, FS_Union, Zenon
<1>6. A \cup B \subseteq Peers
  <2>1. \A i \in DOMAIN FirstDialogs : FirstDialogs[i] \in Peers
    BY <1>1, <1>2, ElementOfSeq
  <2>2. \A i \in DOMAIN log : log[i] \in Message
    BY <1>1, <1>2, ElementOfSeq
  <2> QED BY <2>1, <2>2 DEF Message
<1> QED BY <1>5, <1>6, FS_CardinalityType DEF Dialogs

\* domain_get_dialogs answers with, and keeps, a list of dialogs.
LEMMA GetDialogs ==
  ASSUME DialogsInv, NEW max \in Nat, NEW r \in domain_get_dialogs(max)
  PROVE  /\ r.list.entries \in Seq(Entry)
         /\ DOMAIN r.cache = {"valid", "age", "ver", "entries"}
         /\ r.cache.entries \in Seq(Entry)
<1> DEFINE c == Cardinality(Dialogs)
           n == Min({max, c})
<1>1. c \in Nat /\ Dialogs \subseteq Peers
  BY ListsAreSequences
<1>2. n \in Nat /\ n <= c
  <2> HIDE DEF c
  <2> QED BY <1>1, MinOfTwo
<1>3. ASSUME NEW a \in Answers(max) PROVE a.entries \in Seq(Entry)
  <2>1. \E l \in [1..c -> Dialogs], k \in 0..n, h \in BOOLEAN :
          a.entries = [i \in 1..k |-> [peer |-> l[i], hash |-> h]]
    <3>1. n \in 0..n
      BY <1>2
    <3>2. \A l \in ServerLists : l \in [1..c -> Dialogs]
      BY DEF ServerLists
    <3>3. PICK l \in ServerLists :
             a \in {Parsed(l, k, FALSE) : k \in 0..n} \cup {Parsed(l, n, TRUE)}
      BY <1>3, Zenon DEF Answers
    <3> HIDE DEF n, c
    <3>4. \E k \in 0..n, h \in BOOLEAN : a = Parsed(l, k, h)
      BY <3>1, <3>3, Zenon
    <3>5. PICK k \in 0..n, h \in BOOLEAN : a = Parsed(l, k, h)
      BY <3>4
    <3>6. a.entries = [i \in 1..k |-> [peer |-> l[i], hash |-> h]]
      BY <3>5 DEF Parsed
    <3> QED BY <3>2, <3>6
  <2> HIDE DEF n, c
  <2>2. PICK l \in [1..c -> Dialogs], k \in 0..n, h \in BOOLEAN :
          a.entries = [i \in 1..k |-> [peer |-> l[i], hash |-> h]]
    BY <2>1, Zenon
  <2>3. \A i \in 1..k : [peer |-> l[i], hash |-> h] \in Entry
    BY <1>1, <1>2, <2>2 DEF Entry
  <2> QED BY <1>2, <2>2, <2>3
<1>4. CASE Served
  <2> DEFINE z == Min({max, Len(dcache.entries)})
             l == [ver |-> dcache.ver, entries |-> SubSeq(dcache.entries, 1, z)]
  <2>0. r = [ok |-> TRUE, list |-> l, cache |-> dcache]
    BY <1>4, Zenon DEF domain_get_dialogs
  <2>1. r.cache = dcache /\ r.list.entries = SubSeq(dcache.entries, 1, z)
    BY <2>0, Zenon
  <2>2. dcache.entries \in Seq(Entry) /\ Len(dcache.entries) \in Nat
    BY DEF DialogsInv
  <2>3. z \in Nat /\ z <= Len(dcache.entries)
    BY <2>2, MinOfTwo
  <2>4. r.list.entries \in Seq(Entry)
    <3> HIDE DEF z
    <3>1. \A s \in Seq(Entry) : \A k \in Nat : k <= Len(s) => SubSeq(s, 1, k) \in Seq(Entry)
      BY SubSeqProperties
    <3> QED BY <2>1, <2>2, <2>3, <3>1
  <2> QED BY <2>1, <2>2, <2>4, Zenon DEF DialogsInv
<1>5. CASE ~Served
  <2>1. CASE r = [ok |-> FALSE, list |-> [ver |-> 0, entries |-> <<>>], cache |-> dcache]
    <3>1. r.list.entries = <<>> /\ r.cache = dcache
      BY <2>1
    <3> QED BY <3>1 DEF DialogsInv
  <2>2. CASE \E a \in Answers(max) :
           r = [ok |-> TRUE, list |-> a,
                cache |-> [valid |-> TRUE, age |-> 0, ver |-> a.ver, entries |-> a.entries]]
    <3>1. PICK a \in Answers(max) :
           r = [ok |-> TRUE, list |-> a,
                cache |-> [valid |-> TRUE, age |-> 0, ver |-> a.ver, entries |-> a.entries]]
      BY <2>2, Zenon
    <3>2. r.list = a /\ DOMAIN r.cache = {"valid", "age", "ver", "entries"}
          /\ r.cache.entries = a.entries
      BY <3>1
    <3> QED BY <1>3, <3>2
  <2> QED BY <1>5, <2>1, <2>2 DEF domain_get_dialogs
<1> QED BY <1>4, <1>5

\* A call leaves the log alone and a good list behind.
LEMMA CacheKeeps ==
  ASSUME DialogsInv, NEW max \in Nat, NEW r \in domain_get_dialogs(max),
         dcache' = r.cache, UNCHANGED log
  PROVE  DialogsInv'
BY GetDialogs DEF DialogsInv

\* Time passes.
LEMMA PassKeeps == ASSUME DialogsInv, DPass PROVE DialogsInv'
<1>1. ASSUME NEW i \in 1..Len(log) PROVE [log[i] EXCEPT !.age = Older(@)] \in Message
  <2>1. log[i] \in Message
    BY ElementOfSeq DEF DialogsInv
  <2>2. Older(log[i].age) \in Nat
    BY <2>1, TtlAssumption DEF Older, Message
  <2> QED BY <2>1, <2>2 DEF Message
<1>2. log' \in Seq(Message)
  <2>1. Len(log) \in Nat /\ log' = [i \in 1..Len(log) |-> [log[i] EXCEPT !.age = Older(@)]]
    BY DEF DialogsInv, DPass
  <2> QED BY <1>1, <2>1
<1>3. DOMAIN dcache' = DOMAIN dcache /\ dcache'.entries = dcache.entries
  BY DEF DPass, DialogsInv
<1> QED BY <1>2, <1>3 DEF DialogsInv

\* A message arrives.
LEMMA ArriveKeeps == ASSUME DialogsInv, NEW p \in Peers, Arrive(p) PROVE DialogsInv'
BY DEF DialogsInv, Arrive, Message

-----------------------------------------------------------------------------
\* The full-screen loop.

\* The fields of the two panes.
PaneFields == {"ver", "entries", "sel"}
HistFields == {"loaded", "peer", "of", "ver", "n", "sel"}

\* A cursor of a list of n entries.
CursorOf(sel, n) == n \in Nat /\ sel \in -1..n - 1 /\ (sel = -1 <=> n = 0)

\* The dialog pane.
PaneOk(p) ==
    /\ DOMAIN p = PaneFields /\ p.entries \in Seq(Entry)
    /\ CursorOf(p.sel, Len(p.entries))

\* The history pane, which is of the peer it shows unless it is empty.
HistOk(h) ==
    /\ DOMAIN h = HistFields /\ CursorOf(h.sel, h.n)
    /\ h.n > 0 => h.loaded /\ h.of = h.peer

\* The inductive invariant of the full-screen loop.
TuiInv == DialogsInv /\ PaneOk(pane) /\ HistOk(hist)

\* Both panes are empty at first.
LEMMA TuiStart == DInit /\ UInit => TuiInv
<1> SUFFICES ASSUME DInit, UInit PROVE TuiInv
  OBVIOUS
<1>1. PaneOk(pane)
  BY DEF UInit, PaneOk, PaneFields, CursorOf
<1>2. HistOk(hist)
  BY DEF UInit, HistOk, HistFields, CursorOf
<1> QED BY <1>1, <1>2, DialogsStart DEF TuiInv

\* A reload puts the cursor inside the new list, whatever its length.
LEMMA KeptInside ==
  ASSUME NEW sel \in Int, NEW n \in Nat
  PROVE  CursorOf(Kept(sel, n), n)
<1>1. CASE n = 0
  BY <1>1 DEF Kept, CursorOf
<1>2. CASE n # 0 /\ sel <= 0
  BY <1>2 DEF Kept, CursorOf
<1>3. CASE n # 0 /\ ~(sel <= 0)
  <2>1. sel \in Nat /\ n - 1 \in Nat
    BY <1>3
  <2>2. Min({sel, n - 1}) \in Nat /\ Min({sel, n - 1}) <= n - 1
    BY <2>1, MinOfTwo
  <2>3. Kept(sel, n) = Min({sel, n - 1})
    BY <1>3 DEF Kept
  <2> QED BY <1>3, <2>1, <2>2, <2>3 DEF CursorOf
<1> QED BY <1>1, <1>2, <1>3

\* dialog_pane_refresh, answered from the cache or not, failed or not.
LEMMA RefreshKeeps ==
  ASSUME TuiInv, NEW next, dialog_pane_refresh(next)
  PROVE  TuiInv' /\ UNCHANGED hist
<1>1. PICK r \in domain_get_dialogs(DIALOG_PANE_MAX) :
         /\ dcache' = r.cache
         /\ pane' = IF ~r.ok THEN pane
                    ELSE [ver |-> r.list.ver, entries |-> r.list.entries,
                          sel |-> Kept(pane.sel, Len(r.list.entries))]
  BY DEF dialog_pane_refresh
<1>2. UNCHANGED <<log, hist>> /\ DialogsInv /\ PaneOk(pane) /\ HistOk(hist)
  BY DEF dialog_pane_refresh, TuiInv
<1>3. DialogsInv'
  BY <1>1, <1>2, PagesAssumption, CacheKeeps
<1>4. PaneOk(pane')
  <2>1. CASE pane' = pane
    BY <1>2, <2>1
  <2>2. CASE pane' = [ver |-> r.list.ver, entries |-> r.list.entries,
                      sel |-> Kept(pane.sel, Len(r.list.entries))]
    <3>1. r.list.entries \in Seq(Entry) /\ Len(r.list.entries) \in Nat
      BY <1>2, PagesAssumption, GetDialogs
    <3>2. pane.sel \in Int
      BY <1>2 DEF PaneOk, CursorOf
    <3>3. CursorOf(Kept(pane.sel, Len(r.list.entries)), Len(r.list.entries))
      BY <3>1, <3>2, KeptInside
    <3>4. DOMAIN pane' = PaneFields /\ pane'.entries = r.list.entries
          /\ pane'.sel = Kept(pane.sel, Len(r.list.entries))
      BY <2>2 DEF PaneFields
    <3> QED BY <3>1, <3>3, <3>4 DEF PaneOk
  <2> QED BY <1>1, <2>1, <2>2
<1>5. HistOk(hist')
  BY <1>2
<1> QED BY <1>2, <1>3, <1>4, <1>5 DEF TuiInv

\* history_pane_load: whether or not the load fails, the pane is of its peer.
LEMMA HistoryKeeps ==
  ASSUME TuiInv, NEW p, history_pane_load(p)
  PROVE  TuiInv' /\ hist'.peer = p
<1>1. UNCHANGED <<log, dcache, pane>> /\ DialogsInv /\ PaneOk(pane) /\ HistOk(hist)
  BY DEF history_pane_load, TuiInv, dvars
<1>2. HistOk(hist') /\ hist'.peer = p
  <2>1. ASSUME NEW n \in Pages,
               hist' = [loaded |-> TRUE, peer |-> p, of |-> p, ver |-> Len(log), n |-> n,
                        sel |-> Kept(IF hist.loaded /\ hist.peer = p THEN hist.sel
                                     ELSE 0, n)]
        PROVE  HistOk(hist') /\ hist'.peer = p
    <3> DEFINE s == IF hist.loaded /\ hist.peer = p THEN hist.sel ELSE 0
    <3>1. s \in Int /\ n \in Nat
      BY <1>1, PagesAssumption DEF HistOk, CursorOf
    <3> HIDE DEF s
    <3>2. CursorOf(Kept(s, n), n)
      BY <3>1, KeptInside
    <3>3. /\ DOMAIN hist' = HistFields /\ hist'.n = n /\ hist'.loaded /\ hist'.of = p
          /\ hist'.peer = p /\ hist'.sel = Kept(s, n)
      BY <2>1 DEF HistFields, s
    <3> QED BY <3>2, <3>3 DEF HistOk
  <2>2. CASE hist' = [loaded |-> TRUE, peer |-> p, of |-> p, ver |-> 0, n |-> 0, sel |-> -1]
    BY <2>2 DEF HistOk, HistFields, CursorOf
  <2>3. CASE hist.loaded /\ hist.peer = p /\ UNCHANGED hist
    BY <1>1, <2>3
  <2> QED BY <2>1, <2>2, <2>3 DEF history_pane_load, history_loaded, history_load_failed
<1>3. DialogsInv'
  BY <1>1 DEF DialogsInv
<1> QED BY <1>1, <1>2, <1>3 DEF TuiInv

\* The keys that move a cursor.
LEMMA MoveKeeps == ASSUME TuiInv, Move PROVE TuiInv' /\ hist'.peer = hist.peer
<1>1. UNCHANGED <<log, dcache>> /\ DialogsInv /\ PaneOk(pane) /\ HistOk(hist)
  BY DEF Move, TuiInv, dvars
<1>2. DialogsInv'
  BY <1>1 DEF DialogsInv
<1>3. ASSUME NEW i \in 0..Len(pane.entries) - 1, pane' = [pane EXCEPT !.sel = i]
      PROVE  PaneOk(pane')
  <2>1. Len(pane.entries) \in Nat
    BY <1>1 DEF PaneOk
  <2>2. DOMAIN pane' = PaneFields /\ pane'.entries = pane.entries /\ pane'.sel = i
    BY <1>1, <1>3 DEF PaneOk, PaneFields
  <2> QED BY <1>1, <2>1, <2>2 DEF PaneOk, CursorOf
<1>4. ASSUME NEW i \in 0..hist.n - 1, hist' = [hist EXCEPT !.sel = i]
      PROVE  HistOk(hist') /\ hist'.peer = hist.peer
  <2>1. hist.n \in Nat
    BY <1>1 DEF HistOk, CursorOf
  <2>2. /\ DOMAIN hist' = HistFields /\ hist'.n = hist.n /\ hist'.sel = i
        /\ hist'.peer = hist.peer /\ hist'.of = hist.of /\ hist'.loaded = hist.loaded
    BY <1>1, <1>4 DEF HistOk, HistFields
  <2> QED BY <1>1, <2>1, <2>2 DEF HistOk, CursorOf
<1> QED BY <1>1, <1>2, <1>3, <1>4 DEF Move, TuiInv

\* Every step keeps the invariant, and opens a dialog only after Enter.
LEMMA TuiNext ==
  ASSUME TuiInv, [UNext]_<<dvars, uvars>>
  PROVE  /\ TuiInv'
         /\ hist'.peer # hist.peer => loop = "open" /\ hist'.peer = dialog_pane_selected
<1>1. CASE UNCHANGED <<log, dcache, pane, hist>>
  BY <1>1 DEF TuiInv, DialogsInv
<1>2. CASE PrimeDialogs \/ Refresh
  BY <1>2, RefreshKeeps, Zenon DEF PrimeDialogs, Refresh
<1>3. CASE RefreshHistory
  BY <1>3, HistoryKeeps DEF RefreshHistory
<1>4. CASE Open
  <2>1. CASE loop = "open" /\ history_pane_load(dialog_pane_selected)
    BY <2>1, HistoryKeeps
  <2>2. CASE UNCHANGED <<dvars, pane, hist, app, upd>>
    BY <1>1, <2>2 DEF dvars
  <2> QED BY <1>4, <2>1, <2>2 DEF Open
<1>5. CASE Move
  BY <1>5, MoveKeeps
<1>6. CASE World
  <2>1. DialogsInv' /\ UNCHANGED <<pane, hist>>
    BY <1>6, PassKeeps, ArriveKeeps DEF World, TuiInv, uvars
  <2> QED BY <2>1 DEF TuiInv
<1>7. CASE Started \/ PollNews \/ PollTooLong \/ TerminalGone \/ CtrlC \/ HelpKey \/ Help
           \/ Esc \/ Back \/ Forth \/ Reload \/ Enter
  BY <1>1, <1>7, Zenon DEF Started, PollNews, PollTooLong, TerminalGone, CtrlC, HelpKey,
       Help, Esc,
                    Back, Forth, Reload, Enter, Quit, Focus, dvars
<1>8. CASE UNCHANGED <<dvars, uvars>>
  BY <1>1, <1>8 DEF dvars, uvars
<1> QED BY <1>2, <1>3, <1>4, <1>5, <1>6, <1>7, <1>8 DEF UNext, Steps

\* The invariant holds throughout.
LEMMA TuiAlways == USpec => []TuiInv
BY TuiStart, TuiNext, PTL DEF USpec

\* Whatever the server answers and whichever keys are pressed, the cursor of
\* each pane of tg-tui is on one of its entries, or -1 when it has none.
THEOREM CursorsStayInside == USpec => []CursorInside
<1>1. TuiInv => CursorInside
  <2> SUFFICES ASSUME TuiInv PROVE CursorInside
    OBVIOUS
  <2>1. Len(pane.entries) = 0 <=> pane.entries = <<>>
    BY EmptySeq DEF TuiInv, PaneOk
  <2> QED BY <2>1 DEF TuiInv, PaneOk, HistOk, CursorOf, CursorInside
<1> QED BY <1>1, TuiAlways, PTL

\* The history pane never shows the messages of a dialog under the name of
\* another, also when history_pane_load fails.
THEOREM HistoryIsOfItsPeer == USpec => []HistoryOfPeer
<1>1. TuiInv => HistoryOfPeer
  BY DEF TuiInv, HistOk, HistoryOfPeer
<1> QED BY <1>1, TuiAlways, PTL

\* A poll or a reload never changes which dialog is open: only Enter does, to
\* the one under the cursor.
THEOREM OnlyEnterOpens == USpec => OpenChatStays
<1>1. TuiInv /\ [UNext]_<<dvars, uvars>> =>
        [hist'.peer # hist.peer =>
           loop = "open" /\ hist'.peer = dialog_pane_selected]_uvars
  BY TuiNext
<1> QED BY <1>1, TuiAlways, PTL DEF USpec, OpenChatStays

-----------------------------------------------------------------------------
\* The table of names.

\* What a name may resolve to, and the fields of an entry of s_rcache.
Owned == Peers \cup {Nobody}
EntryFields == {"valid", "age", "key", "peer", "hash"}

\* The server: every name has one of its owners.
OwnersOk(own) ==
    /\ DOMAIN own = Names
    /\ \A n \in Names : /\ DOMAIN own[n] = {"peer", "age"} /\ own[n].peer \in Owners[n]
                        /\ own[n].age \in 0..STALE

\* A valid entry is true, or is at least as old as the change that made it
\* false.
EntryOk(e, own) ==
    /\ DOMAIN e = EntryFields /\ e.hash \in BOOLEAN /\ e.age \in 0..STALE
    /\ e.peer \in Owned
    /\ e.valid => \A n \in Names : e.key = n => e.peer = own[n].peer \/ own[n].age <= e.age

\* The whole table.
TableOk(t, own) == DOMAIN t = 1..RESOLVE_CACHE_MAX /\ \A i \in DOMAIN t : EntryOk(t[i], own)

\* The invariant of the table of names.
ResolverInv == OwnersOk(owner) /\ TableOk(rcache, owner)

\* A free slot claims nothing.
LEMMA NoEntryOk == \A own : EntryOk(NoEntry, own)
BY ResolverAssumption DEF EntryOk, NoEntry, EntryFields, Owned

\* The table is empty at first.
LEMMA ResolverStart == RInit => ResolverInv
<1> SUFFICES ASSUME RInit PROVE ResolverInv
  OBVIOUS
<1>1. OwnersOk(owner)
  <2> SUFFICES ASSUME NEW n \in Names
               PROVE  /\ DOMAIN owner[n] = {"peer", "age"} /\ owner[n].age \in 0..STALE
    BY DEF RInit, OwnersOk
  <2>1. owner[n] \in [peer : UNION {Owners[m] : m \in Names}, age : {STALE}]
    BY DEF RInit
  <2> HIDE DEF RInit
  <2> QED BY <2>1, ResolverAssumption
<1>2. TableOk(rcache, owner)
  BY NoEntryOk DEF RInit, TableOk
<1> QED BY <1>1, <1>2 DEF ResolverInv

\* Ages keep their order when time passes, also when they count no further.
LEMMA AgedOk ==
  ASSUME NEW a \in 0..STALE
  PROVE  /\ Aged(a) \in 0..STALE
         /\ \A b \in 0..STALE : a <= b => Aged(a) <= Aged(b)
BY ResolverAssumption DEF Aged

\* Time passes.
LEMMA TimeKeeps == ASSUME ResolverInv, RPass PROVE ResolverInv'
<1> DEFINE own == [n \in Names |-> [owner[n] EXCEPT !.age = Aged(@)]]
<1>1. owner' = own /\ OwnersOk(owner) /\ TableOk(rcache, owner)
  BY DEF RPass, ResolverInv
<1>2. ASSUME NEW n \in Names
      PROVE  DOMAIN own[n] = {"peer", "age"} /\ own[n].peer = owner[n].peer
             /\ own[n].age = Aged(owner[n].age) /\ owner[n].age \in 0..STALE
  <2>1. DOMAIN owner[n] = {"peer", "age"} /\ owner[n].age \in 0..STALE
    BY <1>1 DEF OwnersOk
  <2> QED BY <2>1
<1>3. DOMAIN own = Names
  OBVIOUS
<1> HIDE DEF own
<1>4. OwnersOk(own)
  BY <1>1, <1>2, <1>3, AgedOk DEF OwnersOk
<1>5. ASSUME NEW i \in DOMAIN rcache PROVE EntryOk(rcache'[i], own)
  <2> DEFINE e == rcache[i]
             a == IF e.valid THEN Aged(e.age) ELSE 0
             f == [e EXCEPT !.age = a]
  <2>1. EntryOk(e, owner)
    BY <1>1 DEF TableOk
  <2>2. rcache'[i] = f
    BY DEF RPass
  <2>3. a \in 0..STALE /\ (e.valid => a = Aged(e.age))
    BY <2>1, AgedOk, ResolverAssumption DEF EntryOk
  <2> HIDE DEF a
  <2>4. DOMAIN f = EntryFields /\ f.valid = e.valid /\ f.age = a /\ f.key = e.key
        /\ f.peer = e.peer /\ f.hash = e.hash
    BY <2>1 DEF EntryOk, EntryFields
  <2> HIDE DEF f, e
  <2>5. ASSUME e.valid, NEW n \in Names, e.key = n
        PROVE  e.peer = own[n].peer \/ own[n].age <= a
    <3>1. e.peer = owner[n].peer \/ owner[n].age <= e.age
      BY <2>1, <2>5 DEF EntryOk
    <3>2. e.age \in 0..STALE
      BY <2>1 DEF EntryOk
    <3> QED BY <1>2, <2>3, <2>5, <3>1, <3>2, AgedOk
  <2>6. EntryOk(f, own)
    BY <2>1, <2>3, <2>4, <2>5 DEF EntryOk
  <2> QED BY <2>2, <2>6
<1>6. DOMAIN rcache' = DOMAIN rcache
  BY DEF RPass
<1> QED BY <1>1, <1>4, <1>5, <1>6 DEF ResolverInv, TableOk

\* A name changes hands: its entries are now at least as old as the change.
LEMMA HandsKeep == ASSUME ResolverInv, NEW n \in Names, ChangeHands(n) PROVE ResolverInv'
<1>1. PICK p \in Owners[n] : owner' = [owner EXCEPT ![n] = [peer |-> p, age |-> 0]]
  BY Zenon DEF ChangeHands
<1>2. OwnersOk(owner) /\ TableOk(rcache, owner) /\ rcache' = rcache
  BY DEF ChangeHands, ResolverInv
<1>3. /\ DOMAIN owner' = Names /\ owner'[n] = [peer |-> p, age |-> 0]
      /\ \A m \in Names \ {n} : owner'[m] = owner[m]
  BY <1>1, <1>2 DEF OwnersOk
<1>4. OwnersOk(owner')
  BY <1>2, <1>3, ResolverAssumption DEF OwnersOk
<1>5. ASSUME NEW e, EntryOk(e, owner) PROVE EntryOk(e, owner')
  <2>1. owner'[n].age = 0 /\ e.age >= 0
    BY <1>3, <1>5 DEF EntryOk
  <2> QED BY <1>3, <1>5, <2>1 DEF EntryOk
<1>6. TableOk(rcache', owner')
  BY <1>2, <1>5 DEF TableOk
<1> QED BY <1>4, <1>6 DEF ResolverInv

\* The entry that answers for a name.
LEMMA FirstMatch ==
  ASSUME ResolverInv, NEW n \in Names, Matching(n) # {}
  PROVE  /\ Min(Matching(n)) \in DOMAIN rcache
         /\ rcache[Min(Matching(n))].valid /\ rcache[Min(Matching(n))].key = n
         /\ EntryOk(rcache[Min(Matching(n))], owner)
<1>1. Matching(n) \subseteq Nat /\ TableOk(rcache, owner)
  BY ResolverAssumption DEF Matching, ResolverInv, TableOk
<1>2. Min(Matching(n)) \in Matching(n)
  BY <1>1, Least
<1> QED BY <1>1, <1>2 DEF Matching, TableOk

\* rcache_lookup_v2 drops the entry that has expired.
LEMMA ForgetKeeps == ASSUME ResolverInv, NEW n PROVE TableOk(Forget(n), owner)
BY NoEntryOk DEF ResolverInv, TableOk, Forget

\* rcache_store_entry writes what the server has just said, into any slot.
LEMMA StoreKeeps ==
  ASSUME ResolverInv, NEW n \in Names, NEW t, TableOk(t, owner), NEW h \in BOOLEAN,
         NEW u \in rcache_store_entry(t, n, owner[n].peer, h)
  PROVE  TableOk(u, owner)
<1> DEFINE e == [valid |-> TRUE, age |-> 0, key |-> KeyOf[n], peer |-> owner[n].peer,
                 hash |-> h]
<1>1. PICK i \in Slots(t) : u = [t EXCEPT ![i] = e]
  BY DEF rcache_store_entry
<1>2. EntryOk(e, owner)
  <2>1. owner[n].peer \in Owners[n] /\ owner[n].peer \in Owned
    BY PeersAssumption DEF ResolverInv, OwnersOk, Owned
  <2>2. DOMAIN e = EntryFields /\ e.hash = h /\ e.age = 0 /\ e.key = KeyOf[n]
        /\ e.peer = owner[n].peer
    BY DEF EntryFields
  <2>3. ASSUME NEW m \in Names, KeyOf[n] = m PROVE owner[n].peer = owner[m].peer
    <3>1. CASE n = m
      BY <3>1
    <3>2. CASE Owners[n] = {Nobody} /\ Owners[m] = {Nobody}
      BY <3>2 DEF ResolverInv, OwnersOk
    <3> QED BY <2>3, <3>1, <3>2, KeysAssumption
  <2> HIDE DEF e
  <2> QED BY <2>1, <2>2, <2>3, ResolverAssumption DEF EntryOk
<1> HIDE DEF e
<1> QED BY <1>1, <1>2 DEF TableOk

\* What domain_resolve_username answers, from the table or from the server.
LEMMA Resolved ==
  ASSUME ResolverInv, NEW n \in Names, NEW r \in domain_resolve_username(n)
  PROVE  /\ r.peer \in Owned /\ r.hash \in BOOLEAN /\ TableOk(r.table, owner)
         /\ r.peer # Nobody => r.peer = owner[n].peer \/ owner[n].age < RESOLVE_CACHE_TTL_S
         /\ Hit(n) => \/ rcache[Min(Matching(n))].peer # Nobody
                      \/ owner[n].peer = Nobody
                      \/ owner[n].age < RESOLVE_CACHE_NEG_TTL_S
<1> DEFINE e == rcache[Min(Matching(n))]
           p == owner[n].peer
           hashes == IF p = Nobody THEN {FALSE} ELSE BOOLEAN
<1>1. CASE Hit(n)
  <2>1. Matching(n) # {} /\ e.age < Ttl(e)
    BY <1>1 DEF Hit
  <2>2. r = [peer |-> e.peer, hash |-> e.hash, table |-> rcache]
    BY <1>1, Zenon DEF domain_resolve_username
  <2>3. e.valid /\ e.key = n /\ EntryOk(e, owner)
    BY <2>1, FirstMatch
  <2>4. r.peer = e.peer /\ r.hash = e.hash /\ r.table = rcache
    BY <2>2
  <2> HIDE DEF e
  <2>5. e.peer = owner[n].peer \/ owner[n].age <= e.age
    BY <2>3 DEF EntryOk
  <2>6. e.age \in Nat /\ owner[n].age \in Nat /\ RESOLVE_CACHE_TTL_S \in Nat
        /\ RESOLVE_CACHE_NEG_TTL_S \in Nat
    BY <2>3, ResolverAssumption DEF EntryOk, ResolverInv, OwnersOk
  <2>7. CASE e.peer = Nobody
    <3>1. e.age < RESOLVE_CACHE_NEG_TTL_S
      BY <2>1, <2>7 DEF Ttl
    <3>2. owner[n].peer = Nobody \/ owner[n].age < RESOLVE_CACHE_NEG_TTL_S
      BY <2>5, <2>6, <2>7, <3>1
    <3> QED BY <2>3, <2>4, <2>7, <3>2 DEF EntryOk, ResolverInv
  <2>8. CASE e.peer # Nobody
    <3>1. e.age < RESOLVE_CACHE_TTL_S
      BY <2>1, <2>8 DEF Ttl
    <3>2. e.peer = owner[n].peer \/ owner[n].age < RESOLVE_CACHE_TTL_S
      BY <2>5, <2>6, <3>1
    <3> QED BY <2>3, <2>4, <2>8, <3>2 DEF EntryOk, ResolverInv, e
  <2> QED BY <2>7, <2>8
<1>2. CASE ~Hit(n)
  <2>1. \/ r = [peer |-> Nobody, hash |-> FALSE, table |-> Forget(n)]
        \/ \E h \in hashes : \E t \in rcache_store_entry(Forget(n), n, p, h) :
             r = [peer |-> p, hash |-> h, table |-> t]
    BY <1>2, Zenon DEF domain_resolve_username
  <2>2. CASE r = [peer |-> Nobody, hash |-> FALSE, table |-> Forget(n)]
    <3>1. r.peer = Nobody /\ r.table = Forget(n)
      BY <2>2
    <3>2. r.hash \in BOOLEAN
      BY <2>2
    <3> QED BY <1>2, <3>1, <3>2, ForgetKeeps DEF Owned
  <2>3. ASSUME NEW h \in hashes, NEW t \in rcache_store_entry(Forget(n), n, p, h),
               r = [peer |-> p, hash |-> h, table |-> t]
        PROVE  r.peer = p /\ r.hash \in BOOLEAN /\ TableOk(r.table, owner)
    <3>1. h \in BOOLEAN
      BY Zenon
    <3>2. TableOk(t, owner)
      BY <3>1, ForgetKeeps, StoreKeeps
    <3> QED BY <2>3, <3>1, <3>2
  <2>4. p \in Owned
    BY PeersAssumption DEF ResolverInv, OwnersOk, Owned
  <2> HIDE DEF hashes
  <2> QED BY <1>2, <2>1, <2>2, <2>3, <2>4
<1> QED BY <1>1, <1>2

-----------------------------------------------------------------------------
\* The commands.

\* An argument that was resolved, and the fields of a command.
Got == [peer : Peers \cup {Self}, hash : BOOLEAN]
ReplFields == {"args", "got", "sent"}

\* The request a command sent was made from the peers it was given.
ReplOk(s, T) ==
    /\ DOMAIN s = ReplFields
    /\ s.args \in Seq(T) /\ s.got \in Seq(Got)
    /\ s.args # <<>> => Len(s.got) <= Len(s.args) /\ s.sent = Quiet
    /\ s.sent # Quiet => /\ s.got # <<>>
                         /\ \E c \in OnePeer \cup {"forward"} : s.sent = Request(c, s.got)

\* The inductive invariant of the commands.
ReplInv == DialogsInv /\ ResolverInv /\ ReplOk(repl, typed)

\* The prompt holds nothing.
LEMMA PromptOk == (\A T : ReplOk(Prompt, T)) /\ Prompt.got = <<>> /\ Prompt.sent = Quiet
BY DEF Prompt, ReplOk, ReplFields, Quiet

\* The prompt comes first.
LEMMA ReplStart == DInit /\ RInit /\ QInit => ReplInv
BY DialogsStart, ResolverStart, PromptOk DEF QInit, ReplInv

\* domain_dialogs_find_by_id answers with an entry of the list, if at all.
LEMMA FindById ==
  ASSUME NEW c, c.entries \in Seq(Entry), NEW id, domain_dialogs_find_by_id(c, id) # <<>>
  PROVE  domain_dialogs_find_by_id(c, id)[1] \in Entry
<1> DEFINE mine == {i \in DOMAIN c.entries : Id[c.entries[i].peer] = id}
<1>1. mine # {} /\ domain_dialogs_find_by_id(c, id) = <<c.entries[Min(mine)]>>
  BY DEF domain_dialogs_find_by_id
<1>2. mine \subseteq Nat /\ DOMAIN c.entries = 1..Len(c.entries)
  OBVIOUS
<1>3. Min(mine) \in mine
  <2> HIDE DEF mine
  <2> QED BY <1>1, <1>2, Least, Zenon
<1>4. Min(mine) \in 1..Len(c.entries)
  BY <1>2, <1>3
<1>5. c.entries[Min(mine)] \in Entry
  <2> HIDE DEF mine
  <2> QED BY <1>4, ElementOfSeq
<1> QED BY <1>1, <1>5

\* One more argument is resolved.
LEMMA FoundKeeps ==
  ASSUME ReplOk(repl, typed), Resolving, NEW p \in Peers \cup {Self}, NEW h \in BOOLEAN,
         Found(p, h),
         UNCHANGED typed
  PROVE  /\ ReplOk(repl', typed') /\ Len(repl'.got) = Len(repl.got) + 1
         /\ repl'.got[Len(repl'.got)] = [peer |-> p, hash |-> h] /\ repl' # Prompt
<1> DEFINE g == [peer |-> p, hash |-> h]
           s == repl.got
<1>1. repl.got \in Seq(Got) /\ g \in Got /\ Len(repl.got) \in Nat /\ Len(repl.args) \in Nat
      /\ Len(repl.got) < Len(repl.args) /\ repl.args # <<>> /\ repl.args \in Seq(typed)
  BY DEF ReplOk, Resolving, Got
<1>2. repl' = [repl EXCEPT !.got = Append(repl.got, g)]
  BY DEF Found, ReplOk, ReplFields
<1>3. DOMAIN repl' = ReplFields /\ repl'.got = Append(repl.got, g) /\ repl'.args = repl.args
      /\ repl'.sent = repl.sent
  BY <1>2 DEF ReplOk, ReplFields
<1> HIDE DEF g
<1>4. repl'.got \in Seq(Got) /\ Len(repl'.got) = Len(repl.got) + 1
      /\ repl'.got[Len(repl'.got)] = g
  BY <1>1, <1>3
<1>5. repl.sent = Quiet
  BY <1>1 DEF ReplOk
<1>6. ReplOk(repl', typed')
  BY <1>1, <1>3, <1>4, <1>5 DEF ReplOk
<1>7. repl' # Prompt
  BY <1>1, <1>4, PromptOk
<1> QED BY <1>4, <1>6, <1>7 DEF g

\* resolve_numeric_peer answers with a dialog of the cached or fetched list.
LEMMA NumericKeeps ==
  ASSUME ReplInv, NEW id, Resolving, resolve_numeric_peer(id), UNCHANGED typed
  PROVE  ReplInv'
<1>1. DialogsInv /\ ResolverInv /\ ReplOk(repl, typed) /\ UNCHANGED <<log, owner, rcache>>
  BY DEF ReplInv, resolve_numeric_peer
<1>2. ResolverInv'
  BY <1>1 DEF ResolverInv
<1>3. ASSUME NEW c, c.entries \in Seq(Entry),
             LET list == domain_dialogs_find_by_id(c, id)
             IN IF list = <<>> THEN CannotResolve ELSE Found(list[1].peer, list[1].hash)
      PROVE  ReplOk(repl', typed')
  <2> DEFINE list == domain_dialogs_find_by_id(c, id)
  <2>1. CASE list = <<>>
    <3>1. repl' = Prompt
      BY <1>3, <2>1 DEF CannotResolve
    <3> QED BY <3>1, PromptOk
  <2>2. CASE list # <<>>
    <3>1. list[1] \in Entry /\ Found(list[1].peer, list[1].hash)
      BY <1>3, <2>2, FindById
    <3> HIDE DEF list
    <3>2. list[1].peer \in Peers \cup {Self} /\ list[1].hash \in BOOLEAN
      BY <3>1 DEF Entry
    <3> QED BY <1>1, <3>1, <3>2, FoundKeeps, Zenon
  <2> QED BY <2>1, <2>2
<1>4. CASE domain_dialogs_find_by_id(dcache, id) # <<>>
  <2>1. /\ UNCHANGED dcache
        /\ Found(domain_dialogs_find_by_id(dcache, id)[1].peer,
                 domain_dialogs_find_by_id(dcache, id)[1].hash)
    BY <1>4 DEF resolve_numeric_peer
  <2>2. DialogsInv' /\ dcache.entries \in Seq(Entry)
    BY <1>1, <2>1 DEF DialogsInv
  <2>3. ReplOk(repl', typed')
    BY <1>3, <1>4, <2>1, <2>2
  <2> QED BY <1>2, <2>2, <2>3 DEF ReplInv
<1>5. CASE domain_dialogs_find_by_id(dcache, id) = <<>>
  <2>1. PICK r \in domain_get_dialogs(200) :
          /\ dcache' = r.cache
          /\ IF domain_dialogs_find_by_id(r.cache, id) = <<>> THEN CannotResolve
             ELSE Found(domain_dialogs_find_by_id(r.cache, id)[1].peer,
                        domain_dialogs_find_by_id(r.cache, id)[1].hash)
    BY <1>5 DEF resolve_numeric_peer
  <2>2. DialogsInv' /\ r.cache.entries \in Seq(Entry)
    BY <1>1, <2>1, CacheKeeps, GetDialogs
  <2>3. ReplOk(repl', typed')
    BY <1>3, <2>1, <2>2
  <2> QED BY <1>2, <2>2, <2>3 DEF ReplInv
<1> QED BY <1>4, <1>5

\* A name is resolved to what the server had within the lifetime of an entry.
LEMMA NameKeeps ==
  ASSUME ReplInv, NEW n \in Names, Resolving, resolve_name(n), UNCHANGED typed
  PROVE  ReplInv' /\ ReachesOwner(n) /\ RefusalRecent(n)
<1>1. DialogsInv /\ ResolverInv /\ ReplOk(repl, typed) /\ UNCHANGED <<log, dcache, owner>>
  BY DEF ReplInv, resolve_name, dvars
<1>2. PICK r \in domain_resolve_username(n) :
         /\ rcache' = r.table
         /\ IF r.peer = Nobody \/ (Kind[r.peer] # "chat" /\ ~r.hash)
            THEN CannotResolve ELSE Found(r.peer, r.hash)
  BY DEF resolve_name
<1>3. /\ r.peer \in Owned /\ r.hash \in BOOLEAN /\ TableOk(r.table, owner)
      /\ r.peer # Nobody => r.peer = owner[n].peer \/ owner[n].age < RESOLVE_CACHE_TTL_S
      /\ Hit(n) => \/ rcache[Min(Matching(n))].peer # Nobody
                   \/ owner[n].peer = Nobody
                   \/ owner[n].age < RESOLVE_CACHE_NEG_TTL_S
  BY <1>1, Resolved
<1>4. DialogsInv' /\ ResolverInv'
  BY <1>1, <1>2, <1>3, SMTT(20) DEF DialogsInv, ResolverInv
<1>5. CASE r.peer = Nobody \/ (Kind[r.peer] # "chat" /\ ~r.hash)
  <2>1. repl' = Prompt
    BY <1>2, <1>5 DEF CannotResolve
  <2>2. ReplOk(repl', typed') /\ ~(Len(repl'.got) > Len(repl.got))
    <3>1. Len(repl.got) \in Nat /\ Len(repl'.got) = 0
      BY <1>1, <2>1, PromptOk DEF ReplOk
    <3> QED BY <2>1, <3>1, PromptOk
  <2> QED BY <1>3, <1>4, <2>2 DEF ReplInv, ReachesOwner, RefusalRecent
<1>6. CASE ~(r.peer = Nobody \/ (Kind[r.peer] # "chat" /\ ~r.hash))
  <2>1. Found(r.peer, r.hash) /\ r.peer \in Peers /\ r.peer # Nobody
        /\ (Kind[r.peer] = "chat" \/ r.hash)
    BY <1>2, <1>3, <1>6 DEF Owned
  <2>2. /\ ReplOk(repl', typed') /\ repl' # Prompt
        /\ repl'.got[Len(repl'.got)] = [peer |-> r.peer, hash |-> r.hash]
    BY <1>1, <1>3, <2>1, FoundKeeps, Zenon
  <2>3. ReachesOwner(n)
    <3> DEFINE g == [peer |-> r.peer, hash |-> r.hash]
               w == write_input_peer(g)
    <3>1. g.peer = r.peer /\ g.hash = r.hash
      OBVIOUS
    <3> HIDE DEF g
    <3>2. (w.type = "chat" \/ w.hash) /\ Denoted(w) = {r.peer}
      <4> DEFINE b == g.hash /\ Kind[g.peer] # "chat"
      <4>1. w = [type |-> Kind[r.peer], id |-> Id[r.peer], hash |-> b]
        BY <2>1, <3>1, PeersAssumption, Zenon DEF write_input_peer
      <4>2. b <=> r.hash /\ Kind[r.peer] # "chat"
        BY <3>1
      <4> HIDE DEF b, w
      <4>3. w.type = Kind[r.peer] /\ w.id = Id[r.peer] /\ w.hash = b
        BY <4>1
      <4>4. w.type = "chat" \/ w.hash
        BY <2>1, <4>2, <4>3
      <4>5. Denoted(w) = {r.peer}
        BY <2>1, <4>3, PeersAssumption DEF Denoted
      <4> QED BY <4>4, <4>5
    <3> HIDE DEF w
    <3>3. w = write_input_peer(repl'.got[Len(repl'.got)])
      BY <2>2 DEF w, g
    <3> QED BY <1>3, <2>1, <3>2, <3>3, Zenon DEF ReachesOwner
  <2> QED BY <1>4, <2>2, <2>3, SMTT(20) DEF ReplInv, RefusalRecent
<1> QED BY <1>5, <1>6

\* resolve_history_peer, for "self", a name or an id.
LEMMA ArgumentKeeps ==
  ASSUME ReplInv, NEW a \in typed, resolve_history_peer(a)
  PROVE  ReplInv' /\ (a \in Names => ReachesOwner(a) /\ RefusalRecent(a))
<1>1. Resolving /\ UNCHANGED typed
  BY DEF resolve_history_peer, Asked
<1>2. CASE a = Self
  <2>1. Found(Self, FALSE) /\ UNCHANGED <<dvars, rvars>>
    BY <1>2, PeersAssumption, Zenon DEF resolve_history_peer
  <2>2. ReplOk(repl', typed')
    BY <1>1, <2>1, FoundKeeps, Zenon DEF ReplInv
  <2>3. DialogsInv' /\ ResolverInv'
    BY <2>1 DEF ReplInv, DialogsInv, ResolverInv, dvars, rvars
  <2> QED BY <1>2, <2>2, <2>3, PeersAssumption DEF ReplInv
<1>3. CASE a # Self /\ a \in Names
  <2>1. resolve_name(a)
    BY <1>3 DEF resolve_history_peer
  <2> QED BY <1>1, <1>3, <2>1, NameKeeps
<1>4. CASE a # Self /\ a \notin Names
  <2>1. resolve_numeric_peer(a)
    BY <1>4 DEF resolve_history_peer
  <2> QED BY <1>1, <1>4, <2>1, NumericKeeps
<1> QED BY <1>2, <1>3, <1>4

\* A line is typed.
LEMMA TypeKeeps ==
  ASSUME ReplInv, NEW args \in Seq(typed), Type(args) PROVE ReplInv'
<1>1. repl' = [Prompt EXCEPT !.args = args] /\ UNCHANGED <<typed, dvars, rvars>>
  BY DEF Type
<1>2. DOMAIN repl' = ReplFields /\ repl'.args = args /\ repl'.got = <<>>
      /\ repl'.sent = Quiet
  BY <1>1 DEF Prompt, ReplFields
<1>3. ReplOk(repl', typed')
  <2>1. Len(repl'.args) \in Nat /\ Len(repl'.got) = 0 /\ Len(repl'.got) <= Len(repl'.args)
    BY <1>2
  <2>2. repl'.args \in Seq(typed')
    BY <1>1, <1>2
  <2>3. repl'.got \in Seq(Got)
    <3>1. <<>> \in Seq(Got)
      BY EmptySeq
    <3> QED BY <1>2, <3>1
  <2> QED BY <1>2, <2>1, <2>2, <2>3, Zenon DEF ReplOk
<1>4. DialogsInv' /\ ResolverInv'
  BY <1>1 DEF ReplInv, DialogsInv, ResolverInv, dvars, rvars
<1> QED BY <1>3, <1>4 DEF ReplInv

\* The command is sent once all its peers are resolved.
LEMMA RunKeeps ==
  ASSUME ReplInv, NEW c \in OnePeer \cup {"forward"}, RunCommand(c) PROVE ReplInv'
<1>1. /\ repl.args # <<>> /\ ~Resolving /\ UNCHANGED <<typed, dvars, rvars>>
      /\ repl' = [repl EXCEPT !.args = <<>>, !.sent = Request(c, repl.got)]
  BY DEF RunCommand
<1>2. ReplOk(repl, typed)
  BY DEF ReplInv
<1> DEFINE q == Request(c, repl.got)
<1> HIDE DEF q
<1>3. DOMAIN repl' = ReplFields /\ repl'.args = <<>> /\ repl'.got = repl.got
      /\ repl'.sent = q
  BY <1>1, <1>2 DEF ReplOk, ReplFields, q
<1>4. repl.got # <<>>
  <2>1. repl.args \in Seq(typed) /\ repl.got \in Seq(Got) /\ Len(repl.got) \in Nat
        /\ Len(repl.args) \in Nat
    BY <1>2 DEF ReplOk
  <2>2. Len(repl.args) # 0
    BY <1>1, <2>1, EmptySeq
  <2> QED BY <1>1, <2>1, <2>2 DEF Resolving
<1>5. ReplOk(repl', typed')
  BY <1>1, <1>2, <1>3, <1>4 DEF ReplOk, q
<1>6. DialogsInv' /\ ResolverInv'
  BY <1>1 DEF ReplInv, DialogsInv, ResolverInv, dvars, rvars
<1> QED BY <1>5, <1>6 DEF ReplInv

\* do_dialogs and do_info fill the caches in between.
LEMMA InfoKeeps ==
  ASSUME ReplInv, \/ \E l \in Limits : do_dialogs(l)
                  \/ \E n \in Names : do_info(n)
  PROVE  ReplInv'
<1>1. repl' = Prompt /\ UNCHANGED typed
  BY DEF do_dialogs, do_info
<1>2. ReplOk(repl', typed')
  BY <1>1, PromptOk
<1>3. CASE \E l \in Limits : do_dialogs(l)
  <2>1. PICK l \in Limits : do_dialogs(l)
    BY <1>3
  <2>2. PICK r \in domain_get_dialogs(l) : dcache' = r.cache
    BY <2>1 DEF do_dialogs
  <2>3. UNCHANGED log /\ UNCHANGED rvars /\ l \in Nat
    BY <2>1, PeersAssumption DEF do_dialogs
  <2>4. DialogsInv'
    BY <2>2, <2>3, CacheKeeps DEF ReplInv
  <2> QED BY <1>2, <2>3, <2>4 DEF ReplInv, ResolverInv, rvars
<1>4. CASE \E n \in Names : do_info(n)
  <2>1. PICK n \in Names : do_info(n)
    BY <1>4
  <2>2. PICK r \in domain_resolve_username(n) : rcache' = r.table
    BY <2>1 DEF do_info
  <2>3. UNCHANGED <<owner, dvars>>
    BY <2>1 DEF do_info
  <2>4. ResolverInv'
    BY <2>2, <2>3, Resolved DEF ReplInv, ResolverInv
  <2> QED BY <1>2, <2>3, <2>4 DEF ReplInv, DialogsInv, dvars
<1> QED BY <1>3, <1>4

\* Time, new messages and names that change hands.
LEMMA EnvironmentKeeps == ASSUME ReplInv, Environment PROVE ReplInv'
<1>1. ReplOk(repl', typed')
  BY PromptOk DEF Environment, ReplInv
<1>2. CASE DPass /\ RPass
  BY <1>1, <1>2, PassKeeps, TimeKeeps DEF ReplInv
<1>3. CASE \E p \in Peers : Arrive(p) /\ UNCHANGED rvars
  <2>1. ResolverInv'
    BY <1>3 DEF ReplInv, ResolverInv, rvars
  <2> QED BY <1>1, <1>3, <2>1, ArriveKeeps DEF ReplInv
<1>4. CASE \E n \in Names : ChangeHands(n) /\ UNCHANGED dvars
  <2>1. DialogsInv'
    BY <1>4 DEF ReplInv, DialogsInv, dvars
  <2> QED BY <1>1, <1>4, <2>1, HandsKeep DEF ReplInv
<1> QED BY <1>2, <1>3, <1>4 DEF Environment

\* Every step keeps the invariant.
LEMMA ReplNext ==
  ASSUME ReplInv, [QNext]_<<dvars, rvars, qvars>>
  PROVE  ReplInv'
<1>1. CASE UNCHANGED <<dvars, rvars, qvars>>
  BY <1>1 DEF ReplInv, DialogsInv, ResolverInv, dvars, rvars, qvars
<1>2. CASE \E a \in typed : Type(<<a>>) \/ \E b \in typed : Type(<<a, b>>)
  <2>1. \A a, b \in typed : <<a>> \in Seq(typed) /\ <<a, b>> \in Seq(typed)
    OBVIOUS
  <2>2. \E args \in Seq(typed) : Type(args)
    BY <1>2, <2>1, Zenon
  <2> QED BY <2>2, TypeKeeps
<1>3. CASE \E a \in typed : resolve_history_peer(a)
  BY <1>3, ArgumentKeeps
<1> QED BY <1>1, <1>2, <1>3, RunKeeps, InfoKeeps, EnvironmentKeeps DEF QNext

\* The invariant holds throughout.
LEMMA ReplAlways == QSpec => []ReplInv
BY ReplStart, ReplNext, PTL DEF QSpec

\* What the request of each command names.
LEMMA BoxOfRequest ==
  ASSUME NEW got \in Seq(Got), got # <<>>, NEW c \in OnePeer \cup {"forward"}
  PROVE  LET to == Request(c, got).peers
             p == got[1].peer
         IN IF to = <<>> THEN p = Self \/ Kind[p] # "channel" ELSE Denoted(to[1]) = {p}
<1> DEFINE g == got[1]
<1>1. 1 \in 1..Len(got) /\ g \in Got /\ DOMAIN got = 1..Len(got)
  <2>1. Len(got) \in Nat /\ Len(got) # 0
    BY EmptySeq
  <2> QED BY <2>1, ElementOfSeq
<1>2. Denoted(write_input_peer(g)) = {g.peer}
  <2>1. g.peer \in Peers \cup {Self}
    BY <1>1 DEF Got
  <2>2. CASE g.peer = Self
    BY <2>2 DEF Denoted, write_input_peer
  <2>3. CASE g.peer # Self /\ g.peer \in Peers
    <3> DEFINE b == g.hash /\ Kind[g.peer] # "chat"
               w == write_input_peer(g)
    <3>1. w = [type |-> Kind[g.peer], id |-> Id[g.peer], hash |-> b]
      BY <2>3 DEF write_input_peer
    <3> HIDE DEF b, w
    <3>2. w.type = Kind[g.peer] /\ w.id = Id[g.peer]
      BY <3>1
    <3>3. Denoted(w) = {g.peer}
      BY <2>3, <3>2, PeersAssumption DEF Denoted
    <3> QED BY <3>3 DEF w
  <2> QED BY <2>1, <2>2, <2>3
<1>3. ASSUME NEW m PROVE Named(m, got).peers # <<>>
                         /\ Denoted(Named(m, got).peers[1]) = {g.peer}
  <2> DEFINE f == [i \in DOMAIN got |-> write_input_peer(got[i])]
  <2>1. Named(m, got).peers = f /\ f[1] = write_input_peer(g) /\ 1 \in DOMAIN f
    BY <1>1 DEF Named
  <2> QED BY <1>2, <2>1
<1>4. CASE c = "delete" /\ ~IsChannel(g)
  <2>1. Request(c, got).peers = <<>>
    BY <1>4 DEF Request, domain_delete_messages
  <2> QED BY <1>4, <2>1 DEF IsChannel
<1>5. CASE ~(c = "delete" /\ ~IsChannel(g))
  <2>1. \E m : Request(c, got) = Named(m, got)
    BY <1>5 DEF Request, OnePeer, domain_get_history, domain_search_peer,
                domain_send_message_reply, domain_edit_message, domain_delete_messages,
                domain_mark_read, domain_send_file, domain_forward_messages
  <2> QED BY <1>3, <2>1, Zenon
<1> QED BY <1>4, <1>5

\* Whatever the peers, names and commands: a request names the peer that was
\* resolved for it, and the one request without a peer,
\* messages.deleteMessages, is never sent for a channel.
THEOREM RequestsActInTheirBox == QSpec => []ActsInItsBox
<1>1. ReplInv => ActsInItsBox
  <2> SUFFICES ASSUME ReplInv, repl.sent # Quiet
               PROVE  LET box(p) == IF p # Self /\ Kind[p] = "channel" THEN p ELSE "account"
                          to == repl.sent.peers
                      IN IF to = <<>> THEN box(repl.got[1].peer) = "account"
                         ELSE Denoted(to[1]) = {repl.got[1].peer}
    BY DEF ActsInItsBox
  <2>1. PICK c \in OnePeer \cup {"forward"} : repl.sent = Request(c, repl.got)
    BY DEF ReplInv, ReplOk
  <2>2. repl.got \in Seq(Got) /\ repl.got # <<>>
    BY DEF ReplInv, ReplOk
  <2> QED BY <2>1, <2>2, BoxOfRequest, Zenon
<1> QED BY <1>1, ReplAlways, PTL

\* Whatever the table's size and the times names change hands: a name is
\* resolved to its owner, or to one it had less than RESOLVE_CACHE_TTL_S ago,
\* and refused from the table only within RESOLVE_CACHE_NEG_TTL_S.
THEOREM NamesResolveRecently == QSpec => ResolvesRecently
<1>1. ReplInv /\ [QNext]_<<dvars, rvars, qvars>> =>
        [\A n \in Names : Asked(n) => ReachesOwner(n) /\ RefusalRecent(n)
          ]_<<repl, owner, rcache>>
  <2> SUFFICES ASSUME ReplInv, QNext, NEW n \in Names, Asked(n)
               PROVE  ReachesOwner(n) /\ RefusalRecent(n)
    BY DEF dvars, rvars, qvars
  <2>1. repl.args # <<>>
    BY DEF ReplInv, ReplOk, Asked, Resolving
  <2>2. CASE \E a \in typed : resolve_history_peer(a)
    <3>1. PICK a \in typed : resolve_history_peer(a)
      BY <2>2
    <3>2. a = n
      BY <3>1 DEF resolve_history_peer, Asked
    <3> QED BY <3>1, <3>2, ArgumentKeeps
  <2>3. CASE Environment
    <3>1. repl' = repl
      BY <2>1, <2>3 DEF Environment
    <3>2. Len(repl.got) \in Nat /\ repl # Prompt
      BY <2>1 DEF ReplInv, ReplOk, Prompt
    <3> QED BY <3>1, <3>2 DEF ReachesOwner, RefusalRecent
  <2>4. CASE \E c \in OnePeer \cup {"forward"} : RunCommand(c)
    BY <2>4 DEF RunCommand, Asked
  <2> QED BY <2>1, <2>2, <2>3, <2>4 DEF QNext, Type, do_dialogs, do_info
<1> QED BY <1>1, ReplAlways, PTL DEF QSpec, ResolvesRecently
=============================================================================
