-------------------------------- MODULE Tui ---------------------------------
(***************************************************************************)
(* tg-tui --tui: the loop of run_tui_loop (main/tg_tui.c), the keys of     *)
(* tui/app.c and the two panes (tui/dialog_pane.c, tui/history_pane.c)     *)
(* over the cached list of dialogs.                                        *)
(*                                                                         *)
(* A pane is what it holds and the cursor, an index or -1; painting, the   *)
(* window of a list and the status line are left out.  Messages are        *)
(* counted: the history pane holds n messages of the peer "of", read when  *)
(* the server's log had length ver.  The list view, the dialog box and the *)
(* terminal are those of libtuikit.                                        *)
(***************************************************************************)
EXTENDS DialogsCache

CONSTANTS
    DIALOG_PANE_MAX,
    Pages           \* how many messages a history may come back with

ASSUME PagesAssumption == DIALOG_PANE_MAX \in Nat /\ Pages \subseteq Nat

VARIABLES
    pane,       \* dialogs: [ver, entries, sel]
    hist,       \* history: [loaded, peer, of, ver, n, sel]
    app,        \* focus; help_open
    upd,        \* upd_state: active, pts; and, for the properties, base, the
                \* pts of getState, and jumped, by differenceTooLong
    loop        \* where run_tui_loop is

uvars == <<pane, hist, app, upd, loop>>

NoPeer == "none"

UInit ==
    /\ pane = [ver |-> 0, entries |-> <<>>, sel |-> -1]
    /\ hist = [loaded |-> FALSE, peer |-> NoPeer, of |-> NoPeer, ver |-> 0,
               n |-> 0, sel |-> -1]
    /\ app = [focus |-> "dialogs", help |-> FALSE]
    /\ upd = [active |-> FALSE, pts |-> 0, base |-> 0, jumped |-> FALSE]
    /\ loop = "prime"

Goto(l) == loop' = l

\* Mutant: the cursor is put back where it was.
MutantKept(sel, n) == IF n = 0 THEN -1 ELSE IF sel > 0 THEN sel ELSE 0

\* A reload keeps the cursor, clamped.
Kept(sel, n) ==
    IF n = 0 THEN -1 ELSE IF sel <= 0 THEN 0 ELSE Min({sel, n - 1})

\* A failed load leaves the pane as it is.
dialog_pane_refresh(next) ==
    /\ UNCHANGED <<log, hist, app, upd>>
    /\ Goto(next)
    /\ \E r \in domain_get_dialogs(DIALOG_PANE_MAX) :
         /\ dcache' = r.cache
         /\ pane' = IF ~r.ok THEN pane
                    ELSE [ver |-> r.list.ver, entries |-> r.list.entries,
                          sel |-> Kept(pane.sel, Len(r.list.entries))]

dialog_pane_selected == pane.entries[pane.sel + 1].peer

history_loaded(p) ==
    \E n \in Pages :
      hist' = [loaded |-> TRUE, peer |-> p, of |-> p, ver |-> Len(log),
               n |-> n,
               sel |-> Kept(IF hist.loaded /\ hist.peer = p
                            THEN hist.sel ELSE 0, n)]

\* Mutant: a failed load leaves the messages of the dialog before.
MutantLoadFailed(p) == hist' = [hist EXCEPT !.loaded = TRUE, !.peer = p]

\* The messages of another dialog do not stay.
history_load_failed(p) ==
    IF hist.loaded /\ hist.peer = p THEN UNCHANGED hist
    ELSE hist' = [loaded |-> TRUE, peer |-> p, of |-> p, ver |-> 0,
                  n |-> 0, sel |-> -1]

history_pane_load(p) ==
    /\ Goto("wait")
    /\ UNCHANGED <<dvars, pane, app, upd>>
    /\ history_loaded(p) \/ history_load_failed(p)

-----------------------------------------------------------------------------
PrimeDialogs == loop = "prime" /\ dialog_pane_refresh("open terminal")

\* Without raw mode the program ends; without a state there is no polling.
Started ==
    /\ loop = "open terminal"
    /\ \/ Goto("quit") /\ UNCHANGED upd
       \/ Goto("wait") /\ UNCHANGED upd
       \/ /\ Goto("wait")
          /\ upd' = [active |-> TRUE, pts |-> Len(log), base |-> Len(log),
                     jumped |-> FALSE]
    /\ UNCHANGED <<dvars, pane, hist, app>>

\* Mutant: the state moves on to the messages just reported.
MutantNews ==
    /\ loop = "wait" /\ upd.active /\ upd.pts < Len(log)
    /\ upd' = [upd EXCEPT !.pts = Len(log)]
    /\ Goto("refresh")
    /\ UNCHANGED <<dvars, pane, hist, app>>

\* Five seconds without a key.  domain_updates_difference reports messages
\* but hands back the state it was given.
PollNews ==
    /\ loop = "wait" /\ upd.active /\ upd.pts < Len(log)
    /\ Goto("refresh")
    /\ UNCHANGED <<dvars, pane, hist, app, upd>>

\* differenceTooLong has no messages, so nothing is refreshed.
PollTooLong ==
    /\ loop = "wait" /\ upd.active /\ upd.pts < Len(log)
    /\ upd' = [upd EXCEPT !.pts = Len(log), !.jumped = TRUE]
    /\ UNCHANGED <<dvars, pane, hist, app, loop>>

Refresh ==
    /\ loop \in {"refresh", "reload"}
    /\ dialog_pane_refresh(IF hist.loaded THEN "history" ELSE "wait")

\* Mutant: the dialog under the cursor is read again.
MutantRefreshHistory ==
    /\ loop = "history"
    /\ history_pane_load(IF pane.entries # <<>> THEN dialog_pane_selected
                         ELSE hist.peer)

RefreshHistory == loop = "history" /\ history_pane_load(hist.peer)

\* dialog_to_history_peer: users and channels are not opened without their
\* access hash; the focus has moved all the same.
Open ==
    /\ loop = "open"
    /\ IF Kind[dialog_pane_selected] = "chat" \/ pane.entries[pane.sel + 1].hash
       THEN history_pane_load(dialog_pane_selected)
       ELSE Goto("wait") /\ UNCHANGED <<dvars, pane, hist, app, upd>>

Quit == Goto("quit") /\ UNCHANGED <<dvars, pane, hist, app, upd>>

\* A lost terminal, or a wait that fails.
TerminalGone == loop = "wait" /\ Quit

Focus(f, next) ==
    /\ app' = [app EXCEPT !.focus = f]
    /\ Goto(next)
    /\ UNCHANGED <<dvars, pane, hist, upd>>

CtrlC == loop = "wait" /\ Quit

\* The help box takes every key until it closes.
HelpKey ==
    /\ loop = "wait" /\ app.help
    /\ app' = [app EXCEPT !.help = FALSE]
    /\ UNCHANGED <<dvars, pane, hist, upd, loop>>

Key == loop = "wait" /\ ~app.help

Help ==
    /\ Key
    /\ app' = [app EXCEPT !.help = TRUE]
    /\ UNCHANGED <<dvars, pane, hist, upd, loop>>

\* Esc goes back or quits; q, Backspace, h and Left only go back.
Esc == Key /\ IF app.focus = "dialogs" THEN Quit ELSE Focus("dialogs", "wait")
Back == Key /\ app.focus = "history" /\ Focus("dialogs", "wait")

\* l and Right move the focus and load nothing.
Forth == Key /\ app.focus = "dialogs" /\ Focus("history", "wait")

Reload ==
    /\ Key /\ Goto("reload")
    /\ UNCHANGED <<dvars, pane, hist, app, upd>>

Enter ==
    /\ Key /\ app.focus = "dialogs" /\ pane.sel \in 0..Len(pane.entries) - 1
    /\ Focus("history", "open")

\* The keys of the list that has the focus.
Move ==
    /\ Key
    /\ \/ /\ app.focus = "dialogs"
          /\ \E i \in 0..Len(pane.entries) - 1 : pane' = [pane EXCEPT !.sel = i]
          /\ UNCHANGED hist
       \/ /\ app.focus = "history"
          /\ \E i \in 0..hist.n - 1 : hist' = [hist EXCEPT !.sel = i]
          /\ UNCHANGED pane
    /\ UNCHANGED <<dvars, app, upd, loop>>

\* What the loop does by itself between two waits.
Steps == PrimeDialogs \/ Started \/ Refresh \/ RefreshHistory \/ Open

World == (DPass \/ \E p \in Peers : Arrive(p)) /\ UNCHANGED uvars

UNext ==
    \/ Steps \/ PollNews \/ PollTooLong
    \/ TerminalGone \/ CtrlC \/ HelpKey \/ Help \/ Esc \/ Back \/ Forth
    \/ Reload \/ Enter \/ Move \/ World

USpec == DInit /\ UInit /\ [][UNext]_<<dvars, uvars>>

-----------------------------------------------------------------------------
(***************************************************************************)
(* The cursor of each pane is one of its entries, -1 when it has none,     *)
(* through every reload that returns a shorter list: dialog_pane_selected  *)
(* and the rows drawn index the entries with it.                           *)
(***************************************************************************)
CursorInside ==
    /\ pane.sel \in -1..Len(pane.entries) - 1
    /\ pane.sel = -1 <=> pane.entries = <<>>
    /\ hist.sel \in -1..hist.n - 1
    /\ hist.sel = -1 <=> hist.n = 0

(***************************************************************************)
(* The history pane holds messages of the dialog it says it shows: after a *)
(* load of another dialog that failed it is empty (history_pane_load).     *)
(***************************************************************************)
HistoryOfPeer == hist.n > 0 => hist.loaded /\ hist.of = hist.peer

(***************************************************************************)
(* Only Enter changes the dialog that is open, to the one under the        *)
(* cursor: a poll or a reload, which may put another dialog under the      *)
(* cursor, reads the open one again (run_tui_loop).                        *)
(***************************************************************************)
OpenChatStays ==
    [][hist'.peer # hist.peer =>
         loop = "open" /\ hist'.peer = dialog_pane_selected]_uvars

\* Messages since polling began that a pane does not show.
ChatBehind ==
    /\ hist.loaded /\ upd.active
    /\ \E i \in Max({hist.ver, upd.base}) + 1..Len(log) :
         log[i].peer = hist.peer

DialogsBehind == upd.active /\ Max({pane.ver, upd.base}) < Len(log)

Ended == loop = "quit" \/ upd.jumped

(***************************************************************************)
(* "New messages for the open chat appear": a message that arrives while   *)
(* the updates are polled gets into the open history, unless the server    *)
(* answers differenceTooLong, which run_tui_loop takes for no news.        *)
(***************************************************************************)
ChatCatchesUp == ChatBehind ~> (~ChatBehind \/ Ended)

(***************************************************************************)
(* The same for the list of dialogs, although a refresh soon after a read  *)
(* of the list is answered from the cache: the poll must go on reporting   *)
(* the message until the cache has expired.                                *)
(***************************************************************************)
DialogsCatchUp == DialogsBehind ~> (~DialogsBehind \/ Ended)

(***************************************************************************)
(* Both panes catch up with the messages that poll_updates reports.        *)
(***************************************************************************)
PanesCatchUp == ChatCatchesUp /\ DialogsCatchUp
=============================================================================
