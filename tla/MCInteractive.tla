--------------------------- MODULE MCInteractive ----------------------------
(***************************************************************************)
(* tg-tui for TLC: its commands and its full-screen loop, which share the  *)
(* cached list of dialogs and never run in one process, so a behaviour     *)
(* exercises one of the two.                                               *)
(***************************************************************************)
EXTENDS Repl, Tui

VARIABLE part

vars == <<part, dvars, rvars, qvars, uvars>>

Init ==
    /\ part \in {"repl", "tui"}
    /\ DInit /\ RInit /\ QInit /\ UInit
    /\ part # "repl" => /\ typed \cap Names = {}
                        /\ \A n \in Names : Nobody \in Owners[n]
                                              => owner[n].peer = Nobody

OnlyTui == part = "tui" /\ UNCHANGED <<part, rvars, qvars>>

Next ==
    \/ part = "repl" /\ QNext /\ UNCHANGED <<part, uvars>>
    \/ OnlyTui /\ UNext

\* In the full-screen loop time passes, the user pauses for five seconds now
\* and then, and no call fails for ever.
Fairness ==
    /\ WF_vars(OnlyTui /\ Steps)
    /\ WF_vars(OnlyTui /\ DPass /\ UNCHANGED uvars)
    /\ SF_vars(OnlyTui /\ PollNews)
    /\ SF_vars(OnlyTui /\ Refresh /\ pane'.ver = Len(log))
    /\ SF_vars(OnlyTui /\ RefreshHistory /\ history_loaded(hist.peer))

Spec == Init /\ [][Next]_vars /\ Fairness

\* A user and a group with one id, and a channel that first has no dialog.
MCKind == [p \in Peers |-> CASE p = "ann" -> "user" [] p = "team" -> "chat"
                             [] p = "news" -> "channel"]
MCId == [p \in Peers |-> IF p = "news" THEN "2" ELSE "1"]
MCDialogs == <<"ann", "team">>

\* One name that comes and goes, one that stays, one longer than a key.
MCOwners == [n \in Names |-> CASE n = "a" -> {Nobody, "ann"}
                               [] n = "b" -> {"news"}
                               [] n = "long" -> {Nobody}]
MCKeyOf == [n \in Names |-> IF n = "long" THEN "lon" ELSE n]
MCTyped == {{"self", "a", "b", "long"}, {"self", "1", "2"}}
=============================================================================
