---------------------------- MODULE ClientProofs ----------------------------
(***************************************************************************)
(* Proofs about what a client makes of the server's answers, each from the *)
(* specification of its component: the updates that the watch command      *)
(* follows from one saved pts to the next (Watch), and the nested media of *)
(* an answer (TlReader).                                                   *)
(***************************************************************************)
EXTENDS Watch, TlReader, FiniteSetTheorems, TLAPS

(* The watch command and updates.state. *)

\* The fields of a watch process, and the steps at which it is inside
\* updates_state_save.
WatchFields == {"pc", "pts", "filter", "json", "diff", "buf", "backoff", "stop", "conn", "then"}
Writing == {"close", "rename"}
WatchPCs == {"off", "load", "poll", "seed", "save", "close", "rename", "print"}

\* Every message up to p was printed, was before a seed, or is not one.
Covered(p) ==
    \A m \in 1..p : m \in printed \/ m \in skipped \/ Log[m].kind = "update"

\* Types; a pts in memory or in a file is one the server has reached.
WatchShape ==
    /\ setup \in Setups /\ spts \in 0..Len(Log)
    /\ DOMAIN watch = Watchers
    /\ \A w \in Watchers : /\ DOMAIN watch[w] = WatchFields
                           /\ watch[w].pc \in WatchPCs /\ watch[w].then \in {"poll", "print"}
                           /\ watch[w].pts \in 0..spts
    /\ file \in [{"state", "tmp"} -> [pts : Int, tail : Int]]
    /\ \A n \in {"state", "tmp"} : file[n].pts <= spts
    /\ fp \in [Watchers -> {"tmp", "state", "unlinked", "closed"}]

\* Every pts held in memory or on disk is accounted for.
Accounted ==
    /\ \A w \in Watchers : Covered(watch[w].pts)
    /\ \A n \in {"state", "tmp"} : Covered(file[n].pts)

\* A file that updates_state_load accepts.
Complete(t) == t.pts >= 0 /\ t.tail = 0

\* As long as no save met the leftovers of another one: at most one process
\* is inside updates_state_save, its handle is the temporary file, and
\* updates.state is missing or complete.
OneSaver ==
    /\ \A w \in Watchers : fp[w] = IF watch[w].pc = "close" THEN "tmp" ELSE "closed"
    /\ \A w \in Watchers : /\ watch[w].pc = "close" => file["tmp"] = Blank
                           /\ watch[w].pc = "rename" => Complete(file["tmp"])
    /\ \A v, w \in Watchers : watch[v].pc \in Writing /\ watch[w].pc \in Writing => v = w
    /\ file["state"] = Missing \/ Complete(file["state"])

\* The inductive invariant: without Accounted a load could resume past
\* messages nobody printed, and only OneSaver makes a refused file a crossing.
WatchInv == WatchShape /\ Accounted /\ (crossed \/ OneSaver)

\* No process runs and no file exists at first.
LEMMA WatchStart == WInit => WatchInv
<1> SUFFICES ASSUME WInit PROVE WatchInv
  OBVIOUS
<1> USE DEF WInit, SInit, Off
<1>1. Len(Log) \in Nat
  BY SetupsAssumption DEF Log
<1>2. WatchShape
  BY <1>1 DEF WatchShape, WatchFields, WatchPCs, Missing
<1>3. Accounted
  BY DEF Accounted, Covered, Missing
<1>4. OneSaver
  BY DEF OneSaver, Complete, Missing, Writing
<1> QED BY <1>2, <1>3, <1>4 DEF WatchInv

\* What has been accounted for stays so.
LEMMA StaysCovered ==
  ASSUME UNCHANGED setup, printed \subseteq printed', skipped \subseteq skipped',
         NEW p, Covered(p)
  PROVE  Covered(p)'
BY DEF Covered, Log

\* A step of one process that leaves the files alone.
LocalStep(w) ==
    /\ UNCHANGED <<svars, spts, setup>>
    /\ printed \subseteq printed' /\ skipped \subseteq skipped'
    /\ DOMAIN watch' = Watchers
    /\ \A v \in Watchers \ {w} : watch'[v] = watch[v]
    /\ DOMAIN watch'[w] = WatchFields
    /\ watch'[w].then \in {"poll", "print"}
    /\ \/ watch'[w].pc = watch[w].pc
       \/ watch[w].pc \notin Writing /\ watch'[w].pc \in WatchPCs \ Writing
    /\ watch'[w].pts \in 0..spts /\ Covered(watch[w].pts)'

\* Such a step keeps the invariant, for it leaves everything shared alone.
LEMMA LocalStepKeeps ==
  ASSUME WatchInv, NEW w \in Watchers, LocalStep(w)
  PROVE  WatchInv'
<1>1. UNCHANGED <<file, fp, crossed, spts, setup>>
      /\ \A v \in Watchers \ {w} : watch'[v] = watch[v]
  BY DEF LocalStep, svars
<1>2. WatchShape'
  BY <1>1 DEF WatchInv, WatchShape, LocalStep, Log
<1>3. Accounted'
  <2>1. ASSUME NEW v \in Watchers PROVE Covered(watch[v].pts)'
    <3>1. CASE v = w
      BY <3>1 DEF LocalStep
    <3>2. CASE v # w
      <4>1. watch'[v] = watch[v] /\ Covered(watch[v].pts)
        BY <3>2, <1>1 DEF WatchInv, Accounted
      <4> QED BY <4>1, StaysCovered DEF LocalStep
    <3> QED BY <3>1, <3>2
  <2>2. ASSUME NEW n \in {"state", "tmp"} PROVE Covered(file[n].pts)'
    <3>1. file'[n] = file[n] /\ Covered(file[n].pts)
      BY <1>1 DEF WatchInv, Accounted
    <3> QED BY <3>1, StaysCovered, <1>1 DEF LocalStep
  <2> QED BY <2>1, <2>2 DEF Accounted
<1>4. ~crossed => OneSaver'
  <2> SUFFICES ASSUME ~crossed PROVE OneSaver'
    OBVIOUS
  <2>1. \A v \in Watchers : watch'[v].pc = watch[v].pc
                            \/ (watch[v].pc \notin Writing /\ watch'[v].pc \notin Writing)
    BY <1>1 DEF LocalStep
  <2>2. OneSaver
    BY DEF WatchInv
  <2> HIDE DEF LocalStep, WatchInv
  <2>3. \A v \in Watchers : (watch'[v].pc = "close" <=> watch[v].pc = "close")
                         /\ (watch'[v].pc = "rename" <=> watch[v].pc = "rename")
    BY <2>1 DEF Writing
  <2> QED BY <1>1, <2>2, <2>3 DEF OneSaver, Writing
<1> QED BY <1>1, <1>2, <1>3, <1>4 DEF WatchInv

\* updates_state_load resumes at a pts that is accounted for, or not at all.
LEMMA LoadKeeps == ASSUME WatchInv, NEW w \in Watchers, Load(w) PROVE WatchInv'
<1>1. UNCHANGED <<svars, file, spts, setup, printed, skipped>>
  BY DEF Load, Own, svars, counters
<1>2. watch[w].pc = "load" /\ DOMAIN watch = Watchers /\ DOMAIN watch[w] = WatchFields
      /\ watch[w].then \in {"poll", "print"}
  BY DEF Load, WatchInv, WatchShape
<1>3. CASE updates_state_load # -1
  <2> DEFINE p == updates_state_load
  <2>1. p \in 0..spts /\ Covered(p)
    BY <1>3 DEF WatchInv, WatchShape, Accounted, updates_state_load, Loads
  <2>2. watch' = [watch EXCEPT ![w] = [@ EXCEPT !.pc = "poll", !.pts = p]]
    BY <1>3 DEF Load
  <2> HIDE DEF p
  <2>3. LocalStep(w)
    BY <1>1, <1>2, <2>1, <2>2
         DEF LocalStep, Writing, WatchPCs, WatchFields, Covered, Log
  <2> QED BY <2>3, LocalStepKeeps
<1>4. CASE updates_state_load = -1
  <2>1. watch' = [watch EXCEPT ![w] = [@ EXCEPT !.pc = "seed"]]
    BY <1>4 DEF Load
  <2>2. watch[w].pts \in 0..spts /\ Covered(watch[w].pts)
    BY DEF WatchInv, WatchShape, Accounted
  <2>3. LocalStep(w)
    BY <1>1, <1>2, <2>1, <2>2
         DEF LocalStep, Writing, WatchPCs, WatchFields, Covered, Log
  <2> QED BY <2>3, LocalStepKeeps
<1> QED BY <1>3, <1>4

\* What the invariant says of one process.
LEMMA OneWatcher ==
  ASSUME WatchInv, NEW w \in Watchers
  PROVE  /\ DOMAIN watch = Watchers /\ DOMAIN watch[w] = WatchFields
         /\ watch[w].pc \in WatchPCs /\ watch[w].then \in {"poll", "print"}
         /\ watch[w].pts \in 0..spts /\ Covered(watch[w].pts)
BY DEF WatchInv, WatchShape, Accounted

\* An ended process has no state.
LEMMA OffIsLocal ==
  ASSUME WatchInv, NEW w \in Watchers, UNCHANGED <<svars, spts, setup>>,
         printed \subseteq printed', skipped \subseteq skipped',
         watch[w].pc \notin Writing, watch' = [watch EXCEPT ![w] = Off]
  PROVE  WatchInv'
<1>1. spts \in Nat
  BY SetupsAssumption DEF WatchInv, WatchShape, Log
<1>2. watch'[w] = Off /\ Off.pts = 0
  BY OneWatcher DEF Off
<1>3. LocalStep(w)
  BY <1>1, <1>2, OneWatcher DEF LocalStep, Writing, WatchPCs, WatchFields, Covered, Off
<1> QED BY <1>3, LocalStepKeeps

\* The two ways cmd_watch returns.
LEMMA EndsKeep ==
  ASSUME WatchInv, NEW w \in Watchers, SeedFails(w) \/ Exit(w) PROVE WatchInv'
<1>1. watch[w].pc \notin Writing /\ watch' = [watch EXCEPT ![w] = Off]
  BY DEF SeedFails, Exit, Writing
<1>2. UNCHANGED <<svars, spts, setup>> /\ printed \subseteq printed'
      /\ skipped \subseteq skipped'
  BY DEF SeedFails, Exit, Own, counters
<1> QED BY <1>1, <1>2, OffIsLocal, Zenon

\* The steps that touch neither files nor pts.
LEMMA PlainKeep ==
  ASSUME WatchInv, NEW w \in Watchers, UNCHANGED <<svars, spts, setup>>,
         printed \subseteq printed', skipped \subseteq skipped',
         DOMAIN watch' = Watchers, \A v \in Watchers \ {w} : watch'[v] = watch[v],
         DOMAIN watch'[w] = WatchFields, watch'[w].then = watch[w].then,
         watch'[w].pts = watch[w].pts,
         \/ watch'[w].pc = watch[w].pc
         \/ (watch[w].pc \notin Writing /\ watch'[w].pc \in WatchPCs \ Writing)
  PROVE  WatchInv'
<1>1. Covered(watch[w].pts)'
  BY OneWatcher, StaysCovered
<1>2. LocalStep(w)
  BY <1>1, OneWatcher DEF LocalStep
<1> QED BY <1>2, LocalStepKeeps

\* domain_updates_state: what came before the seed counts as skipped.
LEMMA SeedKeeps ==
  ASSUME WatchInv, NEW w \in Watchers, domain_updates_state(w) PROVE WatchInv'
<1>1. spts \in Nat
  BY SetupsAssumption DEF WatchInv, WatchShape, Log
<1>2. watch' = [watch EXCEPT ![w].pc = "save", ![w].pts = spts, ![w].then = "poll"]
      /\ watch[w].pc = "seed" /\ skipped' = skipped \cup (1..spts)
      /\ UNCHANGED <<svars, spts, setup, printed>>
  BY DEF domain_updates_state, counters
<1>3. watch'[w].pts = spts
  BY <1>2, OneWatcher DEF WatchFields
<1>4. Covered(watch[w].pts)'
  BY <1>2, <1>3 DEF Covered
<1>5. LocalStep(w)
  BY <1>1, <1>2, <1>3, <1>4, OneWatcher DEF LocalStep, Writing, WatchPCs, WatchFields
<1> QED BY <1>5, LocalStepKeeps

\* domain_updates_difference: pts moves only to what the answer covers.
LEMMA PollKeeps ==
  ASSUME WatchInv, NEW w \in Watchers, Poll(w) PROVE WatchInv'
<1> DEFINE d == domain_updates_difference(watch[w].pts)
<1>1. spts \in Nat
  BY SetupsAssumption DEF WatchInv, WatchShape, Log
<1>2. /\ watch' = [watch EXCEPT ![w].pc = "save", ![w].then = "print",
                                ![w].pts = d.pts, ![w].backoff = 0,
                                ![w].diff = Ordered(d.new)]
      /\ watch[w].pc = "poll" /\ skipped' = skipped \cup d.skip
      /\ UNCHANGED <<svars, spts, setup, printed>>
  BY DEF Poll, counters
<1>3. \/ d.pts = watch[w].pts
      \/ d.pts = spts /\ d.skip = (watch[w].pts + 1)..spts
  BY DEF domain_updates_difference
<1> HIDE DEF d
<1>4. watch'[w].pts = d.pts /\ d.pts \in 0..spts
  BY <1>1, <1>2, <1>3, OneWatcher DEF WatchFields
<1>5. Covered(watch[w].pts)'
  BY <1>1, <1>2, <1>3, <1>4, OneWatcher, SMTT(20) DEF Covered, Log
<1>6. LocalStep(w)
  BY <1>1, <1>2, <1>4, <1>5, OneWatcher DEF LocalStep, Writing, WatchPCs, WatchFields
<1> QED BY <1>6, LocalStepKeeps

\* The steps of the loop that leave pts and the files as they are: a failed
\* save or poll, printing, flushing, SIGINT and a dropped connection.
LEMMA StepsKeep ==
  ASSUME WatchInv, NEW w \in Watchers,
         SaveFails(w) \/ PollFails(w) \/ PrintEntry(w) \/ Flush(w)
           \/ on_sigint(w) \/ Drop(w)
  PROVE  WatchInv'
<1> USE DEF Own, counters, svars, Fault
<1>1. CASE SaveFails(w)
  BY <1>1, PlainKeep, OneWatcher DEF SaveFails, To, Writing, WatchPCs, WatchFields
<1>2. CASE PollFails(w)
  BY <1>2, PlainKeep, OneWatcher, SMTT(20) DEF PollFails, WatchFields
<1>3. CASE PrintEntry(w)
  <2> DEFINE m == Head(watch[w].diff)
             shown == watch_peer_allowed(watch[w].filter, Log[m].peer)
             epipe == shown /\ watch[w].json /\ gone[w]
  <2>1. /\ watch' = [watch EXCEPT
            ![w].diff = IF epipe THEN <<>> ELSE Tail(@),
            ![w].stop = @ \/ epipe,
            ![w].buf = IF shown /\ ~watch[w].json THEN @ \cup {m} ELSE @]
        /\ printed' = IF shown /\ watch[w].json /\ ~epipe
                     THEN printed \cup {m} ELSE printed
        /\ UNCHANGED <<svars, spts, setup, skipped>>
    BY <1>3 DEF PrintEntry
  <2> HIDE DEF m, shown, epipe
  <2>2. printed \subseteq printed'
    BY <2>1
  <2> QED BY <2>1, <2>2, PlainKeep, OneWatcher, SMTT(20) DEF WatchFields
<1>4. CASE Flush(w)
  <2>1. printed \subseteq printed'
    BY <1>4 DEF Flush
  <2> QED BY <1>4, <2>1, PlainKeep, OneWatcher, SMTT(20)
          DEF Flush, WatchFields, Writing, WatchPCs
<1>5. CASE on_sigint(w)
  BY <1>5, PlainKeep, OneWatcher DEF on_sigint, WatchFields
<1>6. CASE Drop(w)
  BY <1>6, PlainKeep, OneWatcher DEF Drop, WatchFields
<1> QED BY <1>1, <1>2, <1>3, <1>4, <1>5, <1>6

\* A reader that goes away, and a new watch command.
LEMMA OthersKeep ==
  ASSUME WatchInv, NEW w \in Watchers,
         ReaderExits(w) \/ \E opt \in Options[w] : cmd_watch(w, opt)
  PROVE  WatchInv'
<1>1. CASE ReaderExits(w)
  BY <1>1, PlainKeep, OneWatcher DEF ReaderExits, Fault
<1>2. ASSUME NEW opt \in Options[w], cmd_watch(w, opt) PROVE WatchInv'
  <2> DEFINE f == watch_peers_resolve(opt.peers)
  <2>1. /\ watch[w].pc = "off"
        /\ watch' = [watch EXCEPT ![w] = [Off EXCEPT !.pc = "load", !.filter = f,
                                                     !.json = opt.json]]
        /\ UNCHANGED <<svars, spts, setup, printed, skipped>>
    BY <1>2, Zenon DEF cmd_watch
  <2> HIDE DEF f
  <2>2. spts \in Nat
    BY SetupsAssumption DEF WatchInv, WatchShape, Log
  <2>3. watch'[w].pts = 0
    BY <2>1, OneWatcher DEF Off
  <2>4. LocalStep(w)
    BY <2>1, <2>2, <2>3, OneWatcher
         DEF LocalStep, Off, WatchFields, Writing, WatchPCs, Covered
  <2> QED BY <2>4, LocalStepKeeps
<1> QED BY <1>1, <1>2

\* A new message reaches the server.
LEMMA ArriveKeeps == ASSUME WatchInv, Arrive PROVE WatchInv'
<1>1. spts \in Nat /\ spts' = spts + 1 /\ spts < Len(Log) /\ Len(Log) \in Nat
      /\ UNCHANGED <<file, fp, crossed, watch, printed, skipped, setup>>
  BY SetupsAssumption DEF WatchInv, WatchShape, Log, Arrive, svars, counters
<1>2. WatchShape'
  BY <1>1 DEF WatchInv, WatchShape, Log
<1>3. Accounted'
  BY <1>1 DEF WatchInv, Accounted, Covered, Log
<1>4. ~crossed => OneSaver'
  BY <1>1 DEF WatchInv, OneSaver
<1> QED BY <1>1, <1>2, <1>3, <1>4 DEF WatchInv

\* A step of updates_state_save, or the end of the process within it: pts and
\* what has been accounted for stay, a file has a state some process had.
LEMMA FilesKeep ==
  ASSUME WatchInv, NEW w \in Watchers, UNCHANGED <<spts, setup, printed, skipped>>,
         DOMAIN watch' = Watchers, \A v \in Watchers \ {w} : watch'[v] = watch[v],
         DOMAIN watch'[w] = WatchFields, watch'[w].then \in {"poll", "print"},
         watch'[w].pts \in {0, watch[w].pts}, watch'[w].pc \in WatchPCs,
         fp' \in [Watchers -> {"tmp", "state", "unlinked", "closed"}],
         file' \in [{"state", "tmp"} -> [pts : Int, tail : Int]],
         \A n \in {"state", "tmp"} : file'[n].pts \in {-2, -1, watch[w].pts, file["tmp"].pts,
                                                     file["state"].pts}
  PROVE  WatchShape' /\ Accounted'
<1>1. spts \in Nat /\ watch[w].pts \in 0..spts
  BY SetupsAssumption DEF WatchInv, WatchShape, Log
<1>2. WatchShape'
  <2>1. \A n \in {"state", "tmp"} : file'[n].pts <= spts'
    BY <1>1, SMTT(20) DEF WatchInv, WatchShape
  <2>2. \A v \in Watchers : /\ DOMAIN watch'[v] = WatchFields /\ watch'[v].pc \in WatchPCs
                            /\ watch'[v].then \in {"poll", "print"}
                            /\ watch'[v].pts \in 0..spts'
    BY <1>1, SMTT(20) DEF WatchInv, WatchShape
  <2>3. setup' \in Setups /\ spts' \in 0..Len(Log')
    BY DEF WatchInv, WatchShape, Log
  <2> QED BY <2>1, <2>2, <2>3 DEF WatchShape
<1>3. Covered(0) /\ Covered(-1) /\ Covered(-2) /\ Covered(watch[w].pts)
      /\ Covered(file["tmp"].pts) /\ Covered(file["state"].pts)
  BY DEF WatchInv, Accounted, Covered
<1>4. \A p : Covered(p) => Covered(p)'
  BY StaysCovered
<1>5. ASSUME NEW v \in Watchers PROVE Covered(watch[v].pts)'
  <2>1. \E p : watch'[v].pts = p /\ Covered(p)
    BY <1>3 DEF WatchInv, Accounted
  <2> QED BY <2>1, <1>4
<1>6. ASSUME NEW n \in {"state", "tmp"} PROVE Covered(file[n].pts)'
  <2>1. \E p : file'[n].pts = p /\ Covered(p)
    BY <1>3
  <2> QED BY <2>1, <1>4
<1> QED BY <1>2, <1>5, <1>6 DEF Accounted

\* A process killed anywhere, also between open, close and rename.
LEMMA KillKeeps == ASSUME WatchInv, NEW w \in Watchers, Kill(w) PROVE WatchInv'
<1>1. /\ watch' = [watch EXCEPT ![w] = Off] /\ fp' = [fp EXCEPT ![w] = "closed"]
      /\ UNCHANGED <<spts, setup, printed, skipped, file, crossed>>
  BY DEF Kill, save_killed, Fault
<1>2. DOMAIN watch' = Watchers /\ watch'[w] = Off
      /\ \A v \in Watchers \ {w} : watch'[v] = watch[v]
  BY <1>1, OneWatcher
<1>3. WatchShape' /\ Accounted'
  <2>1. /\ file' \in [{"state", "tmp"} -> [pts : Int, tail : Int]]
        /\ fp' \in [Watchers -> {"tmp", "state", "unlinked", "closed"}]
    BY <1>1 DEF WatchInv, WatchShape
  <2>2. DOMAIN Off = WatchFields /\ Off.then \in {"poll", "print"} /\ Off.pts = 0
        /\ Off.pc \in WatchPCs
    BY DEF Off, WatchFields, WatchPCs
  <2>3. \A n \in {"state", "tmp"} : file'[n].pts \in {-2, -1, watch[w].pts, file["tmp"].pts,
                                                     file["state"].pts}
    BY <1>1
  <2> QED BY <1>1, <1>2, <2>1, <2>2, <2>3, FilesKeep
<1>4. ~crossed => OneSaver'
  <2> SUFFICES ASSUME ~crossed PROVE OneSaver'
    OBVIOUS
  <2>1. OneSaver /\ fp \in [Watchers -> {"tmp", "state", "unlinked", "closed"}]
    BY DEF WatchInv, WatchShape
  <2>2. watch'[w].pc = "off" /\ fp'[w] = "closed"
    BY <1>1, <1>2, <2>1 DEF Off
  <2> QED BY <1>1, <1>2, <2>1, <2>2 DEF OneSaver, Writing
<1> QED BY <1>1, <1>3, <1>4 DEF WatchInv

\* updates_state_save: open truncates the temporary file, close writes the
\* text through the handle, rename puts it in place.
LEMMA SaveKeeps == ASSUME WatchInv, NEW w \in Watchers, Save(w) PROVE WatchInv'
<1>1. UNCHANGED <<spts, setup, printed, skipped>>
  BY DEF Save, counters
<1>2. PICK nxt : /\ watch' = [watch EXCEPT ![w].pc = nxt] /\ nxt \in WatchPCs
                /\ \/ watch[w].pc = "save" /\ save_open(w) /\ nxt = "close"
                   \/ watch[w].pc = "close" /\ save_close(w, watch[w].pts) /\ nxt = "rename"
                   \/ watch[w].pc = "rename" /\ (save_rename(w) \/ save_rename_fails(w))
                      /\ nxt = watch[w].then
  BY OneWatcher, SMTT(20) DEF Save, To, WatchPCs
<1>3. /\ DOMAIN watch' = Watchers /\ \A v \in Watchers \ {w} : watch'[v] = watch[v]
      /\ DOMAIN watch'[w] = WatchFields /\ watch'[w].then = watch[w].then
      /\ watch'[w].pts = watch[w].pts /\ watch'[w].pc = nxt
  BY <1>2, OneWatcher DEF WatchFields
<1>4. /\ fp \in [Watchers -> {"tmp", "state", "unlinked", "closed"}]
      /\ file \in [{"state", "tmp"} -> [pts : Int, tail : Int]]
      /\ spts \in Nat /\ watch[w].pts \in 0..spts
      /\ Width[watch[w].pts] \in Nat
  BY SetupsAssumption, WidthAssumption DEF WatchInv, WatchShape, Log
<1>5. CASE watch[w].pc = "save" /\ save_open(w) /\ nxt = "close"
  <2>1. /\ file' = [file EXCEPT !["tmp"] = Blank] /\ fp' = [fp EXCEPT ![w] = "tmp"]
        /\ crossed' = (crossed \/ file["tmp"] # Missing)
    BY <1>5 DEF save_open
  <2>2. file' \in [{"state", "tmp"} -> [pts : Int, tail : Int]] /\ file'["tmp"] = Blank
        /\ file'["state"] = file["state"] /\ Blank.pts = -1
    BY <2>1, <1>4 DEF Blank
  <2>3. fp' \in [Watchers -> {"tmp", "state", "unlinked", "closed"}]
    BY <2>1, <1>4
  <2>4. WatchShape' /\ Accounted'
    BY <1>1, <1>2, <1>3, <2>2, <2>3, OneWatcher, FilesKeep, SMTT(20)
  <2>5. ~crossed' => OneSaver'
    <3> SUFFICES ASSUME ~crossed, file["tmp"] = Missing PROVE OneSaver'
      BY <2>1, Zenon
    <3>1. OneSaver /\ Missing # Blank /\ ~Complete(Missing)
      BY DEF WatchInv, Missing, Blank, Complete
    <3>2. \A v \in Watchers : watch[v].pc \notin Writing
      BY <3>1 DEF OneSaver, Writing
    <3> QED BY <1>3, <1>4, <1>5, <2>1, <2>2, <3>1, <3>2 DEF OneSaver, Writing
  <2> QED BY <2>4, <2>5 DEF WatchInv
<1>6. CASE watch[w].pc = "close" /\ save_close(w, watch[w].pts) /\ nxt = "rename"
  <2> DEFINE n == fp[w]
             rest == TextLen(file[n]) - Width[watch[w].pts]
             new == [pts |-> watch[w].pts, tail |-> IF rest > 0 THEN rest ELSE 0]
  <2>1. /\ file' = (IF n = "unlinked" THEN file ELSE [file EXCEPT ![n] = new])
        /\ fp' = [fp EXCEPT ![w] = "closed"] /\ UNCHANGED crossed
    BY <1>6 DEF save_close
  <2>2. n \in {"state", "tmp"} => new \in [pts : Int, tail : Int]
    <3> SUFFICES ASSUME n \in {"state", "tmp"} PROVE rest \in Int
      BY <1>4
    <3>1. file[n].pts \in Int /\ file[n].tail \in Int /\ file[n].pts <= spts
          /\ spts <= Len(Log) /\ spts \in Nat /\ Len(Log) \in Nat
          /\ \A p \in 0..Len(Log) : Width[p] \in Nat
      BY <1>4, SetupsAssumption, WidthAssumption, SMTT(20) DEF WatchInv, WatchShape, Log
    <3> DEFINE p == file[n].pts
    <3>2. p < 0 \/ Width[p] \in Nat
      <4>1. p < 0 \/ p \in 0..Len(Log)
        BY <3>1
      <4> QED BY <3>1, <4>1, Zenon
    <3>3. TextLen(file[n]) = 0 \/ (Width[p] \in Nat
                                  /\ TextLen(file[n]) = Width[p] + file[n].tail)
      BY <3>2 DEF TextLen
    <3>4. TextLen(file[n]) \in Int
      <4> HIDE DEF n, p
      <4> QED BY <3>1, <3>3
    <3> QED BY <1>4, <3>4
  <2>3. n = "tmp" /\ file["tmp"] = Blank => new = [pts |-> watch[w].pts, tail |-> 0]
    BY <1>4 DEF TextLen, Blank
  <2>4. new.pts = watch[w].pts
    OBVIOUS
  <2> HIDE DEF new
  <2>5. /\ file' \in [{"state", "tmp"} -> [pts : Int, tail : Int]]
        /\ \A k \in {"state", "tmp"} : file'[k].pts \in {watch[w].pts, file[k].pts}
    <3>1. CASE n \in {"state", "tmp"}
      BY <2>1, <2>2, <2>4, <3>1, <1>4
    <3>2. CASE n \notin {"state", "tmp"}
      <4>1. file' = file
        BY <2>1, <3>2, <1>4
      <4> QED BY <4>1, <1>4
    <3> QED BY <3>1, <3>2
  <2>6. fp' \in [Watchers -> {"tmp", "state", "unlinked", "closed"}]
    BY <2>1, <1>4
  <2>7. WatchShape' /\ Accounted'
    BY <1>1, <1>2, <1>3, <2>5, <2>6, OneWatcher, FilesKeep, SMTT(20)
  <2>8. ~crossed' => OneSaver'
    <3> SUFFICES ASSUME ~crossed PROVE OneSaver'
      BY <2>1
    <3>1. OneSaver
      BY DEF WatchInv
    <3>2. n = "tmp" /\ file["tmp"] = Blank
      BY <3>1, <1>6 DEF OneSaver
    <3>3. file'["tmp"] = [pts |-> watch[w].pts, tail |-> 0]
          /\ file'["state"] = file["state"]
      BY <2>1, <2>3, <3>2, <1>4
    <3>4. Complete(file'["tmp"])
      BY <3>3, <1>4 DEF Complete
    <3>5. \A v \in Watchers \ {w} : watch[v].pc \notin Writing
      BY <3>1, <1>6 DEF OneSaver, Writing
    <3> HIDE DEF n
    <3> QED BY <1>3, <1>4, <1>6, <2>1, <3>1, <3>3, <3>4, <3>5 DEF OneSaver, Writing
  <2> QED BY <2>7, <2>8 DEF WatchInv
<1>7. CASE watch[w].pc = "rename" /\ (save_rename(w) \/ save_rename_fails(w)) /\ nxt = watch[w].then
  <2>1. nxt \in {"poll", "print"} /\ UNCHANGED crossed
    BY <1>7, OneWatcher DEF save_rename, save_rename_fails, svars
  <2>2. CASE save_rename(w)
    <3>1. /\ file' = [file EXCEPT !["state"] = file["tmp"], !["tmp"] = Missing]
          /\ fp' = [v \in Watchers |-> CASE fp[v] = "tmp" -> "state"
                                         [] fp[v] = "state" -> "unlinked"
                                         [] OTHER -> fp[v]]
      BY <2>2 DEF save_rename
    <3>2. file'["state"] = file["tmp"] /\ file'["tmp"] = Missing /\ Missing.pts = -2
          /\ file' \in [{"state", "tmp"} -> [pts : Int, tail : Int]]
      BY <3>1, <1>4 DEF Missing
    <3>3. fp' \in [Watchers -> {"tmp", "state", "unlinked", "closed"}]
      BY <3>1, <1>4
    <3>4. WatchShape' /\ Accounted'
      BY <1>1, <1>2, <1>3, <3>2, <3>3, OneWatcher, FilesKeep
    <3>5. ~crossed => OneSaver'
      <4> SUFFICES ASSUME ~crossed PROVE OneSaver'
        OBVIOUS
      <4>1. OneSaver /\ Complete(file["tmp"])
        BY <1>7 DEF WatchInv, OneSaver
      <4>2. \A v \in Watchers : watch'[v].pc \notin Writing /\ watch[v].pc # "close"
        BY <4>1, <1>3, <1>7, <2>1, Zenon DEF OneSaver, Writing
      <4>3. \A v \in Watchers : fp'[v] = "closed"
        BY <4>1, <4>2, <3>1 DEF OneSaver
      <4> QED BY <4>1, <4>2, <4>3, <3>2 DEF OneSaver, Writing
    <3> QED BY <2>1, <3>4, <3>5 DEF WatchInv
  <2>3. CASE save_rename_fails(w)
    <3>1. UNCHANGED <<svars, printed, skipped>>
      BY <2>3, <1>1 DEF save_rename_fails
    <3>2. UNCHANGED <<file, fp>>
      BY <3>1 DEF svars
    <3>3. WatchShape' /\ Accounted'
      BY <1>1, <1>2, <1>3, <1>4, <3>2, OneWatcher, FilesKeep
    <3>4. crossed
      BY <1>7, <2>3 DEF WatchInv, OneSaver, save_rename_fails, Complete, Missing
    <3> QED BY <2>1, <3>3, <3>4 DEF WatchInv
  <2> QED BY <1>7, <2>2, <2>3
<1> QED BY <1>2, <1>5, <1>6, <1>7, SMTT(20)

\* Every step keeps the invariant.
LEMMA WatchNext == ASSUME WatchInv, [WNext]_wvars PROVE WatchInv'
<1>1. CASE UNCHANGED wvars
  BY <1>1 DEF WatchInv, WatchShape, Accounted, OneSaver, Covered, Log, wvars, svars,
       counters
<1>2. ASSUME NEW w \in Watchers, Step(w) \/ Poll(w) \/ Faults(w)
                                 \/ \E opt \in Options[w] : cmd_watch(w, opt)
      PROVE  WatchInv'
  BY <1>2, LoadKeeps, SeedKeeps, SaveKeeps, StepsKeep, EndsKeep, PollKeeps,
     KillKeeps, OthersKeep, Zenon DEF Step, Faults
<1> QED BY <1>1, <1>2, ArriveKeeps DEF WNext

\* Whatever the watchers, the log and the kills: a pts that cmd_watch saves or
\* resumes from lies behind no message that was neither printed nor handed
\* over at the seed.
THEOREM NothingIsPassedOver == WSpec => []NothingPassedOver
<1>1. WatchInv => NothingPassedOver
  <2> SUFFICES ASSUME WatchInv PROVE NothingPassedOver
    OBVIOUS
  <2>1. Covered(updates_state_load) /\ \A w \in Watchers : Covered(watch[w].pts)
    BY DEF WatchInv, Accounted, updates_state_load, Covered
  <2> QED BY <2>1 DEF NothingPassedOver, Covered
<1> QED BY <1>1, WatchStart, WatchNext, PTL DEF WSpec

\* updates_state_load refuses an existing updates.state only if two saves
\* crossed in the one temporary file; a kill alone never does it.
THEOREM StateRefusedOnlyIfCrossed == WSpec => []RefusedOnlyIfCrossed
<1>1. WatchInv => RefusedOnlyIfCrossed
  BY DEF WatchInv, OneSaver, Complete, RefusedOnlyIfCrossed, Loads, Malformed
<1> QED BY <1>1, WatchStart, WatchNext, PTL DEF WSpec

\* What a process has read and not yet written or flushed, and what of it the
\* filter lets through.
Held(w) == {watch[w].diff[i] : i \in 1..Len(watch[w].diff)} \cup watch[w].buf
Wanted(w) ==
    {m \in Held(w) : watch_peer_allowed(watch[w].filter, Log[m].peer)}

\* While the process runs a due message stays due until it is printed or
\* jumped over, a poll takes every due message in hand, and only a kill or a
\* closed pipe loses one in hand that the filter lets through.
StaysDue(w) ==
    watch[w].pc \notin {"off", "load", "seed"} /\ watch'[w].pc # "off"
        => Due(w) \subseteq Due(w)' \cup printed' \cup skipped'
TakesDue(w) == Poll(w) => Due(w) \subseteq Wanted(w)' \cup skipped'
KeepsHeld(w) ==
    gone[w] \/ Kill(w) \/ Wanted(w) \subseteq Wanted(w)' \cup printed'

NoneDropped == \A w \in Watchers : StaysDue(w) /\ TakesDue(w) /\ KeepsHeld(w)

\* A process holds messages only between a poll and the flush after it.
Between(x) ==
    x.pc = "print" \/ (x.pc \in {"save", "close", "rename"} /\ x.then = "print")
HeldWell(x) ==
    /\ \E T : x.diff \in Seq(T)
    /\ ~Between(x) => x.diff = <<>> /\ x.buf = {}
HeldInv == \A w \in Watchers : HeldWell(watch[w])

\* Ordered lists every member of a finite set of numbers.
LEMMA OrderedLists ==
  ASSUME NEW S, S \subseteq Nat, IsFiniteSet(S)
  PROVE  /\ \E T : Ordered(S) \in Seq(T)
         /\ \A m \in S : \E i \in 1..Len(Ordered(S)) : Ordered(S)[i] = m
<1> DEFINE Below(m) == {k \in S : k < m}
           rank(m) == Cardinality(Below(m))
           n == Cardinality(S)
<1>1. n \in Nat
  BY FS_CardinalityType
<1>2. ASSUME NEW m \in S
      PROVE  /\ IsFiniteSet(Below(m)) /\ rank(m) \in Nat
             /\ IsFiniteSet(Below(m) \cup {m})
             /\ Cardinality(Below(m) \cup {m}) = rank(m) + 1
  <2>1. IsFiniteSet(Below(m))
    BY FS_Subset
  <2>2. m \notin Below(m)
    BY <1>2
  <2> QED BY <2>1, <2>2, FS_CardinalityType, FS_AddElement
<1>3. ASSUME NEW m \in S PROVE rank(m) < n
  <2>1. Below(m) \cup {m} \subseteq S
    OBVIOUS
  <2>2. Cardinality(Below(m) \cup {m}) <= n
    BY <2>1, FS_Subset
  <2> HIDE DEF Below, n
  <2> QED BY <1>1, <1>2, <2>2
<1>4. ASSUME NEW k \in S, NEW m \in S, k < m PROVE rank(k) < rank(m)
  <2>0. \A j \in S : j < k => j < m
    <3> SUFFICES ASSUME NEW j \in S, j < k PROVE j < m
      OBVIOUS
    <3>1. j \in Nat /\ k \in Nat /\ m \in Nat
      OBVIOUS
    <3> QED BY <1>4, <3>1
  <2>1. Below(k) \cup {k} \subseteq Below(m)
    BY <1>4, <2>0
  <2>2. Cardinality(Below(k) \cup {k}) <= rank(m)
    BY <1>2, <2>1, FS_Subset
  <2>3. rank(k) \in Nat /\ rank(m) \in Nat /\ rank(k) + 1 <= rank(m)
    BY <1>2, <2>2, Zenon
  <2> HIDE DEF rank
  <2> QED BY <2>3
<1>5. ASSUME NEW k \in S, NEW m \in S, rank(k) = rank(m) PROVE k = m
  <2>1. ~(k < m) /\ ~(m < k)
    <3>1. rank(k) \in Nat /\ rank(m) \in Nat
      BY <1>2
    <3>2. (k < m => rank(k) < rank(m)) /\ (m < k => rank(m) < rank(k))
      BY <1>4
    <3> HIDE DEF rank
    <3> QED BY <1>5, <3>1, <3>2
  <2>2. k \in Nat /\ m \in Nat
    OBVIOUS
  <2> QED BY <2>1, <2>2
<1> DEFINE e(i) == CHOOSE m \in S : rank(m) = i - 1
<1>6. Ordered(S) = [i \in 1..n |-> e(i)]
  BY DEF Ordered
<1>7. ASSUME NEW m \in S PROVE rank(m) + 1 \in 1..n /\ e(rank(m) + 1) = m
  <2>1. rank(m) + 1 \in 1..n /\ (rank(m) + 1) - 1 = rank(m)
    <3>1. rank(m) \in Nat /\ rank(m) < n
      BY <1>2, <1>3
    <3> HIDE DEF rank, n
    <3> QED BY <1>1, <3>1
  <2>2. \A k \in S : rank(k) = (rank(m) + 1) - 1 => k = m
    <3> HIDE DEF Below, n
    <3> QED BY <1>5, <2>1
  <2> HIDE DEF rank, n
  <2> QED BY <2>1, <2>2
<1> HIDE DEF n, e, rank
<1>8. Ordered(S) \in Seq({e(i) : i \in 1..n}) /\ Len(Ordered(S)) = n
  BY <1>1, <1>6
<1> QED
  <2>1. ASSUME NEW m \in S PROVE Ordered(S)[rank(m) + 1] = m
    BY <1>6, <1>7
  <2> QED BY <1>7, <1>8, <2>1

\* The messages of an answer are new to the client.
LEMMA ParsedAreNew ==
  ASSUME WatchInv, NEW w \in Watchers
  PROVE  LET p == watch[w].pts
         IN /\ p \in Nat /\ spts \in Nat
            /\ Parsed(p) \subseteq (p + 1)..spts /\ Parsed(p) \subseteq Nat
            /\ IsFiniteSet(Parsed(p))
            /\ Due(w) \subseteq Parsed(p)
<1> DEFINE p == watch[w].pts
<1>1. p \in Nat /\ spts \in Nat
  BY OneWatcher, SetupsAssumption DEF WatchInv, WatchShape, Log
<1>2. Parsed(p) \subseteq (p + 1)..spts
  BY Zenon DEF Parsed, NewMessages
<1>3. IsFiniteSet((p + 1)..spts)
  BY <1>1, FS_Interval
<1>4. IsFiniteSet(Parsed(p))
  BY <1>2, <1>3, FS_Subset
<1>5. Due(w) \subseteq Parsed(p)
  BY Zenon DEF Due, Parsed
<1>6. Parsed(p) \subseteq Nat
  BY <1>1, <1>2
<1> QED BY <1>1, <1>2, <1>4, <1>5, <1>6

\* What is due stays so as long as log, position and filter do.
LEMMA SameDue ==
  ASSUME NEW w \in Watchers, UNCHANGED <<spts, setup>>,
         watch'[w].pts = watch[w].pts, watch'[w].filter = watch[w].filter
  PROVE  Due(w) \subseteq Due(w)' \cup printed' \cup skipped'
<1> DEFINE new == NewMessages(watch[w].pts)
<1>1. NewMessages(watch[w].pts)' = new /\ Log' = Log
  BY Zenon DEF NewMessages, Log
<1> HIDE DEF new
<1>2. Due(w) = {m \in new \ (printed \cup skipped) :
          /\ Cardinality({k \in new : k < m}) < UPDATES_MAX_MESSAGES
          /\ \A k \in {j \in new : j < m} : Log[k].kind # "hard"
          /\ watch_peer_allowed(watch[w].filter, Log[m].peer)}
  BY Zenon DEF Due, new
<1>3. Due(w)' = {m \in new \ (printed' \cup skipped') :
          /\ Cardinality({k \in new : k < m}) < UPDATES_MAX_MESSAGES
          /\ \A k \in {j \in new : j < m} : Log[k].kind # "hard"
          /\ watch_peer_allowed(watch[w].filter, Log[m].peer)}
  BY <1>1, SMTT(20) DEF Due, watch_peer_allowed
<1> QED BY <1>2, <1>3, SMTT(20)

\* What a poll does to its process.
LEMMA PollResult ==
  ASSUME WatchInv, HeldInv, NEW w \in Watchers, Poll(w)
  PROVE  HeldWell(watch'[w]) /\ StaysDue(w) /\ TakesDue(w) /\ KeepsHeld(w)
<1> DEFINE p == watch[w].pts
           d == domain_updates_difference(p)
           x == watch'[w]
<1>1. /\ x.pc = "save" /\ x.then = "print" /\ x.pts = d.pts
      /\ x.diff = Ordered(d.new) /\ x.filter = watch[w].filter
      /\ x.buf = watch[w].buf
      /\ watch[w].pc = "poll"
  BY OneWatcher, SMTT(20) DEF Poll, WatchFields
<1>2. /\ skipped' = skipped \cup d.skip
      /\ UNCHANGED <<spts, setup, printed, gone>>
  BY DEF Poll, counters
<1>3. watch[w].diff = <<>> /\ watch[w].buf = {}
  BY <1>1 DEF HeldInv, HeldWell, Between
<1>4. /\ Parsed(p) \subseteq (p + 1)..spts /\ Parsed(p) \subseteq Nat
      /\ IsFiniteSet(Parsed(p)) /\ Due(w) \subseteq Parsed(p)
      /\ p \in Nat /\ spts \in Nat
  BY ParsedAreNew, SMTT(20)
<1>5. \/ Due(w) = {} /\ d.new = {} /\ d.pts = p
      \/ Due(w) \subseteq d.skip /\ d.new = {}
      \/ d.new = Parsed(p) /\ d.pts = p
  <2>1. CASE p = spts
    BY <1>4, <2>1 DEF domain_updates_difference
  <2>2. CASE p # spts /\ spts - p > TooLongGap
    <3>1. d = [pts |-> spts, new |-> {}, skip |-> (p + 1)..spts]
      BY <2>2 DEF domain_updates_difference
    <3> HIDE DEF d
    <3> QED BY <1>4, <3>1
  <2>3. CASE p # spts /\ ~(spts - p > TooLongGap)
    <3>1. d = [pts |-> p, new |-> Parsed(p), skip |-> {}]
      BY <2>3 DEF domain_updates_difference
    <3> HIDE DEF d
    <3> QED BY <3>1
  <2> QED BY <2>1, <2>2, <2>3
<1> HIDE DEF d
<1>6. d.new \subseteq Nat /\ IsFiniteSet(d.new)
  BY <1>4, <1>5, FS_EmptySet
<1>7. /\ \E T : x.diff \in Seq(T)
      /\ \A m \in d.new : \E i \in 1..Len(x.diff) : x.diff[i] = m
  BY <1>1, <1>6, OrderedLists
<1>8. HeldWell(x)
  BY <1>1, <1>7 DEF HeldWell, Between
<1>9. Wanted(w) = {}
  BY <1>3 DEF Wanted, Held
<1>10. ASSUME d.pts = p PROVE Due(w) \subseteq Due(w)' \cup printed' \cup skipped'
  BY <1>1, <1>2, <1>10, SameDue, SMTT(20)
<1>11. StaysDue(w)
  BY <1>2, <1>5, <1>10 DEF StaysDue
<1>12. ASSUME NEW m \in Due(w), m \in d.new PROVE m \in Wanted(w)'
  <2>1. m \in Held(w)'
    BY <1>7, <1>12 DEF Held
  <2>2. watch_peer_allowed(watch[w].filter, Log[m].peer)
    BY SMTT(20) DEF Due
  <2> QED BY <1>1, <1>2, <2>1, <2>2, Zenon DEF Wanted, watch_peer_allowed, Log
<1>13. TakesDue(w)
  BY <1>2, <1>4, <1>5, <1>12, SMTT(20) DEF TakesDue
<1> QED BY <1>8, <1>9, <1>11, <1>13, SMTT(20) DEF KeepsHeld

\* A process whose position, filter and messages in hand stay as they are.
LEMMA SameHands ==
  ASSUME NEW w \in Watchers, HeldWell(watch[w]), UNCHANGED <<spts, setup>>,
         watch'[w].filter = watch[w].filter,
         watch'[w].diff = watch[w].diff, watch'[w].buf = watch[w].buf,
         Between(watch[w]) => Between(watch'[w]),
         watch[w].pc \in {"off", "load", "seed"} \/ watch'[w].pts = watch[w].pts
  PROVE  HeldWell(watch'[w]) /\ StaysDue(w) /\ KeepsHeld(w)
<1>1. HeldWell(watch'[w])
  BY DEF HeldWell
<1>2. Wanted(w)' = Wanted(w)
  BY DEF Wanted, Held, Log
<1>3. ASSUME watch'[w].pts = watch[w].pts
      PROVE  Due(w) \subseteq Due(w)' \cup printed' \cup skipped'
  BY <1>3, SameDue
<1> QED BY <1>1, <1>2, <1>3 DEF StaysDue, KeepsHeld

\* A new update at the server comes after all that is due.
LEMMA ArriveDue ==
  ASSUME WatchInv, NEW w \in Watchers, Arrive
  PROVE  Due(w) \subseteq Due(w)'
<1> DEFINE p == watch[w].pts
           New(q) == {m \in (p + 1)..q : Log[m].kind # "update"}
           Slice(q) == {m \in New(q) : Cardinality({k \in New(q) : k < m}) < SliceMax}
<1>1. /\ spts' = spts + 1 /\ UNCHANGED <<setup, watch, printed, skipped>>
      /\ p \in Nat /\ spts \in Nat
  BY ParsedAreNew DEF Arrive, counters
<1>2. NewMessages(p) = Slice(spts) /\ NewMessages(p)' = Slice(spts + 1)
  BY <1>1, Zenon DEF NewMessages, Log
<1>3. ASSUME NEW m \in (p + 1)..spts
      PROVE  /\ {k \in New(spts + 1) : k < m} = {k \in New(spts) : k < m}
             /\ m \in New(spts + 1) <=> m \in New(spts)
  <2>1. /\ \A k \in (p + 1)..(spts + 1) : k < m => k \in (p + 1)..spts
        /\ (p + 1)..spts \subseteq (p + 1)..(spts + 1)
    BY <1>1
  <2> QED BY <2>1, Zenon
<1>4. ASSUME NEW m \in (p + 1)..spts
      PROVE  m \in Slice(spts + 1) <=> m \in Slice(spts)
  <2> HIDE DEF New
  <2> QED BY <1>3
<1>5. ASSUME NEW m \in Slice(spts)
      PROVE  {k \in Slice(spts + 1) : k < m} = {k \in Slice(spts) : k < m}
  <2>1. m \in (p + 1)..spts
    OBVIOUS
  <2>2. \A k \in Slice(spts + 1) \cup Slice(spts) : k < m => k \in (p + 1)..spts
    <3>1. /\ Slice(spts) \subseteq (p + 1)..spts
          /\ Slice(spts + 1) \subseteq (p + 1)..(spts + 1)
      OBVIOUS
    <3> HIDE DEF Slice
    <3> QED BY <1>1, <2>1, <3>1
  <2> HIDE DEF Slice
  <2> QED BY <1>4, <2>2
<1>6. Slice(spts) \subseteq Slice(spts + 1)
  <2>1. Slice(spts) \subseteq (p + 1)..spts
    OBVIOUS
  <2> HIDE DEF Slice
  <2> QED BY <1>4, <2>1
<1> DEFINE out == {m \in Slice(spts) \ (printed \cup skipped) :
                     /\ Cardinality({k \in Slice(spts) : k < m}) < UPDATES_MAX_MESSAGES
                     /\ \A k \in {j \in Slice(spts) : j < m} : Log[k].kind # "hard"
                     /\ watch_peer_allowed(watch[w].filter, Log[m].peer)}
           out1 == {m \in Slice(spts + 1) \ (printed \cup skipped) :
                     /\ Cardinality({k \in Slice(spts + 1) : k < m}) < UPDATES_MAX_MESSAGES
                     /\ \A k \in {j \in Slice(spts + 1) : j < m} : Log[k].kind # "hard"
                     /\ watch_peer_allowed(watch[w].filter, Log[m].peer)}
<1> HIDE DEF Slice
<1>7. Due(w) = out
  BY <1>2 DEF Due
<1>8. Due(w)' = out1
  BY <1>1, <1>2, SMTT(20) DEF Due, Log, watch_peer_allowed
<1>9. out \subseteq out1
  BY <1>5, <1>6
<1> QED BY <1>7, <1>8, <1>9, Zenon

\* What is left of a batch after its first message.
LEMMA TailOf ==
  ASSUME NEW T, NEW s \in Seq(T), s # <<>>
  PROVE  /\ Len(s) \in Nat /\ Len(Tail(s)) = Len(s) - 1
         /\ \A j \in 1..Len(Tail(s)) : Tail(s)[j] = s[j + 1]
OBVIOUS

\* One message of the batch is filtered, written, or buffered.
LEMMA PrintResult ==
  ASSUME WatchInv, HeldInv, NEW w \in Watchers, PrintEntry(w)
  PROVE  HeldWell(watch'[w]) /\ StaysDue(w) /\ KeepsHeld(w)
<1> DEFINE x == watch[w]
           y == watch'[w]
           m == Head(x.diff)
           sent == watch_peer_allowed(x.filter, Log[m].peer)
<1>0. DOMAIN watch = Watchers /\ DOMAIN x = WatchFields
  BY OneWatcher
<1>1. /\ x.pc = "print" /\ x.diff # <<>> /\ UNCHANGED <<spts, setup>>
      /\ printed' = IF sent /\ x.json /\ ~(sent /\ x.json /\ gone[w])
                    THEN printed \cup {m} ELSE printed
  <2>1. x.pc = "print" /\ x.diff # <<>> /\ UNCHANGED <<spts, setup>>
    BY DEF PrintEntry, counters
  <2>2. printed' = IF sent /\ x.json /\ ~(sent /\ x.json /\ gone[w])
                   THEN printed \cup {m} ELSE printed
    BY Zenon DEF PrintEntry
  <2> QED BY <2>1, <2>2
<1>2. /\ y.pc = x.pc /\ y.pts = x.pts /\ y.filter = x.filter
      /\ y.diff = IF sent /\ x.json /\ gone[w] THEN <<>> ELSE Tail(x.diff)
      /\ y.buf = IF sent /\ ~x.json THEN x.buf \cup {m} ELSE x.buf
  <2> DEFINE epipe == sent /\ x.json /\ gone[w]
  <2>1. watch' = [watch EXCEPT
            ![w].diff = IF epipe THEN <<>> ELSE Tail(@),
            ![w].stop = @ \/ epipe,
            ![w].buf = IF sent /\ ~x.json THEN @ \cup {m} ELSE @]
    BY Zenon DEF PrintEntry
  <2> HIDE DEF sent, m
  <2> QED BY <1>0, <2>1 DEF WatchFields
<1> HIDE DEF sent
<1>3. PICK T : x.diff \in Seq(T)
  BY SMTT(20) DEF HeldInv, HeldWell
<1>4. HeldWell(y)
  <2>1. y.diff \in Seq(T)
    BY <1>1, <1>2, <1>3, SMTT(20)
  <2> QED BY <1>1, <1>2, <2>1, SMTT(20) DEF HeldWell, Between
<1>5. Due(w) \subseteq Due(w)' \cup printed' \cup skipped'
  BY <1>1, <1>2, SameDue
<1>6. ASSUME ~gone[w], NEW k \in Wanted(w) PROVE k \in Wanted(w)' \cup printed'
  <2>1. k \in Held(w) /\ watch_peer_allowed(x.filter, Log[k].peer)
    BY DEF Wanted
  <2>2. watch_peer_allowed(y.filter, Log'[k].peer)
    BY <1>1, <1>2, <2>1, Zenon DEF watch_peer_allowed, Log
  <2>3. y.diff = Tail(x.diff)
    BY <1>2, <1>6
  <2>4. CASE k \in x.buf
    <3>1. k \in y.buf
      BY <1>2, <2>4
    <3> QED BY <2>2, <3>1, SMTT(20) DEF Wanted, Held
  <2>5. CASE k = m
    <3>1. sent
      BY <2>1, <2>5, SMTT(20) DEF sent
    <3>2. k \in y.buf \/ k \in printed'
      BY <1>1, <1>2, <1>6, <2>5, <3>1, SMTT(20)
    <3> QED BY <2>2, <3>2 DEF Wanted, Held
  <2>6. ASSUME NEW i \in 2..Len(x.diff), k = x.diff[i]
        PROVE  k \in Wanted(w)'
    <3>1. i - 1 \in 1..Len(y.diff) /\ y.diff[i - 1] = k
      <4>1. Len(x.diff) \in Nat /\ Len(y.diff) = Len(x.diff) - 1
        BY <1>1, <1>3, <2>3, TailOf, SMTT(20)
      <4>2. \A j \in 1..Len(y.diff) : y.diff[j] = x.diff[j + 1]
        BY <1>1, <1>3, <2>3, TailOf
      <4> HIDE DEF x, y
      <4>3. i - 1 \in 1..Len(y.diff) /\ (i - 1) + 1 = i
        BY <4>1
      <4> QED BY <2>6, <4>2, <4>3
    <3> QED BY <2>2, <3>1 DEF Wanted, Held
  <2>7. k \in x.buf \/ k = m \/ \E i \in 2..Len(x.diff) : k = x.diff[i]
    BY <1>1, <1>3, <2>1 DEF Held
  <2> QED BY <2>4, <2>5, <2>6, <2>7
<1> QED BY <1>4, <1>5, <1>6 DEF StaysDue, KeepsHeld

\* A process ends with nothing in hand.
LEMMA OffHolds == HeldWell(Off) /\ Off.pc = "off"
<1>1. <<>> \in Seq({})
  BY SMTT(20)
<1> QED BY <1>1 DEF HeldWell, Between, Off

\* The batch is flushed, or the command ends.
LEMMA FlushResult ==
  ASSUME WatchInv, HeldInv, NEW w \in Watchers, Flush(w) \/ Exit(w) \/ SeedFails(w)
  PROVE  HeldWell(watch'[w]) /\ StaysDue(w) /\ KeepsHeld(w)
<1>1. watch[w].diff = <<>> /\ UNCHANGED <<spts, setup>>
  BY DEF Flush, Exit, SeedFails, Own, counters, HeldInv, HeldWell, Between
<1>2. \/ watch'[w] = Off
      \/ /\ watch'[w].pc = "poll" /\ watch'[w].diff = watch[w].diff
         /\ watch'[w].buf = {} /\ watch'[w].pts = watch[w].pts
         /\ watch'[w].filter = watch[w].filter
  BY OneWatcher, SMTT(20) DEF Flush, Exit, SeedFails, WatchFields
<1>3. HeldWell(watch'[w])
  BY <1>1, <1>2, OffHolds DEF HeldWell, Between, HeldInv
<1>4. gone[w] \/ watch[w].buf \subseteq printed'
  BY SMTT(20) DEF Flush, Exit, SeedFails, HeldInv, HeldWell, Between
<1>5. KeepsHeld(w)
  BY <1>1, <1>4 DEF KeepsHeld, Wanted, Held
<1>6. ASSUME watch'[w].pc # "off"
      PROVE  Due(w) \subseteq Due(w)' \cup printed' \cup skipped'
  <2>1. watch'[w].pts = watch[w].pts /\ watch'[w].filter = watch[w].filter
    BY <1>2, <1>6, OffHolds
  <2> QED BY <1>1, <2>1, SameDue, SMTT(20)
<1> QED BY <1>3, <1>5, <1>6 DEF StaysDue

\* The steps that leave what a process holds alone.
LEMMA PlainResult ==
  ASSUME WatchInv, HeldInv, NEW w \in Watchers,
         \/ Load(w) \/ domain_updates_state(w) \/ Save(w) \/ SaveFails(w)
         \/ PollFails(w) \/ on_sigint(w) \/ Drop(w) \/ ReaderExits(w)
  PROVE  HeldWell(watch'[w]) /\ StaysDue(w) /\ KeepsHeld(w)
<1> DEFINE x == watch[w]
           y == watch'[w]
<1>1. UNCHANGED <<spts, setup>>
  BY Zenon DEF Load, domain_updates_state, Save, SaveFails, PollFails, on_sigint, Drop,
     ReaderExits, Own, counters, Fault
<1>2. DOMAIN watch = Watchers /\ DOMAIN x = WatchFields /\ x.then \in {"poll", "print"}
  BY OneWatcher, SMTT(20)
<1>3. /\ y.filter = x.filter /\ y.diff = x.diff /\ y.buf = x.buf
      /\ x.pc \in {"load", "seed"} \/ y.pts = x.pts
      /\ Between(x) => Between(y)
  <2>1. CASE Load(w)
    BY <1>2, <2>1 DEF Load, WatchFields, Between
  <2>2. CASE domain_updates_state(w)
    BY <1>2, <2>2 DEF domain_updates_state, WatchFields, Between
  <2>3. CASE Save(w)
    BY <1>2, <2>3, SMTT(20) DEF Save, To, WatchFields, Between
  <2>4. CASE SaveFails(w)
    BY <1>2, <2>4 DEF SaveFails, To, WatchFields, Between
  <2>5. CASE PollFails(w) \/ on_sigint(w)
    BY <1>2, <2>5, SMTT(20) DEF PollFails, on_sigint, WatchFields, Between
  <2>6. CASE Drop(w) \/ ReaderExits(w)
    BY <1>2, <2>6, SMTT(20) DEF Drop, ReaderExits, WatchFields, Between
  <2> QED BY <2>1, <2>2, <2>3, <2>4, <2>5, <2>6
<1>4. HeldWell(x)
  BY DEF HeldInv
<1> HIDE DEF x, y
<1> QED BY <1>1, <1>3, <1>4, SameHands, Zenon DEF x, y

\* A command starts, or is killed.
LEMMA StartResult ==
  ASSUME WatchInv, HeldInv, NEW w \in Watchers,
         Kill(w) \/ \E opt \in Options[w] : cmd_watch(w, opt)
  PROVE  HeldWell(watch'[w]) /\ StaysDue(w) /\ KeepsHeld(w)
<1>1. CASE Kill(w)
  <2>1. watch'[w] = Off
    BY <1>1, OneWatcher, SMTT(20) DEF Kill
  <2> QED BY <1>1, <2>1, OffHolds, SMTT(20) DEF StaysDue, KeepsHeld
<1>2. ASSUME NEW opt \in Options[w], cmd_watch(w, opt)
      PROVE  HeldWell(watch'[w]) /\ StaysDue(w) /\ KeepsHeld(w)
  <2>1. watch[w].pc = "off" /\ watch'[w].pc = "load" /\ watch'[w].diff = Off.diff
        /\ watch'[w].buf = Off.buf
    BY <1>2, OneWatcher DEF cmd_watch, Off
  <2>2. Wanted(w) = {}
    BY <2>1, SMTT(20) DEF HeldInv, HeldWell, Between, Wanted, Held
  <2>3. HeldWell(watch'[w])
    BY <2>1, OffHolds DEF HeldWell, Between, Off
  <2> QED BY <2>1, <2>2, <2>3, SMTT(20) DEF StaysDue, KeepsHeld
<1> QED BY <1>1, <1>2

\* The other processes are not touched by a step of one.
LEMMA OthersHold ==
  ASSUME WatchInv, NEW w \in Watchers, NEW v \in Watchers \ {w},
         \/ Step(w) \/ Poll(w) \/ Faults(w)
         \/ \E opt \in Options[w] : cmd_watch(w, opt)
  PROVE  watch'[v] = watch[v] /\ UNCHANGED <<spts, setup>>
<1>1. DOMAIN watch = Watchers
  BY OneWatcher
<1>2. CASE Step(w) \/ Poll(w)
  BY <1>1, <1>2, ZenonT(30) DEF Step, Load, domain_updates_state, Save, To, PrintEntry,
     Flush, Exit, Poll, Own, counters
<1>3. CASE Faults(w) \/ \E opt \in Options[w] : cmd_watch(w, opt)
  BY <1>1, <1>3, ZenonT(30)
       DEF Faults, SeedFails, SaveFails, PollFails, on_sigint, Kill,
     Drop, ReaderExits, cmd_watch, To, Own, counters, Fault
<1> QED BY <1>2, <1>3

\* No message the server still offers falls out of the loop of cmd_watch: while
\* the process runs it stays due until it is printed or jumped over,
\* domain_updates_difference puts every due message in the batch, and one of
\* the batch that the filter lets through stays there until it is printed,
\* unless the process is killed or the reader of its pipe is gone.
THEOREM NoMessageIsDropped == WSpec => [][NoneDropped]_wvars
<1>1. WInit => HeldInv
  BY OffHolds, SMTT(20) DEF WInit, HeldInv
<1>2. ASSUME WatchInv, HeldInv, [WNext]_wvars
      PROVE  HeldInv' /\ NoneDropped
  <2> SUFFICES ASSUME NEW v \in Watchers
               PROVE  HeldWell(watch'[v]) /\ StaysDue(v) /\ TakesDue(v) /\ KeepsHeld(v)
    BY Zenon DEF HeldInv, NoneDropped
  <2>1. TakesDue(v)
    BY <1>2, PollResult DEF TakesDue
  <2>2. HeldWell(watch[v])
    BY <1>2 DEF HeldInv
  <2>3. ASSUME UNCHANGED <<spts, setup>>, watch'[v] = watch[v]
        PROVE  HeldWell(watch'[v]) /\ StaysDue(v) /\ KeepsHeld(v)
    BY <2>2, <2>3, SameHands
  <2>4. CASE UNCHANGED wvars
    <3>1. UNCHANGED <<spts, setup, watch>>
      BY <2>4 DEF wvars, counters
    <3> QED BY <2>1, <2>3, <3>1
  <2>5. CASE Arrive
    <3>1. UNCHANGED <<watch, setup>>
      BY <2>5 DEF Arrive, counters
    <3>2. Wanted(v)' = Wanted(v)
      BY <3>1 DEF Wanted, Held, Log
    <3>3. Due(v) \subseteq Due(v)'
      BY <1>2, <2>5, ArriveDue
    <3>4. HeldWell(watch'[v])
      BY <2>2, <3>1
    <3> QED BY <2>1, <3>2, <3>3, <3>4, Zenon DEF StaysDue, KeepsHeld
  <2>6. ASSUME NEW w \in Watchers,
               \/ Step(w) \/ Poll(w) \/ Faults(w)
               \/ \E opt \in Options[w] : cmd_watch(w, opt)
        PROVE  HeldWell(watch'[v]) /\ StaysDue(v) /\ KeepsHeld(v)
    <3>1. CASE v # w
      BY <1>2, <2>3, <2>6, <3>1, OthersHold
    <3>2. CASE v = w
      BY <1>2, <2>6, <3>2, PollResult, PrintResult, FlushResult, PlainResult,
           StartResult,
         Zenon DEF Step, Faults
    <3> QED BY <3>1, <3>2, SMTT(20)
  <2> QED BY <1>2, <2>1, <2>4, <2>5, <2>6 DEF WNext
<1> QED BY <1>1, <1>2, WatchStart, WatchNext, PTL DEF WSpec

-----------------------------------------------------------------------------
(* Nested media: recursion_depth of tl_skip_message_media_ex. *)

\* The fields of a frame.
FrameFields == {"reader", "fl", "todo"}

\* The places of the activations of tl_skip_message_media_ex.
MediaFrames(fr) == {i \in DOMAIN fr : fr[i].reader = "MessageMedia"}

\* The calls in progress are a stack of frames, empty exactly when no reader
\* runs, and the counter is right.
StackInv ==
  /\ \E S : frames \in Seq(S) /\ \A f \in S : DOMAIN f = FrameFields
  /\ rc = "idle" => frames = <<>>
  /\ rc = "run" => frames # <<>>
  /\ IsFiniteSet(MediaFrames(frames))
  /\ DepthBalanced
  /\ depth <= MEDIA_RECURSION_MAX

\* What the invariant says of the stack, without its witness.
LEMMA StackFacts ==
  ASSUME StackInv
  PROVE  /\ Len(frames) \in Nat /\ DOMAIN frames = 1..Len(frames)
         /\ \A i \in 1..Len(frames) : DOMAIN frames[i] = FrameFields
         /\ depth = Cardinality(MediaFrames(frames))
         /\ depth \in Nat
<1>1. PICK S : frames \in Seq(S) /\ \A f \in S : DOMAIN f = FrameFields
  BY DEF StackInv
<1>2. Len(frames) \in Nat /\ DOMAIN frames = 1..Len(frames)
      /\ \A i \in 1..Len(frames) : frames[i] \in S
  BY <1>1
<1>3. depth = Cardinality(MediaFrames(frames))
  BY DEF StackInv, DepthBalanced, MediaFrames
<1>4. depth \in Nat
  BY <1>3, FS_CardinalityType DEF StackInv
<1> QED BY <1>1, <1>2, <1>3, <1>4

\* The running call goes on.
LEMMA TopKeeps ==
  ASSUME StackInv, rc = "run", NEW f, DOMAIN f = FrameFields, f.reader = Top.reader,
         frames' = [frames EXCEPT ![Len(frames)] = f], UNCHANGED depth,
         rc' \in {"run", "fail", "lost"}
  PROVE  StackInv'
<1>1. PICK S : frames \in Seq(S) /\ \A g \in S : DOMAIN g = FrameFields
  BY DEF StackInv
<1>3. frames # <<>> /\ Len(frames) \in 1..Len(frames)
  BY <1>1 DEF StackInv
<1>2. frames' \in Seq(S \cup {f}) /\ \A g \in S \cup {f} : DOMAIN g = FrameFields
  <2>1. frames \in Seq(S \cup {f}) /\ f \in S \cup {f}
    BY <1>1
  <2>2. [frames EXCEPT ![Len(frames)] = f] \in Seq(S \cup {f})
    BY <1>3, <2>1
  <2> QED BY <1>1, <2>2
<1>4. frames' # <<>>
  BY <1>1, <1>3
<1>5. MediaFrames(frames') = MediaFrames(frames)
  BY <1>1, <1>3 DEF MediaFrames, Top
<1> QED BY <1>2, <1>4, <1>5, Zenon DEF StackInv, DepthBalanced, MediaFrames

\* A step that only moves the cursor and the remaining steps.
LEMMA ContinueKeeps ==
  ASSUME StackInv, rc = "run", NEW todo, Continue(todo), UNCHANGED <<rc, depth>>
  PROVE  StackInv'
<1> DEFINE f == [Top EXCEPT !.todo = todo]
<1>1. DOMAIN Top = FrameFields
  BY StackFacts DEF StackInv, Top
<1>2. frames' = [frames EXCEPT ![Len(frames)] = f]
  BY DEF Continue, Top
<1>3. DOMAIN f = FrameFields /\ f.reader = Top.reader
  BY <1>1 DEF FrameFields
<1> HIDE DEF f
<1> QED BY <1>2, <1>3, TopKeeps

\* A step that leaves the stack alone.
LEMMA SameStack ==
  ASSUME StackInv, UNCHANGED <<frames, depth>>, rc' \in {"fail", "lost"} \/ rc' = rc
  PROVE  StackInv'
BY DEF StackInv, DepthBalanced, MediaFrames

\* A call returns: tl_skip_message_media_ex counts itself out on every path.
LEMMA ReturnKeeps == ASSUME StackInv, Return PROVE StackInv'
<1> DEFINE n == Len(frames)
           outer == SubSeq(frames, 1, Len(frames) - 1)
           f == [outer[n - 1] EXCEPT !.todo = Tail(@)]
<1>1. PICK S : frames \in Seq(S) /\ \A g \in S : DOMAIN g = FrameFields
  BY DEF StackInv
<1>2. /\ frames # <<>> /\ rc \in {"fail", "run"}
      /\ depth' = IF Top.reader = "MessageMedia" THEN depth - 1 ELSE depth
      /\ rc' = IF rc = "run" /\ n = 1 THEN "ok" ELSE rc
  BY Zenon DEF Return
<1>3. n \in Nat \ {0}
  BY <1>1, <1>2
<1>4. ASSUME NEW T, NEW fr \in Seq(T), Len(fr) = n - 1,
             \A i \in 1..(n - 1) :
                 DOMAIN fr[i] = FrameFields /\ fr[i].reader = frames[i].reader
      PROVE  /\ IsFiniteSet(MediaFrames(fr))
             /\ Cardinality(MediaFrames(fr)) = depth' /\ depth' <= MEDIA_RECURSION_MAX
  <2>1. MediaFrames(fr) = MediaFrames(frames) \ {n}
    BY <1>1, <1>3, <1>4 DEF MediaFrames
  <2>2. n \in MediaFrames(frames) <=> Top.reader = "MessageMedia"
    BY <1>1, <1>3 DEF MediaFrames, Top
  <2>3. IsFiniteSet(MediaFrames(frames)) /\ depth = Cardinality(MediaFrames(frames))
        /\ depth \in Nat /\ depth <= MEDIA_RECURSION_MAX
    BY StackFacts DEF StackInv
  <2>4. /\ IsFiniteSet(MediaFrames(fr))
        /\ Cardinality(MediaFrames(fr)) =
             IF n \in MediaFrames(frames) THEN depth - 1 ELSE depth
    <3>1. /\ IsFiniteSet(MediaFrames(frames) \ {n})
          /\ Cardinality(MediaFrames(frames) \ {n}) =
               IF n \in MediaFrames(frames) THEN Cardinality(MediaFrames(frames)) - 1
               ELSE Cardinality(MediaFrames(frames))
      <4> HIDE DEF n
      <4> QED BY <2>3, FS_RemoveElement
    <3> QED BY <2>1, <2>3, <3>1, Zenon
  <2> QED BY <1>2, <2>2, <2>3, <2>4 DEF MEDIA_RECURSION_MAX
<1>5. CASE n = 1
  <2>1. frames' = <<>> /\ rc' \in {"ok", "fail"}
    BY <1>2, <1>5, Zenon DEF Return
  <2>2. <<>> \in Seq(S) /\ Len(<<>>) = n - 1 /\ \A i \in 1..(n - 1) : FALSE
    BY <1>5
  <2>3. IsFiniteSet(MediaFrames(<<>>)) /\ Cardinality(MediaFrames(<<>>)) = depth'
        /\ depth' <= MEDIA_RECURSION_MAX
    BY <1>4, <1>5, <2>2, Zenon
  <2> QED BY <1>1, <2>1, <2>2, <2>3 DEF StackInv, DepthBalanced, MediaFrames
<1>6. CASE n # 1
  <2>1. frames' = [outer EXCEPT ![Len(outer)].todo = Tail(@)] /\ rc' \in {"run", "fail"}
    BY <1>2, <1>6, SMTT(20) DEF Return
  <2>2. outer \in Seq(S) /\ Len(outer) = n - 1 /\ n - 1 \in 1..(n - 1)
        /\ \A i \in 1..(n - 1) : outer[i] = frames[i] /\ outer[i] \in S
    <3>1. outer = SubSeq(frames, 1, n - 1) /\ n - 1 \in 1..n
      <4>1. outer = SubSeq(frames, 1, n - 1)
        OBVIOUS
      <4>2. n - 1 \in 1..n
        <5> HIDE DEF n
        <5> QED BY <1>3, <1>6
      <4> QED BY <4>1, <4>2, Zenon
    <3> HIDE DEF outer
    <3>2. Len(outer) = n - 1 /\ \A i \in 1..(n - 1) : outer[i] = frames[i]
      BY <1>1, <3>1
    <3>3. outer \in Seq(S)
      BY <1>1, <3>1
    <3> QED BY <1>1, <1>3, <1>6, <3>2, <3>3
  <2>3. DOMAIN f = FrameFields /\ f.reader = outer[n - 1].reader
    BY <1>1, <2>2 DEF FrameFields
  <2>4. frames' = [outer EXCEPT ![n - 1] = f]
    BY <2>1, <2>2
  <2> HIDE DEF f, outer
  <2>5. /\ frames' \in Seq(S \cup {f}) /\ Len(frames') = n - 1
        /\ \A i \in 1..(n - 1) : DOMAIN frames'[i] = FrameFields
                                 /\ frames'[i].reader = frames[i].reader
    BY <1>1, <2>2, <2>3, <2>4, SMTT(20)
  <2>6. IsFiniteSet(MediaFrames(frames')) /\ Cardinality(MediaFrames(frames')) = depth'
        /\ depth' <= MEDIA_RECURSION_MAX
    BY <1>4, <2>5
  <2>7. frames' # <<>>
    BY <1>6, <1>3, <2>5
  <2>8. \A g \in S \cup {f} : DOMAIN g = FrameFields
    BY <1>1, <2>3
  <2> QED BY <2>1, <2>5, <2>6, <2>7, <2>8 DEF StackInv, DepthBalanced, MediaFrames
<1> QED BY <1>5, <1>6

\* A reader is entered: tl_skip_message_media_ex counts itself, or refuses.
LEMMA EnterKeeps ==
  ASSUME StackInv, NEW r, NEW c, NEW fl, NEW cells, NEW reasons,
         tl_skip_message_media_ex(r, c, fl, cells, reasons)
  PROVE  StackInv'
<1> DEFINE f == [reader |-> r, fl |-> fl, todo |-> <<<<"enter", c>>>>]
<1>1. PICK S : frames \in Seq(S) /\ \A g \in S : DOMAIN g = FrameFields
  BY DEF StackInv
<1>2. CASE UNCHANGED <<frames, depth>> /\ rc' = "fail"
  BY <1>2, SameStack, SMTT(20)
<1>3. CASE /\ ~(r = "MessageMedia" /\ depth >= MEDIA_RECURSION_MAX)
           /\ frames' = Append(frames, f) /\ rc' = "run"
           /\ depth' = IF r = "MessageMedia" THEN depth + 1 ELSE depth
  <2>1. DOMAIN f = FrameFields /\ f.reader = r
    BY DEF FrameFields
  <2> HIDE DEF f
  <2> DEFINE n == Len(frames) + 1
  <2>2. /\ frames' \in Seq(S \cup {f}) /\ frames' # <<>> /\ n \in Nat \ {0}
        /\ \A g \in S \cup {f} : DOMAIN g = FrameFields
    BY <1>1, <1>3, <2>1
  <2>3. /\ DOMAIN frames' = DOMAIN frames \cup {n} /\ n \notin DOMAIN frames
        /\ frames'[n] = f /\ \A i \in DOMAIN frames : frames'[i] = frames[i]
    BY <1>1, <1>3
  <2> HIDE DEF n
  <2>4. /\ r = "MessageMedia" => MediaFrames(frames') = MediaFrames(frames) \cup {n}
        /\ r # "MessageMedia" => MediaFrames(frames') = MediaFrames(frames)
        /\ n \notin MediaFrames(frames)
    BY <2>1, <2>3, SMTT(20) DEF MediaFrames
  <2>5. /\ IsFiniteSet(MediaFrames(frames)) /\ depth = Cardinality(MediaFrames(frames))
        /\ depth \in Nat /\ depth <= MEDIA_RECURSION_MAX
    BY StackFacts DEF StackInv
  <2>6. /\ IsFiniteSet(MediaFrames(frames) \cup {n})
        /\ Cardinality(MediaFrames(frames) \cup {n}) = Cardinality(MediaFrames(frames)) + 1
    BY <2>4, <2>5, FS_AddElement
  <2>7. IsFiniteSet(MediaFrames(frames')) /\ depth' = Cardinality(MediaFrames(frames'))
        /\ depth' <= MEDIA_RECURSION_MAX
    <3>1. CASE r = "MessageMedia"
      <4>1. depth' = depth + 1 /\ ~(depth >= MEDIA_RECURSION_MAX)
        BY <1>3, <3>1, Zenon
      <4>2. depth + 1 <= MEDIA_RECURSION_MAX
        BY <2>5, <4>1 DEF MEDIA_RECURSION_MAX
      <4> QED BY <2>4, <2>5, <2>6, <3>1, <4>1, <4>2, Zenon
    <3>2. CASE r # "MessageMedia"
      BY <1>3, <2>4, <2>5, <3>2
    <3> QED BY <3>1, <3>2
  <2> QED BY <1>3, <2>2, <2>7 DEF StackInv, DepthBalanced, MediaFrames
<1> QED BY <1>2, <1>3, Zenon DEF tl_skip_message_media_ex

\* Every step of a reader keeps the stack.
LEMMA StackNext == StackInv /\ [Next]_vars => StackInv'
<1> SUFFICES ASSUME StackInv, [Next]_vars PROVE StackInv'
  OBVIOUS
<1>1. ASSUME NEW reasons, Refuse(reasons) PROVE StackInv'
  BY <1>1, SameStack DEF Refuse
<1>2. ASSUME rc = "run", NEW k, NEW e, NEW todo, Take(k, e, todo) PROVE StackInv'
  <2>1. CASE Continue(todo) /\ UNCHANGED <<rc, depth>>
    BY <1>2, <2>1, ContinueKeeps
  <2>2. CASE rc' = "lost" /\ UNCHANGED <<frames, depth>>
    BY <2>2, SameStack
  <2> QED BY <1>2, <2>1, <2>2, Zenon DEF Take
<1>3. ASSUME rc = "run", NEW todo, Clamp(todo) PROVE StackInv'
  BY <1>3, ContinueKeeps DEF Clamp
<1>4. CASE UNCHANGED vars
  BY <1>4, SameStack DEF vars
<1>5. ASSUME NEW r, NEW c, NEW fl, NEW n, NEW k, NEW pad, Begin(r, c, fl, n, k, pad)
      PROVE  StackInv'
  BY <1>5, EnterKeeps, Zenon DEF Begin
<1>6. CASE Enter
  <2>1. rc = "run"
    BY <1>6, Zenon DEF Enter
  <2>2. \/ \E reasons : Refuse(reasons)
        \/ \E todo : Continue(todo) /\ UNCHANGED <<rc, depth>>
    BY <1>6, Zenon DEF Enter
  <2> QED BY <1>1, <2>1, <2>2, ContinueKeeps
<1>7. ASSUME Doing({"need"}) \/ Doing({"int", "raw"}) \/ Doing({"str", "bytes"})
             \/ Doing({"peer"}) \/ Doing({"if"}) \/ Doing({"vec", "words"}) \/ Doing({"obj"})
             \/ Doing({"flags", "flags2"})
      PROVE  rc = "run"
  BY <1>7, Zenon DEF Doing
<1>8. CASE Guard
  <2>1. Refuse({}) \/ (Continue(Rest) /\ UNCHANGED <<rc, depth>>)
    BY <1>8, Zenon DEF Guard
  <2> QED BY <1>1, <1>7, <1>8, <2>1, ContinueKeeps DEF Guard
<1>9. CASE ReadWords
  <2>1. Refuse({}) \/ Clamp(Rest) \/ \E k, e : Take(k, e, Rest)
    BY <1>9, Zenon DEF ReadWords
  <2> QED BY <1>1, <1>2, <1>3, <1>7, <1>9, <2>1 DEF ReadWords
<1>10. CASE ReadString
  <2>1. \/ Refuse({}) \/ Clamp(Rest) \/ \E k, e : Take(k, e, Rest)
        \/ (Continue(Rest) /\ UNCHANGED <<rc, depth>>)
    BY <1>10, Zenon DEF ReadString
  <2> QED BY <1>1, <1>2, <1>3, <1>7, <1>10, <2>1, ContinueKeeps DEF ReadString
<1>11. CASE ReadPeer
  <2>1. Refuse({}) \/ \E k, e : Take(k, e, Rest)
    BY <1>11, Zenon DEF ReadPeer
  <2> QED BY <1>1, <1>2, <1>7, <1>11, <2>1 DEF ReadPeer
<1>12. CASE Branch
  <2>1. \E todo : Continue(todo) /\ UNCHANGED <<rc, depth>>
    BY <1>12, Zenon DEF Branch
  <2> QED BY <1>7, <1>12, <2>1, ContinueKeeps DEF Branch
<1>13. CASE ReadVector
  <2>1. Refuse({}) \/ \E k, e, todo : Take(k, e, todo)
    BY <1>13, Zenon DEF ReadVector
  <2> QED BY <1>1, <1>2, <1>7, <1>13, <2>1 DEF ReadVector
<1>14. CASE SkipNested
  <2>1. (\E reasons : Refuse(reasons)) \/ \E k, e : Take(k, e, Rest)
    BY <1>14, Zenon DEF SkipNested
  <2> QED BY <1>1, <1>2, <1>7, <1>14, <2>1 DEF SkipNested
<1>15. ASSUME NEW c, NEW all, CallNested(c, all) PROVE StackInv'
  <2>1. \/ Refuse({}) \/ Take(1, FALSE, Rest)
        \/ \E r, fl, cells : tl_skip_message_media_ex(r, c, fl, cells, why)
    BY <1>15, Zenon DEF CallNested
  <2>2. Doing({"obj"})
    BY <1>15, Zenon DEF CallNested
  <2> QED BY <1>1, <1>2, <1>7, <2>1, <2>2, EnterKeeps
<1>16. CASE ReadFlags
  <2>1. \/ \E k, e : Take(k, e, Rest)
        \/ /\ UNCHANGED <<rc, depth>>
           /\ frames' = [frames EXCEPT ![Len(frames)].todo = Rest,
                           ![Len(frames)].fl = IF Next1[1] = "flags"
                                               THEN @ \cap (32..63) ELSE @ \cap (0..31)]
    BY <1>16, Zenon DEF ReadFlags
  <2>2. rc = "run"
    BY <1>7, <1>16, Zenon DEF ReadFlags
  <2>3. CASE /\ UNCHANGED <<rc, depth>>
             /\ frames' = [frames EXCEPT ![Len(frames)].todo = Rest,
                             ![Len(frames)].fl = IF Next1[1] = "flags"
                                                 THEN @ \cap (32..63) ELSE @ \cap (0..31)]
    <3>1. DOMAIN Top = FrameFields /\ Len(frames) \in DOMAIN frames
      BY <2>2, StackFacts DEF StackInv, Top
    <3> DEFINE g == [Top EXCEPT !.todo = Rest, !.fl = IF Next1[1] = "flags"
                                                      THEN @ \cap (32..63) ELSE @ \cap (0..31)]
    <3>2. frames' = [frames EXCEPT ![Len(frames)] = g]
      BY <2>3, <3>1 DEF Top, FrameFields
    <3>3. DOMAIN g = FrameFields /\ g.reader = Top.reader
      BY <3>1 DEF FrameFields
    <3> HIDE DEF g
    <3> QED BY <2>2, <2>3, <3>2, <3>3, TopKeeps
  <2> QED BY <1>2, <2>1, <2>2, <2>3
<1> QED BY <1>4, <1>5, <1>6, <1>8, <1>9, <1>10, <1>11, <1>12, <1>13, <1>14, <1>15,
        <1>16,
       ReturnKeeps, Zenon DEF Next

(* The static recursion_depth of tl_skip_message_media_ex equals the       *)
(* number of its activations on the stack, never more than                 *)
(* MEDIA_RECURSION_MAX, on every error path as on success, for any tables  *)
(* of readers and any objects.  So every answer of a process, after        *)
(* however many refused ones, starts with the counter at zero.             *)
THEOREM DepthIsBalanced == Spec => []DepthBalanced
<1>1. Init => StackInv
  <2> SUFFICES ASSUME Init PROVE StackInv
    OBVIOUS
  <2>1. frames = <<>> /\ rc = "idle" /\ depth = 0
    BY DEF Init
  <2>2. MediaFrames(<<>>) = {} /\ <<>> \in Seq({}) /\ 0 <= MEDIA_RECURSION_MAX
    BY DEF MediaFrames, MEDIA_RECURSION_MAX
  <2> QED BY <2>1, <2>2, FS_EmptySet, Zenon DEF StackInv, DepthBalanced, MediaFrames
<1>2. StackInv => DepthBalanced
  BY DEF StackInv
<1> QED BY <1>1, <1>2, StackNext, PTL DEF Spec
=============================================================================
