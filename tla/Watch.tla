------------------------------- MODULE Watch -------------------------------
(***************************************************************************)
(* The watch command (cmd_watch of tg_cli_ro.c and tg_cli.c) over          *)
(* domain_updates_state and domain_updates_difference (updates.c): load or *)
(* fetch the state, then poll, save the state, print, sleep.               *)
(*                                                                         *)
(* The server's log is a sequence of updates, numbered by pts; most are    *)
(* new messages.  A message carries the peer id the client reads for it:   *)
(* 0 for a service message, whose peer is skipped.  A "hard" message is    *)
(* one parse_message gives up on: it is kept and ends the loop.            *)
(***************************************************************************)
EXTENDS UpdatesState, Sequences

CONSTANTS
    Setups,                 \* what a behaviour may start with: procs, the
                            \* processes that run; log, the server's log,
                            \* [peer, kind] per pts; and the bounds on
                            \* commands and faults
    Options,                \* process -> the options it may be started with:
                            \*   peers, the tokens of --peers as the ids they
                            \*   stand for (-1: no such username), and json
    Flaky,                  \* processes whose calls may fail
    UPDATES_MAX_MESSAGES, WATCH_PEERS_MAX,
    WATCH_BACKOFF_INIT_S, WATCH_BACKOFF_CAP_S,
    SliceMax,               \* most messages the server puts in an answer
    TooLongGap              \* largest gap the server still fills

ASSUME SetupsAssumption ==
    \A s \in Setups :
        /\ s.procs \subseteq Watchers
        /\ Len(s.log) \in Nat /\ 0..Len(s.log) \subseteq DOMAIN Width
        /\ \A i \in 1..Len(s.log) :
             s.log[i].kind \in {"message", "service", "hard", "update"}

ASSUME BackoffAssumption == WATCH_BACKOFF_INIT_S <= WATCH_BACKOFF_CAP_S

VARIABLES
    setup,      \* never changes
    spts,       \* the server's pts
    watch,      \* the processes
    printed,    \* messages some reader has received
    skipped,    \* messages jumped over by getState or differenceTooLong
    gone,       \* process -> the reader of its pipe has exited
    starts, faults  \* commands started; signals, lost connections, readers

counters == <<starts, faults, setup>>
wvars == <<svars, spts, watch, printed, skipped, gone, counters>>

Off == [pc |-> "off", pts |-> 0, filter |-> {}, json |-> FALSE,
        diff |-> <<>>, buf |-> {}, backoff |-> 0, stop |-> FALSE,
        conn |-> "up", then |-> "poll"]

Log == setup.log

WInit ==
    /\ SInit /\ setup \in Setups
    /\ spts = 0 /\ starts = 0 /\ faults = 0
    /\ watch = [w \in Watchers |-> Off]
    /\ printed = {} /\ skipped = {}
    /\ gone = [w \in Watchers |-> FALSE]

\* UNCHANGED for a step that changes only the process's own record.
Own == UNCHANGED <<svars, spts, printed, skipped, gone, counters>>

To(w, pc) == watch' = [watch EXCEPT ![w].pc = pc]

-----------------------------------------------------------------------------
\* The first WATCH_PEERS_MAX tokens are resolved, the rest is not looked at.
watch_peers_resolve(peers) ==
    {peers[i] : i \in 1..(IF Len(peers) < WATCH_PEERS_MAX THEN Len(peers)
                          ELSE WATCH_PEERS_MAX)}

\* session_bringup has succeeded; an unknown username ends the command.
cmd_watch(w, opt) ==
    /\ watch[w].pc = "off" /\ -1 \notin watch_peers_resolve(opt.peers) /\ starts < setup.starts
    /\ w \in setup.procs
    /\ watch' = [watch EXCEPT ![w] = [Off EXCEPT !.pc = "load",
                                        !.filter = watch_peers_resolve(opt.peers),
                                        !.json = opt.json]]
    /\ gone' = [gone EXCEPT ![w] = FALSE]
    /\ starts' = starts + 1
    /\ UNCHANGED <<svars, spts, printed, skipped, faults, setup>>

Load(w) ==
    /\ watch[w].pc = "load"
    /\ watch' = [watch EXCEPT ![w] =
                   IF updates_state_load # -1
                   THEN [@ EXCEPT !.pc = "poll", !.pts = updates_state_load]
                   ELSE [@ EXCEPT !.pc = "seed"]]
    /\ Own

domain_updates_state(w) ==
    /\ watch[w].pc = "seed" /\ watch[w].conn = "up"
    /\ watch' = [watch EXCEPT ![w].pc = "save", ![w].pts = spts,
                              ![w].then = "poll"]
    /\ skipped' = skipped \cup (1..spts)
    /\ UNCHANGED <<svars, spts, printed, gone, counters>>

\* getState failed: the command ends.
SeedFails(w) ==
    /\ watch[w].pc = "seed" /\ (w \in Flaky \/ watch[w].conn = "dead")
    /\ watch' = [watch EXCEPT ![w] = Off]
    /\ Own

-----------------------------------------------------------------------------
\* updates_state_save; its result is not looked at.
Save(w) ==
    /\ \/ watch[w].pc = "save" /\ save_open(w) /\ To(w, "close")
       \/ watch[w].pc = "close" /\ save_close(w, watch[w].pts)
                                /\ To(w, "rename")
       \/ /\ watch[w].pc = "rename"
          /\ save_rename(w) \/ save_rename_fails(w)
          /\ To(w, watch[w].then)
    /\ UNCHANGED <<spts, printed, skipped, gone, counters>>

\* mkdir, fopen or fclose fails.
SaveFails(w) ==
    /\ watch[w].pc = "save" /\ w \in Flaky
    /\ To(w, watch[w].then) /\ Own

-----------------------------------------------------------------------------
watch_peer_allowed(filter, peer) == filter = {} \/ peer \in filter

\* The new_messages of an answer to a request at pts.
NewMessages(pts) ==
    LET new == {m \in (pts + 1)..spts : Log[m].kind # "update"}
        slice == {m \in new :
                    Cardinality({k \in new : k < m}) < SliceMax}
    IN slice

\* Mutant: one entry of the array is left unused.
MutantParsed(pts) ==
    LET new == NewMessages(pts)
        before(m) == {k \in new : k < m}
    IN {m \in new : /\ Cardinality(before(m)) < UPDATES_MAX_MESSAGES - 1
                    /\ \A k \in before(m) : Log[k].kind # "hard"}

\* Those parse_message delivers: the array is bounded, and a message it gives
\* up on is the last.
Parsed(pts) ==
    LET new == NewMessages(pts)
        before(m) == {k \in new : k < m}
    IN {m \in new : /\ Cardinality(before(m)) < UPDATES_MAX_MESSAGES
                    /\ \A k \in before(m) : Log[k].kind # "hard"}

\* A finite set of numbers in increasing order.
Ordered(S) ==
    [i \in 1..Cardinality(S) |->
       CHOOSE m \in S : Cardinality({k \in S : k < m}) = i - 1]

\* Mutant: the state of the answer is taken over.
MutantDifference(pts) ==
    CASE pts = spts -> [pts |-> pts, new |-> {}, skip |-> {}]
      [] spts - pts > TooLongGap ->
           [pts |-> spts, new |-> {}, skip |-> (pts + 1)..spts]
      [] OTHER -> [pts |-> spts, new |-> Parsed(pts), skip |-> {}]

\* domain_updates_difference: differenceEmpty, differenceTooLong, or a
\* difference or slice, after which next_state is the state asked with.
domain_updates_difference(pts) ==
    CASE pts = spts -> [pts |-> pts, new |-> {}, skip |-> {}]
      [] spts - pts > TooLongGap ->
           [pts |-> spts, new |-> {}, skip |-> (pts + 1)..spts]
      [] OTHER -> [pts |-> pts, new |-> Parsed(pts), skip |-> {}]

\* The loop of cmd_watch.
Poll(w) ==
    LET d == domain_updates_difference(watch[w].pts)
    IN /\ watch[w].pc = "poll" /\ ~watch[w].stop /\ watch[w].conn = "up"
       /\ watch' = [watch EXCEPT ![w].pc = "save", ![w].then = "print",
                                 ![w].pts = d.pts, ![w].backoff = 0,
                                 ![w].diff = Ordered(d.new)]
       /\ skipped' = skipped \cup d.skip
       /\ UNCHANGED <<svars, spts, printed, gone, counters>>

Backoff(b) ==
    IF b = 0 THEN WATCH_BACKOFF_INIT_S
    ELSE IF b < WATCH_BACKOFF_CAP_S
    THEN IF 2 * b < WATCH_BACKOFF_CAP_S THEN 2 * b ELSE WATCH_BACKOFF_CAP_S
    ELSE b

\* The call failed; after the wait the next one uses the same connection.
PollFails(w) ==
    /\ watch[w].pc = "poll" /\ ~watch[w].stop
    /\ w \in Flaky \/ watch[w].conn = "dead"
    /\ watch' = [watch EXCEPT ![w].backoff = Backoff(@)]
    /\ Own

\* One message: filtered, or written; a JSON line is flushed at once and sees
\* the closed pipe, a plain line stays in the stream's buffer.
PrintEntry(w) ==
    LET m == Head(watch[w].diff)
        sent == watch_peer_allowed(watch[w].filter, Log[m].peer)
        epipe == sent /\ watch[w].json /\ gone[w]
    IN /\ watch[w].pc = "print" /\ watch[w].diff # <<>>
       /\ watch' = [watch EXCEPT
            ![w].diff = IF epipe THEN <<>> ELSE Tail(@),
            ![w].stop = @ \/ epipe,
            ![w].buf = IF sent /\ ~watch[w].json THEN @ \cup {m} ELSE @]
       /\ printed' = IF sent /\ watch[w].json /\ ~epipe
                     THEN printed \cup {m} ELSE printed
       /\ UNCHANGED <<svars, spts, skipped, gone, counters>>

\* fflush after the batch, and the sleep, which SIGINT cuts short.  Plain output has always something to flush: the
\* messages or the line that there are none.
Flush(w) ==
    /\ watch[w].pc = "print" /\ watch[w].diff = <<>> /\ ~watch[w].stop
    /\ watch' = [watch EXCEPT ![w].pc = "poll", ![w].buf = {},
                              ![w].stop = gone[w] /\ ~watch[w].json]
    /\ printed' = IF gone[w] THEN printed ELSE printed \cup watch[w].buf
    /\ UNCHANGED <<svars, spts, skipped, gone, counters>>

\* g_stop ends the loop; the buffer is flushed as the process exits.
Exit(w) ==
    /\ watch[w].stop
    /\ watch[w].pc = "poll"
         \/ (watch[w].pc = "print" /\ watch[w].diff = <<>>)
    /\ watch' = [watch EXCEPT ![w] = Off]
    /\ printed' = IF gone[w] THEN printed ELSE printed \cup watch[w].buf
    /\ UNCHANGED <<svars, spts, skipped, gone, counters>>

-----------------------------------------------------------------------------
Fault == /\ faults < setup.faults /\ faults' = faults + 1
         /\ UNCHANGED <<starts, setup>>

\* SIGINT; the handler is installed before the state is loaded.
on_sigint(w) ==
    /\ watch[w].pc # "off" /\ ~watch[w].stop /\ Fault
    /\ watch' = [watch EXCEPT ![w].stop = TRUE]
    /\ UNCHANGED <<svars, spts, printed, skipped, gone>>

\* The process is killed.
Kill(w) ==
    /\ watch[w].pc # "off" /\ Fault
    /\ save_killed(w)
    /\ watch' = [watch EXCEPT ![w] = Off]
    /\ UNCHANGED <<spts, printed, skipped, gone>>

\* The connection is lost: every later call of this process fails.
Drop(w) ==
    /\ watch[w].pc # "off" /\ w \in Flaky /\ watch[w].conn = "up" /\ Fault
    /\ watch' = [watch EXCEPT ![w].conn = "dead"]
    /\ UNCHANGED <<svars, spts, printed, skipped, gone>>

\* The reader of the pipe exits.
ReaderExits(w) ==
    /\ watch[w].pc # "off" /\ ~gone[w] /\ Fault
    /\ gone' = [gone EXCEPT ![w] = TRUE]
    /\ UNCHANGED <<svars, spts, watch, printed, skipped>>

Arrive ==
    /\ spts < Len(Log) /\ spts' = spts + 1
    /\ UNCHANGED <<svars, watch, printed, skipped, gone, counters>>

-----------------------------------------------------------------------------
Step(w) == \/ Load(w) \/ domain_updates_state(w) \/ Save(w)
           \/ PrintEntry(w) \/ Flush(w) \/ Exit(w)

Faults(w) == \/ SeedFails(w) \/ SaveFails(w) \/ PollFails(w)
             \/ on_sigint(w) \/ Kill(w) \/ Drop(w) \/ ReaderExits(w)

WNext ==
    \/ \E w \in Watchers :
          \/ Step(w) \/ Poll(w) \/ Faults(w)
          \/ \E opt \in Options[w] : cmd_watch(w, opt)
    \/ Arrive

\* Commands run on; calls of a live connection are answered again and again,
\* those of a dead one fail.
DeadCall(w) == watch[w].conn = "dead" /\ (SeedFails(w) \/ PollFails(w))

Fairness == \A w \in Watchers : /\ WF_wvars(Step(w)) /\ SF_wvars(Poll(w))
                                /\ WF_wvars(DeadCall(w))

WSpec == WInit /\ [][WNext]_wvars /\ Fairness

-----------------------------------------------------------------------------

(***************************************************************************)
(* No message is passed over in silence: a state a process works with, or  *)
(* the next one would load, is never ahead of a message no reader has      *)
(* received, unless getState or differenceTooLong jumped over it - even    *)
(* though cmd_watch saves the state before it prints and may be killed     *)
(* between the two.                                                        *)
(***************************************************************************)
NothingPassedOver ==
    LET states == {updates_state_load}
                    \cup {watch[w].pts : w \in Watchers}
    IN \A p \in states : \A m \in 1..p :
          m \in printed \/ m \in skipped \/ Log[m].kind = "update"

(***************************************************************************)
(* A running watch catches up: every message the answers to it contain,    *)
(* that its filter lets through and that is neither beyond the array nor   *)
(* behind a message the parser gives up on, is received in the end, failed *)
(* polls notwithstanding, unless the process ends, loses its connection,   *)
(* or is told differenceTooLong.                                           *)
(***************************************************************************)
Due(w) ==
    LET new == NewMessages(watch[w].pts)
        before(m) == {k \in new : k < m}
    IN {m \in new \ (printed \cup skipped) :
          /\ Cardinality(before(m)) < UPDATES_MAX_MESSAGES
          /\ \A k \in before(m) : Log[k].kind # "hard"
          /\ watch_peer_allowed(watch[w].filter, Log[m].peer)}

CatchesUp ==
    \A w \in Watchers :
        (watch[w].pc = "poll" /\ Due(w) # {})
            ~> \/ watch[w].pc = "off" \/ watch[w].conn = "dead"
               \/ Due(w) = {}
=============================================================================
