------------------------------ MODULE MCWatch ------------------------------
(***************************************************************************)
(* Instances of Watch: two processes over one state file and one account.  *)
(***************************************************************************)
EXTENDS Watch

CONSTANTS w1, w2

Message(peer) == [peer |-> peer, kind |-> "message"]

\* A message, an update that is none, a service message (read without its
\* peer), one no parser gets past, and a message behind it.
LongLog == <<Message(1), [peer |-> 0, kind |-> "update"],
             [peer |-> 0, kind |-> "service"], [peer |-> 2, kind |-> "hard"],
             Message(1)>>

\* One process after another on a long log; two at once on a short one.
MCSetups ==
    {[procs |-> {w1}, log |-> LongLog, starts |-> 2, faults |-> 2],
     [procs |-> {w2}, log |-> LongLog, starts |-> 2, faults |-> 2],
     [procs |-> {w1, w2}, log |-> <<Message(1)>>,
      starts |-> 2, faults |-> 1]}

\* One process without options; one that writes JSON lines, with a list that
\* names one peer and an unknown one too many, or only an unknown one.
MCOptions ==
    [w \in Watchers |-> IF w = w1 THEN {[peers |-> <<>>, json |-> FALSE]}
                        ELSE {[peers |-> <<1, -1>>, json |-> TRUE],
                              [peers |-> <<-1>>, json |-> TRUE]}]

\* The pts of the model stand for values of one, three and four digits.
MCWidth == [p \in 0..5 |-> IF p = 0 THEN 1 ELSE IF p < 3 THEN 3 ELSE 4]
=============================================================================
