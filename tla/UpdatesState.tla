---------------------------- MODULE UpdatesState ----------------------------
(***************************************************************************)
(* ~/.cache/tg-cli/updates.state (infrastructure/updates_state_store.c):   *)
(* the state of the update stream that consecutive watch commands share.   *)
(* It is written to one temporary name, the same for every process, and    *)
(* renamed over the file; there is no lock.  Streams are buffered, so the  *)
(* text reaches the inode at fclose.  A state is its pts: the other fields *)
(* are written and read with it.                                           *)
(***************************************************************************)
EXTENDS Integers, FiniteSets

CONSTANTS
    Watchers,   \* the processes
    Width       \* pts -> length of the text of that state

ASSUME WidthAssumption == \A p \in DOMAIN Width : Width[p] \in Nat

VARIABLES
    file,       \* "state" and "tmp" -> Missing, or [pts, tail]: a state and
                \* what is left of a longer text behind it
    fp,         \* process -> the name its open stream's inode has now:
                \* "tmp", "state", "unlinked"; or "closed"
    crossed     \* one process opened tmp between open and rename of another

svars == <<file, fp, crossed>>

Missing == [pts |-> -2, tail |-> 0]
Blank == [pts |-> -1, tail |-> 0]

SInit ==
    /\ file = [n \in {"state", "tmp"} |-> Missing]
    /\ fp = [w \in Watchers |-> "closed"]
    /\ crossed = FALSE

TextLen(t) == IF t.pts < 0 THEN 0 ELSE Width[t.pts] + t.tail

\* A rest of one character is the newline, a blank line; two or three are no
\* key=value line; the line of a longer one has an unknown key, or is whole,
\* and is passed over.
Malformed(t) == t.tail \in {2, 3}

\* updates_state_load: a missing, incomplete or malformed file is refused.
Loads == file["state"].pts >= 0 /\ ~Malformed(file["state"])

updates_state_load == IF Loads THEN file["state"].pts ELSE -1

\* Mutant: the temporary file is renamed as soon as it is open.
MutantRenameFirst(w) ==
    /\ file' = [file EXCEPT !["state"] = Blank]
    /\ fp' = [v \in Watchers |-> IF v = w THEN "state"
                                 ELSE IF fp[v] = "state" THEN "unlinked"
                                 ELSE fp[v]]
    /\ UNCHANGED crossed

\* fopen(tmp, "w") truncates the inode tmp names, or makes a new one.
save_open(w) ==
    /\ file' = [file EXCEPT !["tmp"] = Blank]
    /\ fp' = [fp EXCEPT ![w] = "tmp"]
    /\ crossed' = (crossed \/ file["tmp"] # Missing)

\* fclose writes the text at the start of the inode.
save_close(w, pts) ==
    LET n == fp[w]
        rest == TextLen(file[n]) - Width[pts]
    IN /\ file' = IF n = "unlinked" THEN file
                  ELSE [file EXCEPT ![n] =
                         [pts |-> pts, tail |-> IF rest > 0 THEN rest ELSE 0]]
       /\ fp' = [fp EXCEPT ![w] = "closed"]
       /\ UNCHANGED crossed

\* rename(tmp, state) fails when another process has renamed tmp already.
save_rename(w) ==
    /\ file["tmp"] # Missing
    /\ file' = [file EXCEPT !["state"] = file["tmp"], !["tmp"] = Missing]
    /\ fp' = [v \in Watchers |-> CASE fp[v] = "tmp" -> "state"
                                   [] fp[v] = "state" -> "unlinked"
                                   [] OTHER -> fp[v]]
    /\ UNCHANGED crossed

save_rename_fails(w) == file["tmp"] = Missing /\ UNCHANGED svars

\* The process ends without fclose: what its stream holds is lost.
save_killed(w) ==
    /\ fp' = [fp EXCEPT ![w] = "closed"]
    /\ UNCHANGED <<file, crossed>>

(***************************************************************************)
(* "Atomically writes": updates_state_load refuses a file that exists only *)
(* if two processes were inside updates_state_save at once.                *)
(***************************************************************************)
RefusedOnlyIfCrossed == file["state"] # Missing /\ ~Loads => crossed
=============================================================================
