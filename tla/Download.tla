------------------------------ MODULE Download ------------------------------
(***************************************************************************)
(* Media download: the download command of the three binaries, the chunk   *)
(* loop of domain/read/media.c with its cache hit and its retry at another *)
(* DC, and the index media_id -> path of infrastructure/media_index.c,     *)
(* which every process reads and rewrites without a lock.                  *)
(*                                                                         *)
(* A file is the sequence of the pieces written to it, <<m, i>> being      *)
(* piece i of medium m.  One piece is CHUNK_SIZE bytes; the last one may   *)
(* be shorter, and a medium that is Exact ends with an empty answer.       *)
(***************************************************************************)
EXTENDS Integers, Sequences

CONSTANTS Procs,        \* running binaries that share the cache directory
          Media,        \* downloadable photos and documents
          Paths,        \* paths a download may be written to
          OutPaths,     \* OutPaths[m]: its default path and --out arguments
          Pieces,       \* Pieces[m]: non-empty pieces of m
          Exact,        \* media whose size is a multiple of CHUNK_SIZE
          Foreign,      \* media that live on another DC than the home DC
          MEDIA_IDX_MAX_ENTRIES,
          Earlier,      \* indexes that earlier downloads may have left
          MaxCommands,  \* bound on commands
          MaxRemovals   \* bound on files the user deletes

ASSUME PiecesAssumption == Pieces \in [Media -> Nat]
ASSUME OutPathsAssumption == OutPaths \in [Media -> SUBSET Paths]

\* Earlier downloads left one line for each medium, and did not write one
\* over the other.
ASSUME EarlierAssumption ==
    /\ MEDIA_IDX_MAX_ENTRIES \in Nat
    /\ Earlier \subseteq Seq(Media \X Paths)
    /\ \A e \in Earlier :
         /\ Len(e) <= MEDIA_IDX_MAX_ENTRIES
         /\ \A i, j \in 1..Len(e) :
              e[i][1] = e[j][1] \/ e[i][2] = e[j][2] => i = j

VARIABLES files,     \* path -> its pieces, or Absent
          index,     \* the lines <<media id, path>> of media.idx
          dl,        \* process -> its download command
          commands,  \* commands started
          removals,  \* files removed
          spoiled    \* history: paths opened for writing while in use

dvars == <<files, index, dl, commands, removals, spoiled>>

Absent == <<<<"absent", 0>>>>
Hole == <<"hole", 0>>
Whole(m) == [i \in 1..Pieces[m] |-> <<m, i>>]
NoPath == "none"

ASSUME NoPathAssumption == NoPath \notin Paths

Idle == [pc |-> "idle", m |-> "none", out |-> NoPath, dc |-> "home",
         off |-> 0, cached |-> NoPath, put |-> 0, lines |-> <<>>]

DInit ==
    /\ index \in Earlier
    /\ files = [p \in Paths |->
                  IF \E i \in 1..Len(index) : index[i][2] = p
                  THEN Whole(index[CHOOSE i \in 1..Len(index) :
                                     index[i][2] = p][1])
                  ELSE Absent]
    /\ dl = [q \in Procs |-> Idle] /\ commands = 0 /\ removals = 0
    /\ spoiled = {}

InUse(q, p) ==
    \/ dl[q].pc \in {"chunk", "put", "rewrite", "flush", "saved"} /\ dl[q].out = p
    \/ dl[q].pc = "open" /\ dl[q].cached = p
    \/ \E i \in 1..Len(dl[q].lines) : dl[q].lines[i][2] = p

\* Path p is opened with "wb" although the index names it or another
\* process relies on it: the code looks at neither.
Spoils(q, p) ==
    \/ \E i \in 1..Len(index) : index[i][2] = p
    \/ \E r \in Procs \ {q} : InUse(r, p)

\* cmd_download, once the message has been fetched and has a photo or
\* document with access_hash and file_reference.
cmd_download(q, m, out) ==
    /\ dl[q].pc = "idle" /\ commands < MaxCommands /\ out \in OutPaths[m]
    /\ dl' = [dl EXCEPT ![q] = [Idle EXCEPT !.pc = "lookup", !.m = m,
                                            !.out = out]]
    /\ commands' = commands + 1
    /\ UNCHANGED <<files, index, removals, spoiled>>

\* media_index_get: the path of the first line of the medium.
media_index_get(lines, m) ==
    LET mine == {i \in 1..Len(lines) : lines[i][1] = m}
    IN IF mine = {} THEN NoPath
       ELSE lines[CHOOSE i \in mine : \A j \in mine : i <= j][2]

Lookup(q) ==
    /\ dl[q].pc = "lookup"
    /\ dl' = [dl EXCEPT ![q].pc = "open",
                        ![q].cached = media_index_get(index, dl[q].m)]
    /\ UNCHANGED <<files, index, commands, removals, spoiled>>

Hit(q) == dl[q].cached # NoPath /\ files[dl[q].cached] # Absent

\* The cache hit of domain_download_photo and domain_download_document: the
\* indexed file can be opened; it is copied when another path is asked for.
domain_download_hit(q) ==
    LET from == dl[q].cached
        out == dl[q].out
    IN /\ dl[q].pc = "open" /\ Hit(q)
       /\ files' = [files EXCEPT ![out] = files[from]]
       /\ spoiled' = IF from = out THEN spoiled
                     ELSE IF from \in spoiled \/ Spoils(q, out)
                     THEN spoiled \cup {out} ELSE spoiled
       /\ dl' = [dl EXCEPT ![q].pc = "put", ![q].put = 2]
       /\ UNCHANGED <<index, commands, removals>>

\* download_loop opens, and so truncates, the target.
download_loop_open(q) ==
    LET out == dl[q].out
    IN /\ dl[q].pc = "open" /\ ~Hit(q)
       /\ files' = [files EXCEPT ![out] = <<>>]
       /\ spoiled' = IF Spoils(q, out) THEN spoiled \cup {out} ELSE spoiled
       /\ dl' = [dl EXCEPT ![q].pc = "chunk", ![q].off = 0]
       /\ UNCHANGED <<index, commands, removals>>

\* upload.getFile asks for CHUNK_SIZE bytes at the offset reached so far.
build_getfile_request(d) == d.off + 1

WriteAt(f, i, piece) ==
    [j \in 1..(IF Len(f) < i THEN i ELSE Len(f)) |->
       IF j = i THEN piece ELSE IF j <= Len(f) THEN f[j] ELSE Hole]

\* Mutant: an empty answer does not end the loop.
MutantEmptyGoesOn(q) ==
    LET m == dl[q].m
        out == dl[q].out
        i == build_getfile_request(dl[q])
        last == m \notin Exact /\ i >= Pieces[m]
        after == IF i <= Pieces[m] THEN WriteAt(files[out], i, <<m, i>>)
                 ELSE files[out]
    IN /\ dl[q].pc = "chunk" /\ ~(m \in Foreign /\ dl[q].dc = "home")
       /\ files' = [files EXCEPT ![out] = after]
       /\ dl' = [dl EXCEPT ![q].off = IF last THEN 0
                                      ELSE IF i <= Pieces[m] THEN i ELSE @,
                           ![q].pc = IF last THEN "put" ELSE "chunk",
                           ![q].put = IF last THEN 1 ELSE 0]
       /\ UNCHANGED <<index, commands, removals, spoiled>>

\* One upload.getFile answered with upload.file; a piece shorter than
\* CHUNK_SIZE ends the loop, the file is closed and media_index_put follows.
download_loop(q) ==
    LET m == dl[q].m
        out == dl[q].out
        i == build_getfile_request(dl[q])
        last == IF m \in Exact THEN i > Pieces[m] ELSE i >= Pieces[m]
        after == IF i <= Pieces[m] THEN WriteAt(files[out], i, <<m, i>>)
                 ELSE files[out]
    IN /\ dl[q].pc = "chunk" /\ ~(m \in Foreign /\ dl[q].dc = "home")
       /\ files' = [files EXCEPT ![out] = after]
       /\ dl' = [dl EXCEPT ![q].off = IF last THEN 0 ELSE i,
                           ![q].pc = IF last THEN "put" ELSE "chunk",
                           ![q].put = IF last THEN 1 ELSE 0]
       /\ UNCHANGED <<index, commands, removals, spoiled>>

\* FILE_MIGRATE_X from the home DC: the file is closed as it is, and the
\* whole download is tried again at the other DC, index lookup included.
domain_download_media_cross_dc(q) ==
    /\ dl[q].pc = "chunk" /\ dl[q].m \in Foreign /\ dl[q].dc = "home"
    /\ dl' = [dl EXCEPT ![q].pc = "lookup", ![q].dc = "foreign",
                        ![q].off = 0]
    /\ UNCHANGED <<files, index, commands, removals, spoiled>>

\* Mutant: the index is updated whatever the loop returned.
MutantPutOnFailure(q) ==
    /\ \/ dl[q].pc = "chunk"
       \/ dl[q].pc = "open" /\ ~Hit(q)
    /\ dl' = [dl EXCEPT ![q].pc = "put", ![q].put = 1, ![q].off = 0]
    /\ UNCHANGED <<files, index, commands, removals, spoiled>>

\* Every other end of the loop: fopen or fwrite failed, the call failed, an
\* error, a CDN redirect, or no session at the other DC.
DownloadFails(q) ==
    /\ \/ dl[q].pc = "chunk"
       \/ dl[q].pc = "open" /\ ~Hit(q)
    /\ dl' = [dl EXCEPT ![q] = Idle]
    /\ UNCHANGED <<files, index, commands, removals, spoiled>>

\* Mutant: once the medium is found every line gets the new path.
MutantPutLines(m, path) ==
    LET read == SubSeq(index, 1, IF Len(index) < MEDIA_IDX_MAX_ENTRIES
                                 THEN Len(index) ELSE MEDIA_IDX_MAX_ENTRIES)
        found == \E i \in 1..Len(read) : read[i][1] = m
    IN IF found THEN [i \in 1..Len(read) |-> <<read[i][1], path>>]
       ELSE Append(read, <<m, path>>)

\* media_index_put, first half: at most MEDIA_IDX_MAX_ENTRIES lines are read;
\* the line of the medium is replaced, or one is added while there is room.
PutLines(m, path) ==
    LET read == SubSeq(index, 1, IF Len(index) < MEDIA_IDX_MAX_ENTRIES
                                 THEN Len(index) ELSE MEDIA_IDX_MAX_ENTRIES)
        found == \E i \in 1..Len(read) : read[i][1] = m
        same == [i \in 1..Len(read) |->
                   IF read[i][1] = m THEN <<m, path>> ELSE read[i]]
    IN IF found THEN same ELSE Append(read, <<m, path>>)

\* media_index_put is called by domain_download_* (put = 1) and again by the
\* command (put = 2), which then reports the path as saved.
AfterPut(d) == IF d.put = 1 THEN [d EXCEPT !.pc = "put", !.put = 2,
                                           !.lines = <<>>]
               ELSE [d EXCEPT !.pc = "saved", !.put = 0, !.lines = <<>>]

media_index_put_read(q) ==
    LET lines == PutLines(dl[q].m, dl[q].out)
    IN /\ dl[q].pc = "put"
       /\ dl' = [dl EXCEPT ![q] =
                   IF Len(lines) > MEDIA_IDX_MAX_ENTRIES THEN AfterPut(@)
                   ELSE [@ EXCEPT !.pc = "rewrite", !.lines = lines]]
       /\ UNCHANGED <<files, index, commands, removals, spoiled>>

\* Second half: fopen "w" empties the file, the lines reach it at fclose.
media_index_put_open(q) ==
    /\ dl[q].pc = "rewrite" /\ index' = <<>>
    /\ dl' = [dl EXCEPT ![q].pc = "flush"]
    /\ UNCHANGED <<files, commands, removals, spoiled>>

media_index_put_close(q) ==
    /\ dl[q].pc = "flush" /\ index' = dl[q].lines
    /\ dl' = [dl EXCEPT ![q] = AfterPut(@)]
    /\ UNCHANGED <<files, commands, removals, spoiled>>

\* "saved: <path>" is printed and the command returns.
Saved(q) ==
    /\ dl[q].pc = "saved"
    /\ dl' = [dl EXCEPT ![q] = Idle]
    /\ UNCHANGED <<files, index, commands, removals, spoiled>>

\* The process is killed, or the machine stops.
DKill(q) ==
    /\ dl[q].pc # "idle"
    /\ dl' = [dl EXCEPT ![q] = Idle]
    /\ UNCHANGED <<files, index, commands, removals, spoiled>>

\* The user deletes a downloaded file that no running command uses.
Remove(p) ==
    /\ removals < MaxRemovals /\ files[p] # Absent
    /\ \A q \in Procs : ~InUse(q, p)
    /\ files' = [files EXCEPT ![p] = Absent] /\ removals' = removals + 1
    /\ UNCHANGED <<index, dl, commands, spoiled>>

DStep(q) ==
    \/ Lookup(q) \/ domain_download_hit(q) \/ download_loop_open(q)
    \/ download_loop(q) \/ domain_download_media_cross_dc(q)
    \/ media_index_put_read(q)
    \/ media_index_put_open(q) \/ media_index_put_close(q) \/ Saved(q)

Removes == \E p \in Paths : Remove(p)
-----------------------------------------------------------------------------

\* media.h: "Download a photo referenced by a MediaInfo into @p out_path".
\* When a command reports a path as saved, the medium asked for is there,
\* unless some download opened the path while the index named it or another
\* process relied on it.  Failed, killed and migrated downloads, a full index
\* and lost index lines are all harmless.
WrongOnlyIfSpoiled ==
    \A q \in Procs :
        dl[q].pc = "saved" => \/ files[dl[q].out] = Whole(dl[q].m)
                             \/ dl[q].out \in spoiled

\* A line of the index names the whole medium, or a file the user deleted,
\* or a path spoiled as above: the next cache hit relies on it.
IndexedIsWhole ==
    \A i \in 1..Len(index) :
        \/ files[index[i][2]] \in {Whole(index[i][1]), Absent}
        \/ index[i][2] \in spoiled

\* Whatever the interleaving of two rewrites, the index stays within its
\* limit and has one line for each medium, so that media_index_get and
\* media_index_put see the same one.
IndexWellFormed ==
    /\ Len(index) <= MEDIA_IDX_MAX_ENTRIES
    /\ \A i, j \in 1..Len(index) : index[i][1] = index[j][1] => i = j

\* What media_index_get answers can be relied on, however many processes put
\* and are killed between two steps of a rewrite.
IndexSound == IndexedIsWhole /\ IndexWellFormed

\* Every download that is not killed returns: the last piece is recognised
\* by its length, also when the size is a multiple of CHUNK_SIZE.
DownloadEnds == \A q \in Procs : (dl[q].pc # "idle") ~> (dl[q].pc = "idle")
=============================================================================
