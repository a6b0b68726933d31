------------------------------- MODULE Upload -------------------------------
(***************************************************************************)
(* File upload (domain/write/upload.c): the parts of a file are saved on   *)
(* the home DC or, after a redirect, all of them once more on another DC   *)
(* under a new file id; messages.sendMedia then refers to the id and the   *)
(* number of parts.  One piece of a file is UPLOAD_CHUNK_SIZE bytes.       *)
(***************************************************************************)
EXTENDS Integers, FiniteSets

CONSTANTS Uploaders,            \* processes that upload
          Sizes,                \* sizes a file may have, in pieces
          UPLOAD_BIG_THRESHOLD, \* from here on saveBigFilePart is used
          UPLOAD_MAX_SIZE,
          MaxShrinks            \* bound on truncations of a file in use

ASSUME FileSizesAssumption == Sizes \subseteq Nat

VARIABLES up,       \* process -> its upload
          parts,    \* server: the parts saved
          sent,     \* server: the media messages accepted
          ids,      \* file ids drawn so far
          shrinks   \* truncations so far

uvars == <<up, parts, sent, ids, shrinks>>

NoUpload == [pc |-> "idle", kind |-> "document", size |-> 0, total |-> 0, big |-> FALSE, id |-> 0,
             dc |-> "home", part |-> 0, pos |-> 0]

UInit ==
    /\ up = [q \in Uploaders |-> NoUpload] /\ parts = {} /\ sent = {}
    /\ ids = 0 /\ shrinks = 0

\* upload_chunk_phase up to the first part: stat, size limits, is_big,
\* total_parts, a random file_id, and the fseek of upload_all_parts.
upload_chunk_phase(q, size, kind) ==
    /\ up[q].pc = "idle" /\ size > 0 /\ size <= UPLOAD_MAX_SIZE
    /\ ids' = ids + 1
    /\ up' = [up EXCEPT ![q] = [NoUpload EXCEPT !.pc = "part", !.size = size,
                !.kind = kind,
                !.total = size, !.big = size >= UPLOAD_BIG_THRESHOLD,
                !.id = ids + 1]]
    /\ UNCHANGED <<parts, sent, shrinks>>

\* The request that save_part sends: the piece under the file position,
\* labelled with the part index.
Request(u) == [id |-> u.id, part |-> u.part, piece |-> u.pos, dc |-> u.dc,
               of |-> IF u.big THEN u.total ELSE 0]

\* upload_all_parts: fread of one piece, save_part answered with boolTrue;
\* the loop runs on the size found by stat, not on the end of the file.
save_part(q) ==
    LET u == up[q]
    IN /\ u.pc = "part" /\ u.pos < u.size
       /\ parts' = parts \cup {Request(u)}
       /\ up' = [up EXCEPT ![q].part = u.part + 1, ![q].pos = u.pos + 1,
                           ![q].pc = IF u.part + 1 < u.total THEN "part"
                                     ELSE "send"]
       /\ UNCHANGED <<sent, ids, shrinks>>

\* The part was saved but the call failed, or nothing was saved: a short
\* fread, an error, a refused session at the other DC.
UploadFails(q, stored) ==
    /\ up[q].pc = "part"
    /\ stored => up[q].pos < up[q].size
    /\ parts' = IF stored THEN parts \cup {Request(up[q])} ELSE parts
    /\ up' = [up EXCEPT ![q] = NoUpload]
    /\ UNCHANGED <<sent, ids, shrinks>>

\* Mutant: the second attempt keeps the file id of the first.
MutantSameId(q) ==
    /\ up[q].pc = "part" /\ up[q].dc = "home" /\ up[q].pos < up[q].size
    /\ up' = [up EXCEPT ![q].dc = "other", ![q].part = 0, ![q].pos = 0]
    /\ UNCHANGED <<parts, sent, ids, shrinks>>

\* NETWORK_MIGRATE or FILE_MIGRATE at any part of the first attempt: a new
\* id, and upload_all_parts from the first part after fseek(0).
Migrate(q) ==
    /\ up[q].pc = "part" /\ up[q].dc = "home" /\ up[q].pos < up[q].size
    /\ ids' = ids + 1
    /\ up' = [up EXCEPT ![q].dc = "other", ![q].id = ids + 1,
                        ![q].part = 0, ![q].pos = 0]
    /\ UNCHANGED <<parts, sent, shrinks>>

\* The InputFile or InputFileBig of an upload.
write_input_file(u) == [id |-> u.id, parts |-> u.part, big |-> u.big]

\* The two sendMedia requests: a document with its file name, a photo.
domain_send_file(u) == [media |-> "document", file |-> write_input_file(u)]
domain_send_photo(u) == [media |-> "photo", file |-> write_input_file(u)]

\* Executed by the server or not, answered or not, the command ends: an
\* upload is not repeated.
send_media_call(q, executed) ==
    /\ up[q].pc = "send"
    /\ sent' = IF ~executed THEN sent
               ELSE sent \cup {IF up[q].kind = "photo"
                              THEN domain_send_photo(up[q])
                              ELSE domain_send_file(up[q])}
    /\ up' = [up EXCEPT ![q] = NoUpload]
    /\ UNCHANGED <<parts, ids, shrinks>>

\* Someone truncates the file while it is being uploaded.
Shrink(q) ==
    /\ up[q].pc = "part" /\ up[q].size > 0 /\ shrinks < MaxShrinks
    /\ up' = [up EXCEPT ![q].size = @ - 1] /\ shrinks' = shrinks + 1
    /\ UNCHANGED <<parts, sent, ids>>

UStep(q) ==
    \/ save_part(q) \/ Migrate(q)
    \/ \E b \in BOOLEAN : UploadFails(q, b) \/ send_media_call(q, b)
-----------------------------------------------------------------------------
\* A media message refers to a file whose parts are all on one DC, complete
\* and in order, under the id and with the count it names: no part of an
\* abandoned first attempt, no part read at the wrong position, and no file
\* that was cut short, whatever the redirect and the failures before it.
SentIsComplete ==
    \A s \in sent :
        LET m == s.file
            mine == {r \in parts : r.id = m.id}
        IN /\ {r.part : r \in mine} = 0..(m.parts - 1) /\ m.parts > 0
           /\ Cardinality(mine) = m.parts
           /\ Cardinality({r.dc : r \in mine}) = 1
           /\ \A r \in mine : /\ r.piece = r.part
                              /\ r.of = IF m.big THEN m.parts ELSE 0
=============================================================================
