---------------------------- MODULE MediaProofs -----------------------------
(***************************************************************************)
(* Proofs about downloads and uploads (Media), for any number of           *)
(* processes: media.idx and the files it names, which the processes        *)
(* rewrite without a lock, and the parts that uploads leave at the server. *)
(***************************************************************************)
EXTENDS Media, FiniteSetTheorems, WellFoundedInduction, TLAPS

(* Uploads: upload_chunk_phase and messages.sendMedia. *)

\* The parts saved under an id, and what they are for an upload that saved
\* n of them.
PartsOf(P, id) == {r \in P : r.id = id}
Label(id, k, dc, of) == [id |-> id, part |-> k, piece |-> k, dc |-> dc, of |-> of]
Labels(id, n, dc, of) == {Label(id, k, dc, of) : k \in 0..(n - 1)}

\* An upload in progress or none.
Upl == [pc : {"idle", "part", "send"}, kind : {"document", "photo"},
           size : Int, total : Nat, big : BOOLEAN, id : Nat,
           dc : {"home", "other"}, part : Nat, pos : Nat]

\* The server holds exactly the parts an upload counted, all at its DC.
Under(u, P, n) ==
    /\ u.id \in 1..n /\ u.pos = u.part /\ u.total > 0
    /\ u.pc = "part" => u.part < u.total
    /\ u.pc = "send" => u.part = u.total
    /\ PartsOf(P, u.id) = Labels(u.id, u.part, u.dc, IF u.big THEN u.total ELSE 0)

\* The server holds exactly the parts an InputFile names.
Finished(m, P, n) ==
    /\ m.id \in 1..n /\ m.parts \in Nat \ {0}
    /\ \E dc \in {"home", "other"} :
         PartsOf(P, m.id) = Labels(m.id, m.parts, dc, IF m.big THEN m.parts ELSE 0)

\* Process q is uploading.
Active(q) == up[q].pc # "idle"

\* The inductive invariant: what was saved under every id, and that no two
\* uploads, running or sent, share an id.
UploadInv ==
    /\ ids \in Nat /\ up \in [Uploaders -> Upl]
    /\ \A r \in parts : r.id \in 1..ids
    /\ \A q \in Uploaders : Active(q) => Under(up[q], parts, ids)
    /\ \A q, r \in Uploaders :
         Active(q) /\ Active(r) /\ up[q].id = up[r].id => q = r
    /\ \A s \in sent : Finished(s.file, parts, ids)
    /\ \A s \in sent, q \in Uploaders : Active(q) => up[q].id # s.file.id

\* Nothing is uploaded at first.
LEMMA UploadStart == UInit => UploadInv
<1> SUFFICES ASSUME UInit PROVE UploadInv
  OBVIOUS
<1>1. NoUpload \in Upl /\ NoUpload.pc = "idle"
  BY DEF NoUpload, Upl
<1>2. up = [q \in Uploaders |-> NoUpload] /\ parts = {} /\ sent = {} /\ ids = 0
  BY DEF UInit
<1> QED BY <1>1, <1>2 DEF UploadInv, Active

\* A step of process q, which leaves it with u: nothing is saved but under its
\* own id, and the id of u is nobody else's.
LEMMA OneUpload ==
  ASSUME UploadInv, NEW q \in Uploaders, NEW u \in Upl, up' = [up EXCEPT ![q] = u],
         ids' \in Nat, ids' >= ids, \A r \in parts' : r.id \in 1..ids',
         \A id : PartsOf(parts', id) = PartsOf(parts, id) \/ (Active(q) /\ id = up[q].id),
         u.pc # "idle" =>
            /\ Under(u, parts', ids')
            /\ \A r \in Uploaders \ {q} : Active(r) => up[r].id # u.id
            /\ \A s \in sent' : s.file.id # u.id,
         \A s \in sent' \ sent :
            /\ Finished(s.file, parts', ids')
            /\ \A r \in Uploaders \ {q} : Active(r) => up[r].id # s.file.id
  PROVE  UploadInv'
<1>1. up'[q] = u /\ up' \in [Uploaders -> Upl] /\ \A r \in Uploaders \ {q} : up'[r] = up[r]
  BY DEF UploadInv
<1>2. ASSUME NEW r \in Uploaders, up'[r].pc # "idle" PROVE Under(up'[r], parts', ids')
  <2>1. CASE r = q
    BY <1>1, <1>2, <2>1
  <2>2. CASE r # q
    <3>1. up'[r] = up[r] /\ Under(up[r], parts, ids)
          /\ PartsOf(parts', up[r].id) = PartsOf(parts, up[r].id)
      BY <1>1, <1>2, <2>2 DEF UploadInv, Active
    <3>2. ids \in Nat
      BY DEF UploadInv
    <3> QED BY <3>1, <3>2 DEF Under
  <2> QED BY <2>1, <2>2
<1>3. ASSUME NEW s \in sent' PROVE Finished(s.file, parts', ids')
  <2>1. CASE s \in sent
    <3>1. Finished(s.file, parts, ids) /\ ids \in Nat
          /\ PartsOf(parts', s.file.id) = PartsOf(parts, s.file.id)
      BY <2>1 DEF UploadInv
    <3> QED BY <3>1 DEF Finished
  <2> QED BY <2>1
<1>4. ASSUME NEW s \in sent', NEW r \in Uploaders, up'[r].pc # "idle" PROVE up'[r].id # s.file.id
  <2>1. CASE r = q
    BY <1>1, <1>4, <2>1
  <2>2. CASE r # q
    BY <1>1, <1>4, <2>2 DEF UploadInv, Active
  <2> QED BY <2>1, <2>2
<1>5. ASSUME NEW r \in Uploaders, NEW t \in Uploaders, up'[r].pc # "idle", up'[t].pc # "idle",
             up'[r].id = up'[t].id
      PROVE  r = t
  BY <1>1, <1>5 DEF UploadInv, Active
<1> QED BY <1>1, <1>2, <1>3, <1>4, <1>5 DEF UploadInv, Active

\* The upload ends, sent or given up.
LEMMA UploadEnds ==
  ASSUME UploadInv, NEW q \in Uploaders, up' = [up EXCEPT ![q] = NoUpload],
         UNCHANGED <<parts, ids>>,
         \A s \in sent' \ sent :
            /\ Finished(s.file, parts, ids)
            /\ \A r \in Uploaders \ {q} : Active(r) => up[r].id # s.file.id
  PROVE  UploadInv'
<1>1. NoUpload \in Upl /\ NoUpload.pc = "idle"
  BY DEF NoUpload, Upl
<1>2. ids' \in Nat /\ ids' >= ids /\ \A r \in parts' : r.id \in 1..ids'
  BY DEF UploadInv
<1>3. \A id : PartsOf(parts', id) = PartsOf(parts, id)
  OBVIOUS
<1>4. \A s \in sent' \ sent :
            /\ Finished(s.file, parts', ids')
            /\ \A r \in Uploaders \ {q} : Active(r) => up[r].id # s.file.id
  OBVIOUS
<1> QED BY <1>1, <1>2, <1>3, <1>4, OneUpload, Zenon

\* One more part under the id of an upload.
LEMMA OnePart ==
  ASSUME UploadInv, NEW q \in Uploaders, up[q].pc = "part",
         parts' = parts \cup {Request(up[q])}
  PROVE  /\ \A r \in parts' : r.id \in 1..ids
         /\ \A id : id # up[q].id => PartsOf(parts', id) = PartsOf(parts, id)
         /\ PartsOf(parts', up[q].id) = Labels(up[q].id, up[q].part + 1, up[q].dc,
                                           IF up[q].big THEN up[q].total ELSE 0)
<1> DEFINE u == up[q]
           of == IF u.big THEN u.total ELSE 0
<1>1. Under(u, parts, ids) /\ u \in Upl
  BY DEF UploadInv, Active
<1>2. Request(u) = Label(u.id, u.part, u.dc, of) /\ Request(u).id = u.id
  BY <1>1 DEF Request, Label, Under
<1>3. \A r \in parts' : r.id \in 1..ids
  BY <1>1, <1>2 DEF UploadInv, Under
<1>4. \A id : id # u.id => PartsOf(parts', id) = PartsOf(parts, id)
  BY <1>2 DEF PartsOf
<1>5. PartsOf(parts', u.id) = PartsOf(parts, u.id) \cup {Request(u)}
  BY <1>2 DEF PartsOf
<1>6. Labels(u.id, u.part + 1, u.dc, of) = Labels(u.id, u.part, u.dc, of) \cup {Label(u.id, u.part, u.dc, of)}
  <2>1. u.part \in Nat
    BY <1>1 DEF Upl
  <2>2. 0..((u.part + 1) - 1) = 0..(u.part - 1) \cup {u.part}
    BY <2>1
  <2> HIDE DEF of, u
  <2> QED BY <2>2 DEF Labels
<1>7. PartsOf(parts, u.id) = Labels(u.id, u.part, u.dc, of)
  BY <1>1 DEF Under
<1> QED BY <1>2, <1>3, <1>4, <1>5, <1>6, <1>7, Zenon

\* The upload after save_part.
Edited(x, n, k, c) == [x EXCEPT !.part = n, !.pos = k, !.pc = c]

\* save_part saves the next piece under the next number.
LEMMA SavePartKeeps == ASSUME UploadInv, NEW q \in Uploaders, save_part(q) PROVE UploadInv'
<1> DEFINE u == up[q]
           n == u.part + 1
           k == u.pos + 1
           c == IF u.part + 1 < u.total THEN "part" ELSE "send"
           v == Edited(u, n, k, c)
<1>1. /\ u.pc = "part" /\ parts' = parts \cup {Request(u)} /\ UNCHANGED <<sent, ids>>
      /\ up' = [up EXCEPT ![q] = v]
  BY DEF save_part, UploadInv, Upl, Edited
<1>2. Under(u, parts, ids) /\ u \in Upl /\ ids \in Nat
  BY <1>1 DEF UploadInv, Active
<1>3. /\ v \in Upl /\ v.id = u.id /\ v.part = u.part + 1 /\ v.pos = u.pos + 1
      /\ v.total = u.total
      /\ v.big = u.big /\ v.dc = u.dc
      /\ v.pc = IF u.part + 1 < u.total THEN "part" ELSE "send"
  <2>1. n \in Nat /\ k \in Nat /\ c \in {"part", "send"}
    BY <1>2 DEF Upl
  <2>2. /\ v \in Upl /\ v.id = u.id /\ v.part = n /\ v.pos = k /\ v.total = u.total
        /\ v.big = u.big /\ v.dc = u.dc /\ v.pc = c
    <3> HIDE DEF n, k, c, u
    <3>1. /\ v.id = u.id /\ v.part = n /\ v.pos = k /\ v.total = u.total
          /\ v.big = u.big /\ v.dc = u.dc /\ v.pc = c
      BY <1>2 DEF Upl, Edited
    <3>2. v \in Upl
      BY <1>2, <2>1, Zenon DEF Upl, Edited
    <3> QED BY <3>1, <3>2
  <2> QED BY <2>2
<1> HIDE DEF v
<1>4. PartsOf(parts', v.id) = Labels(v.id, v.part, v.dc, IF v.big THEN v.total ELSE 0)
  BY <1>1, <1>3, OnePart, Zenon
<1>5. /\ v.part <= v.total /\ v.total > 0 /\ v.id \in 1..ids /\ v.part \in Nat
      /\ v.total \in Nat
      /\ v.pos = v.part
  BY <1>1, <1>2, <1>3 DEF Under, Upl
<1>6. Under(v, parts', ids')
  BY <1>1, <1>3, <1>4, <1>5 DEF Under
<1>7. /\ \A r \in Uploaders \ {q} : Active(r) => up[r].id # v.id
      /\ \A s \in sent' : s.file.id # v.id
  BY <1>1, <1>3 DEF UploadInv, Active
<1>8. \A r \in parts' : r.id \in 1..ids'
  BY <1>1, OnePart
<1>9. \A id : PartsOf(parts', id) = PartsOf(parts, id) \/ (Active(q) /\ id = up[q].id)
  BY <1>1, OnePart, Zenon DEF Active
<1>10. ids' \in Nat /\ ids' >= ids /\ sent' \ sent = {}
  BY <1>1, <1>2
<1>11. u.pc # "idle" => up[q].id = v.id
  BY <1>3
<1> HIDE DEF u
<1> QED BY <1>1, <1>3, <1>6, <1>7, <1>8, <1>9, <1>10, OneUpload, Zenon

\* A part fails, also one that reached the server before it failed.
LEMMA FailKeeps ==
  ASSUME UploadInv, NEW q \in Uploaders, NEW b \in BOOLEAN, UploadFails(q, b) PROVE UploadInv'
<1>1. /\ up[q].pc = "part" /\ up' = [up EXCEPT ![q] = NoUpload] /\ UNCHANGED <<sent, ids>>
      /\ parts' = IF b THEN parts \cup {Request(up[q])} ELSE parts
  BY DEF UploadFails
<1>2. CASE ~b
  BY <1>1, <1>2, UploadEnds, Zenon
<1>3. CASE b
  <2>1. NoUpload \in Upl /\ NoUpload.pc = "idle" /\ ids' \in Nat /\ ids' >= ids
    BY <1>1 DEF NoUpload, Upl, UploadInv
  <2>2. parts' = parts \cup {Request(up[q])}
    BY <1>1, <1>3
  <2>3. \A r \in parts' : r.id \in 1..ids'
    BY <1>1, <2>2, OnePart
  <2>4. \A id : PartsOf(parts', id) = PartsOf(parts, id) \/ (Active(q) /\ id = up[q].id)
    BY <1>1, <2>2, OnePart, Zenon DEF Active
  <2> QED BY <1>1, <2>1, <2>3, <2>4, OneUpload, Zenon
<1> QED BY <1>2, <1>3

\* An upload without parts under a new id.
LEMMA FreshUpload ==
  ASSUME UploadInv, NEW q \in Uploaders, NEW u \in Upl, up' = [up EXCEPT ![q] = u],
         u.pc = "part", u.id = ids + 1, u.part = 0, u.pos = 0, u.total > 0,
         ids' = ids + 1, UNCHANGED <<parts, sent>>
  PROVE  UploadInv'
<1>1. ids \in Nat /\ ids' \in Nat /\ ids' >= ids /\ \A r \in parts' : r.id \in 1..ids'
  BY DEF UploadInv
<1>2. \A id : PartsOf(parts', id) = PartsOf(parts, id)
  OBVIOUS
<1>3. Under(u, parts', ids')
  <2>1. PartsOf(parts', u.id) = {}
    BY <1>1 DEF PartsOf, UploadInv
  <2>2. Labels(u.id, u.part, u.dc, IF u.big THEN u.total ELSE 0) = {}
    BY DEF Labels
  <2>3. u.id \in 1..ids' /\ u.part < u.total
    BY <1>1 DEF Upl
  <2> QED BY <2>1, <2>2, <2>3, Zenon DEF Under
<1>4. /\ \A r \in Uploaders \ {q} : Active(r) => up[r].id # u.id
      /\ \A s \in sent' : s.file.id # u.id
  BY <1>1 DEF UploadInv, Under, Finished
<1>5. sent' \ sent = {}
  OBVIOUS
<1> QED BY <1>1, <1>2, <1>3, <1>4, <1>5, OneUpload, Zenon

\* upload_chunk_phase draws an id and starts at part 0.
LEMMA BeginKeeps ==
  ASSUME UploadInv, NEW q \in Uploaders, NEW size \in Sizes,
         NEW kind \in {"document", "photo"}, upload_chunk_phase(q, size, kind)
  PROVE  UploadInv'
<1> DEFINE u == [NoUpload EXCEPT !.pc = "part", !.size = size, !.kind = kind,
                   !.total = size, !.big = size >= UPLOAD_BIG_THRESHOLD, !.id = ids + 1]
<1>1. size \in Nat /\ size > 0 /\ ids \in Nat /\ (size >= UPLOAD_BIG_THRESHOLD) \in BOOLEAN
  BY FileSizesAssumption DEF upload_chunk_phase, UploadInv
<1>2. up' = [up EXCEPT ![q] = u] /\ ids' = ids + 1 /\ UNCHANGED <<parts, sent>>
  BY DEF upload_chunk_phase
<1>3. u.pc = "part" /\ u.id = ids + 1 /\ u.part = 0 /\ u.pos = 0 /\ u.total = size
  BY DEF NoUpload
<1>4. u \in Upl
  <2> DEFINE b == size >= UPLOAD_BIG_THRESHOLD
             n == ids + 1
             x == [NoUpload EXCEPT !.pc = "part", !.size = size, !.kind = kind]
             y == [x EXCEPT !.total = size]
             z == [y EXCEPT !.big = b]
  <2>1. NoUpload \in Upl /\ b \in BOOLEAN /\ n \in Nat /\ size \in Int
    BY <1>1 DEF NoUpload, Upl
  <2>2. u = [z EXCEPT !.id = n]
    OBVIOUS
  <2> HIDE DEF u, b, n
  <2>3. x \in Upl
    BY <2>1, Zenon DEF Upl
  <2> HIDE DEF x
  <2>4. y \in Upl
    BY <2>3, <1>1 DEF Upl
  <2> HIDE DEF y
  <2>5. z \in Upl
    BY <2>1, <2>4 DEF Upl
  <2> HIDE DEF z
  <2> QED BY <2>1, <2>2, <2>5 DEF Upl
<1> HIDE DEF u
<1> QED BY <1>1, <1>2, <1>3, <1>4, FreshUpload, Zenon

\* FILE_MIGRATE: all parts are uploaded again at the other DC.
LEMMA MigrateKeeps == ASSUME UploadInv, NEW q \in Uploaders, Migrate(q) PROVE UploadInv'
<1> DEFINE u == [up[q] EXCEPT !.dc = "other", !.id = ids + 1, !.part = 0, !.pos = 0]
<1>1. up[q] \in Upl /\ up[q].pc = "part" /\ up[q].total > 0 /\ ids \in Nat
  BY DEF Migrate, UploadInv, Active, Under
<1>2. up' = [up EXCEPT ![q] = u] /\ ids' = ids + 1 /\ UNCHANGED <<parts, sent>>
  BY <1>1, Zenon DEF Migrate, UploadInv, Upl
<1>3. u.pc = "part" /\ u.id = ids + 1 /\ u.part = 0 /\ u.pos = 0 /\ u.total = up[q].total
  BY <1>1 DEF Upl
<1>4. u \in Upl
  <2> DEFINE v == up[q]
             n == ids + 1
  <2>1. v \in Upl /\ n \in Nat
    BY <1>1
  <2> HIDE DEF v, n
  <2>2. [v EXCEPT !.dc = "other", !.id = n] \in Upl
    BY <2>1, Zenon DEF Upl
  <2>3. \A x \in Upl : [x EXCEPT !.part = 0, !.pos = 0] \in Upl
    BY Zenon DEF Upl
  <2>4. [v EXCEPT !.dc = "other", !.id = n, !.part = 0, !.pos = 0] \in Upl
    BY <2>2, <2>3, Zenon
  <2> QED BY <2>4 DEF v, n
<1> HIDE DEF u
<1> QED BY <1>1, <1>2, <1>3, <1>4, FreshUpload, Zenon

\* A file that shrinks under the upload.
LEMMA ShrinkKeeps == ASSUME UploadInv, NEW q \in Uploaders, Shrink(q) PROVE UploadInv'
<1> DEFINE u == [up[q] EXCEPT !.size = @ - 1]
<1>1. up[q] \in Upl /\ up[q].pc = "part" /\ Under(up[q], parts, ids) /\ ids \in Nat
  BY DEF Shrink, UploadInv, Active
<1>2. up' = [up EXCEPT ![q] = u] /\ UNCHANGED <<parts, sent, ids>>
  BY <1>1 DEF Shrink, UploadInv, Upl
<1>3. /\ u.pc = "part" /\ u.id = up[q].id /\ u.part = up[q].part /\ u.pos = up[q].pos
      /\ u.total = up[q].total /\ u.dc = up[q].dc /\ u.big = up[q].big
  BY <1>1 DEF Upl
<1>4. u \in Upl
  BY <1>1 DEF Upl
<1> HIDE DEF u
<1>5. Under(u, parts', ids')
  BY <1>1, <1>2, <1>3 DEF Under
<1>6. /\ \A r \in Uploaders \ {q} : Active(r) => up[r].id # u.id
      /\ \A s \in sent' : s.file.id # u.id
  BY <1>1, <1>2, <1>3 DEF UploadInv, Active
<1>7. ids' \in Nat /\ ids' >= ids /\ (\A r \in parts' : r.id \in 1..ids') /\ sent' \ sent = {}
  BY <1>1, <1>2 DEF UploadInv
<1> QED BY <1>2, <1>4, <1>5, <1>6, <1>7, OneUpload, Zenon

\* messages.sendMedia names the parts that were saved.
LEMMA SendKeeps ==
  ASSUME UploadInv, NEW q \in Uploaders, NEW b \in BOOLEAN, send_media_call(q, b) PROVE UploadInv'
<1> DEFINE m == write_input_file(up[q])
<1>1. up[q] \in Upl /\ up[q].pc = "send" /\ Under(up[q], parts, ids)
  BY DEF send_media_call, UploadInv, Active
<1>2. up' = [up EXCEPT ![q] = NoUpload] /\ UNCHANGED <<parts, ids>>
  BY DEF send_media_call
<1>3. \A s \in sent' \ sent : s.file = m
  BY DEF send_media_call, domain_send_photo, domain_send_file
<1>4. m.id = up[q].id /\ m.parts = up[q].part /\ m.big = up[q].big
  BY DEF write_input_file
<1> HIDE DEF m
<1>5. Finished(m, parts, ids)
  <2>1. up[q].dc \in {"home", "other"} /\ up[q].part \in Nat \ {0}
        /\ up[q].part = up[q].total
    BY <1>1 DEF Upl, Under
  <2>2. PartsOf(parts, m.id) = Labels(m.id, m.parts, up[q].dc, IF m.big THEN m.parts ELSE 0)
    BY <1>1, <1>4, <2>1 DEF Under
  <2> QED BY <1>1, <1>4, <2>1, <2>2 DEF Finished, Under
<1>6. \A r \in Uploaders \ {q} : Active(r) => up[r].id # m.id
  BY <1>1, <1>4 DEF UploadInv, Active
<1> QED BY <1>2, <1>3, <1>5, <1>6, UploadEnds, Zenon

\* Every step keeps the invariant.
LEMMA UploadNext == ASSUME UploadInv, [MNext]_mvars PROVE UploadInv'
<1>1. CASE UNCHANGED uvars
  BY <1>1 DEF UploadInv, uvars, Active
<1>2. ASSUME NEW q \in Uploaders, UStep(q) \/ Shrink(q) PROVE UploadInv'
  BY <1>2, SavePartKeeps, MigrateKeeps, FailKeeps, SendKeeps, ShrinkKeeps DEF UStep
<1>3. ASSUME NEW q \in Procs, Command(q) PROVE UploadInv'
  BY <1>1, <1>3, BeginKeeps DEF Command
<1> QED BY <1>1, <1>2, <1>3 DEF MNext, mvars

\* Whatever the files and failures: a message that was sent names an upload
\* whose parts 0..n-1 are all saved, once, at one DC, with the piece of the
\* same number in each.
THEOREM UploadsAreComplete == MSpec => []SentIsComplete
<1>1. UploadInv => SentIsComplete
  <2> SUFFICES ASSUME UploadInv, NEW s \in sent
               PROVE  LET m == s.file
                          mine == {r \in parts : r.id = m.id}
                      IN /\ {r.part : r \in mine} = 0..(m.parts - 1) /\ m.parts > 0
                         /\ Cardinality(mine) = m.parts
                         /\ Cardinality({r.dc : r \in mine}) = 1
                         /\ \A r \in mine : /\ r.piece = r.part
                                            /\ r.of = IF m.big THEN m.parts ELSE 0
    BY Zenon DEF SentIsComplete
  <2> DEFINE m == s.file
             mine == {r \in parts : r.id = m.id}
             of == IF m.big THEN m.parts ELSE 0
             n == m.parts
             I == 0..(n - 1)
  <2>1. PICK dc \in {"home", "other"} : mine = Labels(m.id, n, dc, of)
    BY DEF UploadInv, Finished, PartsOf
  <2>2. n \in Nat \ {0}
    BY DEF UploadInv, Finished
  <2> DEFINE f == [k \in I |-> Label(m.id, k, dc, of)]
  <2>3. /\ \A k \in I : f[k].part = k /\ f[k].piece = k /\ f[k].dc = dc /\ f[k].of = of
        /\ mine = {f[k] : k \in I}
    BY <2>1, Zenon DEF Labels, Label
  <2>4. f \in Bijection(I, mine)
    <3> HIDE DEF mine, of, m
    <3>1. f \in [I -> mine]
      BY <2>3
    <3>2. \A j, k \in I : f[j] = f[k] => j = k
      BY <2>3
    <3>3. \A r \in mine : \E k \in I : f[k] = r
      BY <2>3
    <3> HIDE DEF f, I
    <3> QED BY <3>1, <3>2, <3>3
            DEF Bijection, Injection, Surjection, IsInjective
  <2>5. Cardinality(mine) = n
    <3>1. 0 \in Int /\ n - 1 \in Int /\ ~(0 > n - 1) /\ (n - 1) - 0 + 1 = n
      BY <2>2
    <3> HIDE DEF n
    <3>2. IsFiniteSet(I) /\ Cardinality(I) = n
      BY <3>1, FS_Interval
    <3> HIDE DEF I, mine, f
    <3> QED BY <2>4, <3>2, FS_Bijection DEF ExistsBijection
  <2>6. {r.part : r \in mine} = I /\ {r.dc : r \in mine} = {dc}
    <3>1. 0 \in I
      BY <2>2
    <3> HIDE DEF I, mine, f, m, of
    <3> QED BY <2>3, <3>1
  <2>7. Cardinality({r.dc : r \in mine}) = 1
    BY <2>6, FS_Singleton, Zenon
  <2>8. \A r \in mine : r.piece = r.part /\ r.of = of
    <3> HIDE DEF I, mine, f, m, of
    <3> QED BY <2>3
  <2> QED BY <2>2, <2>5, <2>6, <2>7, <2>8
<1> QED BY <1>1, UploadStart, UploadNext, PTL DEF MSpec, MInit

-----------------------------------------------------------------------------
(* Downloads: download_loop and media_index_put. *)

\* The fields of a download, and the steps at which it has its file.
DlFields == {"pc", "m", "out", "dc", "off", "cached", "put", "lines"}
Done == {"put", "rewrite", "flush", "saved"}

\* The first k pieces of m.
FirstPieces(m, k) == [i \in 1..k |-> <<m, i>>]

\* Lines l name path p.
Named(l, p) == \E i \in 1..Len(l) : l[i][2] = p

\* p holds all of m, or was deleted or spoiled.
Backed(p, m, F, S) == p \in S \/ F[p] = Whole(m) \/ F[p] = Absent

\* The lines fit the index and have one line for a medium.
OneLineEach(l) ==
    /\ l \in Seq(Media \X Paths) /\ Len(l) <= MEDIA_IDX_MAX_ENTRIES
    /\ \A i, j \in 1..Len(l) : l[i][1] = l[j][1] => i = j

\* Every line is backed by its file.
Sound(l, F, S) ==
    OneLineEach(l) /\ \A i \in 1..Len(l) : Backed(l[i][2], l[i][1], F, S)

\* What a download rests on at each step, in the files F with S spoiled.
Rests(d, F, S) ==
    /\ DOMAIN d = DlFields
    /\ d.pc # "idle" => d.m \in Media /\ d.out \in Paths
    /\ Sound(d.lines, F, S)
    /\ d.lines # <<>> => d.pc \in {"rewrite", "flush"}
    /\ d.pc = "open" /\ d.cached # NoPath => d.cached \in Paths /\ Backed(d.cached, d.m, F, S)
    /\ d.pc \in Done => d.out \in S \/ F[d.out] = Whole(d.m)
    /\ d.pc = "chunk" => /\ d.off \in 0..Pieces[d.m]
                         /\ d.out \in S \/ F[d.out] = FirstPieces(d.m, d.off)

\* The download relies on path p.
Uses(d, p) ==
    \/ d.pc \in {"chunk"} \cup Done /\ d.out = p
    \/ d.pc = "open" /\ d.cached = p
    \/ Named(d.lines, p)

\* A file being written is nobody else's, unless it is spoiled.
Unshared(q) ==
    dl[q].pc = "chunk" /\ dl[q].out \notin spoiled =>
      /\ ~Named(index, dl[q].out)
      /\ \A r \in Procs \ {q} : ~Uses(dl[r], dl[q].out)

\* The inductive invariant: the index and every set of lines on its way into
\* it are sound, and every download rests on what it should.
DownloadInv ==
    /\ DOMAIN files = Paths /\ DOMAIN dl = Procs
    /\ Sound(index, files, spoiled)
    /\ \A q \in Procs : Rests(dl[q], files, spoiled) /\ Unshared(q)

\* The index, or the lines a process is about to write, after path p has
\* changed: p is spoiled, or not among them.
LEMMA SoundStays ==
  ASSUME NEW l, NEW F, NEW G, NEW S, NEW T, Sound(l, F, S), S \subseteq T, NEW p,
         \A x \in Paths \ {p} : G[x] = F[x], p \in T \/ ~Named(l, p) \/ G[p] = F[p]
  PROVE  Sound(l, G, T)
<1> SUFFICES ASSUME NEW i \in 1..Len(l) PROVE Backed(l[i][2], l[i][1], G, T)
  BY DEF Sound
<1>1. l \in Seq(Media \X Paths) /\ Backed(l[i][2], l[i][1], F, S)
  BY DEF Sound, OneLineEach
<1>2. l[i] \in Media \X Paths
  BY <1>1
<1>3. l[i][2] \in Paths
  BY <1>2
<1>4. CASE l[i][2] = p
  BY <1>1, <1>4 DEF Backed, Named
<1>5. CASE l[i][2] # p
  BY <1>1, <1>3, <1>5 DEF Backed
<1> QED BY <1>4, <1>5

\* The same for what another process rests on.
LEMMA RestsStays ==
  ASSUME NEW d, NEW F, NEW G, NEW S, NEW T, Rests(d, F, S), S \subseteq T, NEW p,
         \A x \in Paths \ {p} : G[x] = F[x], p \in T \/ ~Uses(d, p) \/ G[p] = F[p]
  PROVE  Rests(d, G, T)
<1>1. Sound(d.lines, G, T)
  <2>1. p \in T \/ ~Named(d.lines, p) \/ G[p] = F[p]
    BY DEF Uses
  <2> QED BY <2>1, SoundStays DEF Rests
<1>2. d.pc = "open" /\ d.cached # NoPath => d.cached \in Paths /\ Backed(d.cached, d.m, G, T)
  BY DEF Rests, Backed, Uses
<1>3. d.pc \in Done => d.out \in T \/ G[d.out] = Whole(d.m)
  BY DEF Rests, Uses, Done
<1>4. d.pc = "chunk" => /\ d.off \in 0..Pieces[d.m]
                        /\ d.out \in T \/ G[d.out] = FirstPieces(d.m, d.off)
  BY DEF Rests, Uses
<1> QED BY <1>1, <1>2, <1>3, <1>4 DEF Rests

\* A step of process q, which leaves it with d, writes at most the path p and
\* at most the index.
LEMMA OneDownload ==
  ASSUME DownloadInv, NEW q \in Procs, NEW d, dl' = [dl EXCEPT ![q] = d],
         DOMAIN files' = Paths, spoiled \subseteq spoiled', NEW p,
         \A x \in Paths \ {p} : files'[x] = files[x],
         \/ p \in spoiled' \/ files'[p] = files[p]
         \/ (~Named(index, p) /\ \A r \in Procs \ {q} : ~Uses(dl[r], p)),
         index' # index => Sound(index', files, spoiled) /\ files' = files,
         Rests(d, files', spoiled'),
         \A r \in Procs \ {q} : dl[r].pc = "chunk" /\ dl[r].out \notin spoiled' =>
            ~Uses(d, dl[r].out) /\ ~Named(index', dl[r].out),
         d.pc = "chunk" /\ d.out \notin spoiled' =>
            /\ ~Named(index', d.out)
            /\ \A r \in Procs \ {q} : ~Uses(dl[r], d.out)
  PROVE  DownloadInv'
<1>1. DOMAIN dl' = Procs /\ dl'[q] = d /\ \A r \in Procs \ {q} : dl'[r] = dl[r]
  BY DEF DownloadInv
<1>2. Sound(index', files', spoiled')
  <2>1. CASE index' = index
    <3>1. Sound(index, files, spoiled)
      BY DEF DownloadInv
    <3>2. p \in spoiled' \/ ~Named(index, p) \/ files'[p] = files[p]
      OBVIOUS
    <3>3. Sound(index, files', spoiled')
      BY <3>1, <3>2, SoundStays
    <3> QED BY <2>1, <3>3
  <2>2. CASE index' # index
    <3>1. Sound(index', files, spoiled) /\ files' = files
      BY <2>2
    <3>2. \A l : Sound(l, files, spoiled) => Sound(l, files', spoiled')
      BY <3>1 DEF Sound, Backed
    <3> QED BY <3>1, <3>2
  <2> QED BY <2>1, <2>2
<1>3. ASSUME NEW r \in Procs PROVE Rests(dl'[r], files', spoiled')
  <2>1. CASE r = q
    BY <1>1, <2>1
  <2>2. CASE r # q
    <3>1. dl'[r] = dl[r] /\ Rests(dl[r], files, spoiled)
      BY <1>1, <2>2 DEF DownloadInv
    <3>2. p \in spoiled' \/ ~Uses(dl[r], p) \/ files'[p] = files[p]
      BY <2>2
    <3>3. Rests(dl[r], files', spoiled')
      BY <3>1, <3>2, RestsStays
    <3> QED BY <3>1, <3>3
  <2> QED BY <2>1, <2>2
<1>4. ASSUME NEW r \in Procs PROVE Unshared(r)'
  <2> SUFFICES ASSUME dl'[r].pc = "chunk", dl'[r].out \notin spoiled'
               PROVE  /\ ~Named(index', dl'[r].out)
                      /\ \A t \in Procs \ {r} : ~Uses(dl'[t], dl'[r].out)
    BY DEF Unshared
  <2>1. CASE r = q
    BY <1>1, <2>1, SMTT(20)
  <2>2. CASE r # q
    <3>1. dl'[r] = dl[r] /\ dl[r].out \notin spoiled /\ Unshared(r)
      BY <1>1, <2>2 DEF DownloadInv
    <3>2. ~Uses(d, dl[r].out) /\ ~Named(index', dl[r].out)
      BY <2>2, <3>1
    <3>3. \A t \in Procs \ {r} : ~Uses(dl[t], dl[r].out)
      BY <3>1 DEF Unshared
    <3> QED BY <1>1, <3>1, <3>2, <3>3, SMTT(20)
  <2> QED BY <2>1, <2>2
<1> QED BY <1>1, <1>2, <1>3, <1>4 DEF DownloadInv

\* An index without lines is sound.
LEMMA NoLines == \A F, S : Sound(<<>>, F, S)
BY EarlierAssumption DEF Sound, OneLineEach

\* A step that changes only what process q holds.
LEMMA LocalDownload ==
  ASSUME DownloadInv, NEW q \in Procs, NEW d, dl' = [dl EXCEPT ![q] = d],
         UNCHANGED <<files, index, spoiled>>, Rests(d, files, spoiled), d.pc # "chunk",
         \A r \in Procs \ {q} : dl[r].pc = "chunk" /\ dl[r].out \notin spoiled =>
            ~Uses(d, dl[r].out)
  PROVE  DownloadInv'
<1>1. DOMAIN files' = Paths /\ spoiled \subseteq spoiled'
      /\ Rests(d, files', spoiled')
  BY DEF DownloadInv
<1>2. \A r \in Procs \ {q} : dl[r].pc = "chunk" /\ dl[r].out \notin spoiled' =>
            ~Uses(d, dl[r].out) /\ ~Named(index', dl[r].out)
  BY DEF DownloadInv, Unshared
<1>3. \A x \in Paths \ {NoPath} : files'[x] = files[x]
  OBVIOUS
<1>4. index' = index /\ files'[NoPath] = files[NoPath]
  OBVIOUS
<1> QED BY <1>1, <1>2, <1>3, <1>4, OneDownload, Zenon

\* The command ends: saved, failed or killed.
LEMMA IdleKeeps ==
  ASSUME DownloadInv, NEW q \in Procs, dl' = [dl EXCEPT ![q] = Idle],
         UNCHANGED <<files, index, spoiled>>
  PROVE  DownloadInv'
<1>1. Rests(Idle, files, spoiled)
  BY NoLines DEF Rests, Idle, DlFields, Done
<1>2. Idle.pc # "chunk" /\ \A p : ~Uses(Idle, p)
  BY DEF Idle, Uses, Named, Done
<1> QED BY <1>1, <1>2, LocalDownload, Zenon

\* cmd_download starts with nothing.
LEMMA CommandKeeps ==
  ASSUME DownloadInv, NEW q \in Procs, NEW m \in Media, NEW out \in Paths,
         cmd_download(q, m, out)
  PROVE  DownloadInv'
<1> DEFINE d == [Idle EXCEPT !.pc = "lookup", !.m = m, !.out = out]
<1>1. dl' = [dl EXCEPT ![q] = d] /\ UNCHANGED <<files, index, spoiled>>
  BY DEF cmd_download
<1>2. DOMAIN d = DlFields /\ d.pc = "lookup" /\ d.m = m /\ d.out = out /\ d.lines = <<>>
  BY DEF Idle, DlFields
<1> HIDE DEF d
<1>3. Rests(d, files, spoiled)
  BY <1>2, NoLines DEF Rests, Done
<1>4. \A p : ~Uses(d, p)
  BY <1>2 DEF Uses, Named, Done
<1> QED BY <1>1, <1>2, <1>3, <1>4, LocalDownload, Zenon

\* A set of numbers has a least element.
LEMMA Least ==
  ASSUME NEW S, S \subseteq Nat, S # {}
  PROVE  \E i \in S : \A j \in S : i <= j
<1> DEFINE R == OpToRel(<, Nat)
<1>1. IsWellFoundedOn(R, Nat)
  BY NatLessThanWellFounded, Zenon
<1>2. \E x \in S : \A y \in S : ~(<<y, x>> \in R)
  <2> HIDE DEF R
  <2> QED BY <1>1, WFMin, Zenon
<1>3. \A x, y \in Nat : y < x => <<y, x>> \in R
  BY DEF OpToRel
<1>4. PICK x \in S : \A y \in S : ~(<<y, x>> \in R)
  BY <1>2, Zenon
<1>5. \A y \in S : ~(y < x)
  <2> HIDE DEF R
  <2> QED BY <1>3, <1>4, Zenon
<1>6. \A y \in S : x <= y
  BY <1>5, SMT
<1> QED BY <1>6

\* media_index_get answers with a line of the medium.
LEMMA GetLine ==
  ASSUME NEW l, OneLineEach(l), NEW m, media_index_get(l, m) # NoPath
  PROVE  \E i \in 1..Len(l) : l[i][1] = m /\ media_index_get(l, m) = l[i][2]
<1> DEFINE mine == {i \in 1..Len(l) : l[i][1] = m}
           k == CHOOSE i \in mine : \A j \in mine : i <= j
<1>1. mine # {} /\ media_index_get(l, m) = l[k][2]
  BY SMTT(20) DEF media_index_get
<1>2. \E i \in mine : \A j \in mine : i <= j
  <2>1. mine \subseteq Nat
    BY DEF OneLineEach
  <2> HIDE DEF mine
  <2> QED BY <1>1, <2>1, Least, Zenon
<1>3. k \in mine
  <2> HIDE DEF mine
  <2> QED BY <1>2
<1> QED BY <1>1, <1>3, Zenon

\* The cached path is backed when media_index_get answers with it.
LEMMA LookupKeeps == ASSUME DownloadInv, NEW q \in Procs, Lookup(q) PROVE DownloadInv'
<1> DEFINE c == media_index_get(index, dl[q].m)
           d == [dl[q] EXCEPT !.pc = "open", !.cached = c]
<1>1. Rests(dl[q], files, spoiled) /\ dl[q].pc = "lookup"
      /\ UNCHANGED <<files, index, spoiled>>
  BY DEF DownloadInv, Lookup
<1>2. dl' = [dl EXCEPT ![q] = d]
  BY Zenon DEF Lookup
<1>3. DOMAIN dl[q] = DlFields /\ dl[q].m \in Media /\ dl[q].out \in Paths
      /\ dl[q].lines = <<>>
  BY <1>1 DEF Rests
<1>4. DOMAIN d = DlFields /\ d.pc = "open" /\ d.cached = c /\ d.m = dl[q].m
      /\ d.out = dl[q].out /\ d.lines = <<>>
  BY <1>3 DEF DlFields
<1>5. c # NoPath => /\ c \in Paths /\ Named(index, c)
                    /\ Backed(c, dl[q].m, files, spoiled)
  <2> SUFFICES ASSUME c # NoPath PROVE /\ c \in Paths /\ Named(index, c)
                                       /\ Backed(c, dl[q].m, files, spoiled)
    OBVIOUS
  <2>1. Sound(index, files, spoiled) /\ OneLineEach(index)
    BY DEF DownloadInv, Sound
  <2>2. PICK i \in 1..Len(index) : index[i][1] = dl[q].m /\ c = index[i][2]
    BY <2>1, GetLine
  <2> HIDE DEF c
  <2>3. index[i] \in Media \X Paths
    BY <2>1 DEF OneLineEach
  <2> QED BY <2>1, <2>2, <2>3 DEF Sound, Named
<1> HIDE DEF c, d
<1>6. Rests(d, files, spoiled)
  BY <1>3, <1>4, <1>5, NoLines DEF Rests, Done
<1>7. \A r \in Procs \ {q} : dl[r].pc = "chunk" /\ dl[r].out \notin spoiled => ~Uses(d, dl[r].out)
  <2> SUFFICES ASSUME NEW r \in Procs \ {q}, dl[r].pc = "chunk", dl[r].out \notin spoiled
               PROVE  ~Uses(d, dl[r].out)
    OBVIOUS
  <2>1. ~Named(index, dl[r].out) /\ dl[r].out \in Paths
    BY DEF DownloadInv, Unshared, Rests
  <2> QED BY <1>4, <1>5, <2>1, NoPathAssumption DEF Uses, Done, Named
<1> QED BY <1>2, <1>1, <1>4, <1>6, <1>7, LocalDownload, Zenon

\* FILE_MIGRATE: the pieces so far are given up and the lookup comes again.
LEMMA MigrationKeeps ==
  ASSUME DownloadInv, NEW q \in Procs, domain_download_media_cross_dc(q) PROVE DownloadInv'
<1> DEFINE d == [dl[q] EXCEPT !.pc = "lookup", !.dc = "foreign", !.off = 0]
<1>1. Rests(dl[q], files, spoiled) /\ dl[q].pc = "chunk"
      /\ UNCHANGED <<files, index, spoiled>>
  BY DEF DownloadInv, domain_download_media_cross_dc
<1>2. dl' = [dl EXCEPT ![q] = d]
  BY Zenon DEF domain_download_media_cross_dc
<1>3. DOMAIN dl[q] = DlFields /\ dl[q].m \in Media /\ dl[q].out \in Paths
      /\ dl[q].lines = <<>>
  BY <1>1 DEF Rests
<1>4. DOMAIN d = DlFields /\ d.pc = "lookup" /\ d.m = dl[q].m /\ d.out = dl[q].out
      /\ d.lines = <<>>
  BY <1>3 DEF DlFields
<1> HIDE DEF d
<1>5. Rests(d, files, spoiled) /\ \A p : ~Uses(d, p)
  BY <1>3, <1>4, NoLines, SMTT(20) DEF Rests, Uses, Done, Named
<1> QED BY <1>1, <1>2, <1>4, <1>5, LocalDownload, Zenon

\* What a process that has its file rests on.
LEMMA HasFile ==
  ASSUME DownloadInv, NEW q \in Procs, dl[q].pc \in Done
  PROVE  /\ DOMAIN dl[q] = DlFields /\ dl[q].m \in Media /\ dl[q].out \in Paths
         /\ dl[q].out \in spoiled \/ files[dl[q].out] = Whole(dl[q].m)
         /\ Sound(dl[q].lines, files, spoiled)
BY SMTT(20) DEF DownloadInv, Rests, Done

\* The two ends of media_index_put.
LEMMA AfterPutRests ==
  ASSUME DownloadInv, NEW q \in Procs, dl[q].pc \in Done
  PROVE  /\ Rests(AfterPut(dl[q]), files, spoiled) /\ AfterPut(dl[q]).pc \in Done
         /\ AfterPut(dl[q]).out = dl[q].out /\ AfterPut(dl[q]).lines = <<>>
<1> DEFINE d == AfterPut(dl[q])
<1>1. DOMAIN d = DlFields /\ d.m = dl[q].m /\ d.out = dl[q].out /\ d.lines = <<>>
      /\ d.pc \in {"put", "saved"}
  BY HasFile DEF AfterPut, DlFields
<1> HIDE DEF d
<1>2. Rests(d, files, spoiled)
  BY <1>1, HasFile, NoLines DEF Rests, Done
<1> QED BY <1>1, <1>2 DEF d, Done

\* The lines media_index_put writes back are sound.
LEMMA PutLinesSound ==
  ASSUME DownloadInv, NEW q \in Procs, dl[q].pc \in Done,
         ~(Len(PutLines(dl[q].m, dl[q].out)) > MEDIA_IDX_MAX_ENTRIES)
  PROVE  /\ Sound(PutLines(dl[q].m, dl[q].out), files, spoiled)
         /\ \A p : Named(PutLines(dl[q].m, dl[q].out), p) => Named(index, p) \/ p = dl[q].out
<1> DEFINE m == dl[q].m
           path == dl[q].out
           n == IF Len(index) < MEDIA_IDX_MAX_ENTRIES THEN Len(index) ELSE MEDIA_IDX_MAX_ENTRIES
           read == SubSeq(index, 1, n)
           same == [i \in 1..Len(read) |-> IF read[i][1] = m THEN <<m, path>> ELSE read[i]]
<1>1. /\ index \in Seq(Media \X Paths) /\ Len(index) <= MEDIA_IDX_MAX_ENTRIES
      /\ \A i, j \in 1..Len(index) : index[i][1] = index[j][1] => i = j
      /\ \A i \in 1..Len(index) : Backed(index[i][2], index[i][1], files, spoiled)
      /\ Len(index) \in Nat /\ MEDIA_IDX_MAX_ENTRIES \in Nat
  BY EarlierAssumption DEF DownloadInv, Sound, OneLineEach
<1>2. n = Len(index)
  BY <1>1
<1>7. PutLines(m, path) = IF \E i \in 1..Len(read) : read[i][1] = m THEN same
                          ELSE Append(read, <<m, path>>)
  BY Zenon DEF PutLines
<1>3. read = index
  <2> HIDE DEF n
  <2>1. SubSeq(index, 1, Len(index)) = index
    BY <1>1
  <2> QED BY <1>2, <2>1
<1>4. m \in Media /\ path \in Paths /\ Backed(path, m, files, spoiled)
  BY HasFile DEF Backed
<1> HIDE DEF m, path, read
<1>5. CASE \E i \in 1..Len(index) : index[i][1] = m
  <2> DEFINE l == [i \in 1..Len(index) |-> IF index[i][1] = m THEN <<m, path>> ELSE index[i]]
  <2>1. PutLines(m, path) = l
    BY <1>3, <1>5, <1>7
  <2>2. l \in Seq(Media \X Paths) /\ Len(l) = Len(index)
    BY <1>1, <1>4
  <2>3. \A i \in 1..Len(index) : l[i] = IF index[i][1] = m THEN <<m, path>> ELSE index[i]
    OBVIOUS
  <2> HIDE DEF l
  <2>4. \A i \in 1..Len(index) : l[i][1] = index[i][1]
    BY <2>3
  <2>5. \A i \in 1..Len(l) : Backed(l[i][2], l[i][1], files, spoiled)
    BY <1>1, <1>4, <2>2, <2>3
  <2>6. OneLineEach(l)
    BY <1>1, <2>2, <2>4, Zenon DEF OneLineEach
  <2>7. \A p : Named(l, p) => Named(index, p) \/ p = path
    BY <2>2, <2>3 DEF Named
  <2> QED BY <2>1, <2>5, <2>6, <2>7 DEF Sound, m, path
<1>6. CASE ~ \E i \in 1..Len(index) : index[i][1] = m
  <2> DEFINE l == Append(index, <<m, path>>)
  <2>1. PutLines(m, path) = l
    BY <1>3, <1>6, <1>7
  <2>2. l \in Seq(Media \X Paths) /\ Len(l) = Len(index) + 1
    BY <1>1, <1>4
  <2>3. /\ \A i \in 1..Len(index) : l[i] = index[i]
        /\ l[Len(index) + 1] = <<m, path>>
    BY <1>1, <1>4
  <2> HIDE DEF l
  <2>4. \A i \in 1..Len(l) : i \in 1..Len(index) \/ i = Len(index) + 1
    BY <1>1, <2>2
  <2>5. \A i \in 1..Len(l) : Backed(l[i][2], l[i][1], files, spoiled)
    BY <1>1, <1>4, <2>3, <2>4
  <2>6. ASSUME NEW i \in 1..Len(l), NEW j \in 1..Len(l), l[i][1] = l[j][1]
        PROVE  i = j
    <3>1. l[Len(index) + 1][1] = m
      BY <2>3
    <3>2. \A k \in 1..Len(index) : l[k][1] = index[k][1] /\ l[k][1] # m
      BY <1>6, <2>3
    <3>3. CASE i \in 1..Len(index) /\ j \in 1..Len(index)
      BY <1>1, <2>6, <3>2, <3>3, Zenon
    <3> QED BY <2>4, <2>6, <3>1, <3>2, <3>3, Zenon
  <2>7. Len(l) <= MEDIA_IDX_MAX_ENTRIES
    <3>1. ~(Len(l) > MEDIA_IDX_MAX_ENTRIES)
      BY <2>1, Zenon DEF m, path
    <3> QED BY <1>1, <2>2, <3>1
  <2>8. \A p : Named(l, p) => Named(index, p) \/ p = path
    BY <2>3, <2>4 DEF Named
  <2> QED BY <2>1, <2>2, <2>5, <2>6, <2>7, <2>8 DEF Sound, OneLineEach, m, path
<1> QED BY <1>5, <1>6

\* A process that has its file keeps off the files being written.
LEMMA KeepsOff ==
  ASSUME DownloadInv, NEW q \in Procs, dl[q].pc \in Done, NEW r \in Procs \ {q},
         dl[r].pc = "chunk", dl[r].out \notin spoiled
  PROVE  /\ dl[q].out # dl[r].out /\ ~Named(index, dl[r].out)
         /\ ~Named(dl[q].lines, dl[r].out)
<1>1. Unshared(r)
  BY DEF DownloadInv
<1> QED BY <1>1 DEF Unshared, Uses

\* media_index_put, first half.
LEMMA PutReadKeeps ==
  ASSUME DownloadInv, NEW q \in Procs, media_index_put_read(q) PROVE DownloadInv'
<1> DEFINE l == PutLines(dl[q].m, dl[q].out)
<1>1. dl[q].pc \in Done /\ UNCHANGED <<files, index, spoiled>>
  BY DEF media_index_put_read, Done
<1>2. CASE Len(l) > MEDIA_IDX_MAX_ENTRIES
  <2> DEFINE d == AfterPut(dl[q])
  <2>1. dl' = [dl EXCEPT ![q] = d]
    BY <1>2 DEF media_index_put_read
  <2>2. Rests(d, files, spoiled) /\ d.pc \in Done /\ d.out = dl[q].out /\ d.lines = <<>>
    BY <1>1, AfterPutRests
  <2> HIDE DEF d
  <2>3. \A r \in Procs \ {q} : dl[r].pc = "chunk" /\ dl[r].out \notin spoiled => ~Uses(d, dl[r].out)
    BY <1>1, <2>2, KeepsOff DEF Uses, Named, Done
  <2>4. d.pc # "chunk"
    BY <2>2 DEF Done
  <2> QED BY <1>1, <2>1, <2>2, <2>3, <2>4, LocalDownload, Zenon
<1>3. CASE ~(Len(l) > MEDIA_IDX_MAX_ENTRIES)
  <2> DEFINE d == [dl[q] EXCEPT !.pc = "rewrite", !.lines = l]
  <2>1. dl' = [dl EXCEPT ![q] = d]
    BY <1>3 DEF media_index_put_read
  <2>2. Sound(l, files, spoiled) /\ \A p : Named(l, p) => Named(index, p) \/ p = dl[q].out
    BY <1>1, <1>3, PutLinesSound, Zenon
  <2>3. DOMAIN d = DlFields /\ d.pc = "rewrite" /\ d.lines = l /\ d.out = dl[q].out
        /\ d.m = dl[q].m
    BY <1>1, HasFile DEF DlFields
  <2> HIDE DEF d, l
  <2>4. Rests(d, files, spoiled)
    BY <1>1, <2>2, <2>3, HasFile, Zenon DEF Rests, Done
  <2>5. \A r \in Procs \ {q} : dl[r].pc = "chunk" /\ dl[r].out \notin spoiled => ~Uses(d, dl[r].out)
    BY <1>1, <2>2, <2>3, KeepsOff DEF Uses
  <2> QED BY <1>1, <2>1, <2>3, <2>4, <2>5, LocalDownload, Zenon
<1> QED BY <1>2, <1>3

\* media_index_put empties the file.
LEMMA PutOpenKeeps ==
  ASSUME DownloadInv, NEW q \in Procs, media_index_put_open(q) PROVE DownloadInv'
<1> DEFINE d == [dl[q] EXCEPT !.pc = "flush"]
<1>1. /\ dl[q].pc = "rewrite" /\ dl[q].pc \in Done /\ UNCHANGED <<files, spoiled>>
      /\ index' = <<>> /\ dl' = [dl EXCEPT ![q] = d]
  BY DEF media_index_put_open, Done
<1>2. DOMAIN d = DlFields /\ d.pc = "flush" /\ d.m = dl[q].m /\ d.out = dl[q].out
      /\ d.lines = dl[q].lines
  BY <1>1, HasFile, SMTT(20) DEF DlFields
<1> HIDE DEF d
<1>3. Rests(d, files', spoiled')
  BY <1>1, <1>2, HasFile DEF Rests, Done
<1>4. \A p : ~Named(index', p)
  BY <1>1 DEF Named
<1>5. \A r \in Procs \ {q} : dl[r].pc = "chunk" /\ dl[r].out \notin spoiled' =>
         ~Uses(d, dl[r].out) /\ ~Named(index', dl[r].out)
  BY <1>1, <1>2, <1>4, KeepsOff DEF Uses
<1>6. Sound(index', files, spoiled) /\ DOMAIN files' = Paths /\ spoiled \subseteq spoiled'
      /\ files' = files
  BY <1>1, NoLines DEF DownloadInv
<1>7. d.pc # "chunk" /\ (\A x \in Paths \ {NoPath} : files'[x] = files[x])
      /\ files'[NoPath] = files[NoPath]
  BY <1>1, <1>2
<1> QED BY <1>1, <1>3, <1>5, <1>6, <1>7, OneDownload, Zenon

\* media_index_put writes the lines it read before, whatever happened since.
LEMMA PutCloseKeeps ==
  ASSUME DownloadInv, NEW q \in Procs, media_index_put_close(q) PROVE DownloadInv'
<1> DEFINE d == AfterPut(dl[q])
<1>1. /\ dl[q].pc \in Done /\ UNCHANGED <<files, spoiled>>
      /\ index' = dl[q].lines /\ dl' = [dl EXCEPT ![q] = d]
  BY DEF media_index_put_close, Done
<1>2. Rests(d, files, spoiled) /\ d.pc \in Done /\ d.out = dl[q].out /\ d.lines = <<>>
  BY <1>1, AfterPutRests
<1> HIDE DEF d
<1>3. Rests(d, files', spoiled')
  BY <1>1, <1>2, SMTT(20)
<1>5. \A r \in Procs \ {q} : dl[r].pc = "chunk" /\ dl[r].out \notin spoiled' =>
         ~Uses(d, dl[r].out) /\ ~Named(index', dl[r].out)
  BY <1>1, <1>2, KeepsOff DEF Uses, Named, Done
<1>6. Sound(index', files, spoiled) /\ DOMAIN files' = Paths /\ spoiled \subseteq spoiled'
      /\ files' = files
  BY <1>1, HasFile DEF DownloadInv
<1>7. d.pc # "chunk" /\ (\A x \in Paths \ {NoPath} : files'[x] = files[x])
      /\ files'[NoPath] = files[NoPath]
  BY <1>1, <1>2 DEF Done
<1> QED BY <1>1, <1>3, <1>5, <1>6, <1>7, OneDownload, Zenon

\* Spoils looks at what the processes use.
LEMMA NotSpoiled ==
  ASSUME NEW q \in Procs, NEW p, ~Spoils(q, p)
  PROVE  ~Named(index, p) /\ \A r \in Procs \ {q} : ~Uses(dl[r], p)
<1>1. \A r : InUse(r, p) <=> Uses(dl[r], p)
  BY DEF InUse, Uses, Named, Done
<1> QED BY <1>1 DEF Spoils, Named

\* A process that has looked the medium up.
LEMMA LookedUp ==
  ASSUME DownloadInv, NEW q \in Procs, dl[q].pc = "open"
  PROVE  /\ DOMAIN dl[q] = DlFields /\ dl[q].m \in Media /\ dl[q].out \in Paths
         /\ dl[q].lines = <<>>
         /\ dl[q].cached # NoPath =>
              dl[q].cached \in Paths /\ Backed(dl[q].cached, dl[q].m, files, spoiled)
BY DEF DownloadInv, Rests

\* A file opened for writing: the other processes at work on a file of their
\* own stay off it, or it is spoiled.
LEMMA OpensApart ==
  ASSUME DownloadInv, NEW q \in Procs, NEW p,
         p \in spoiled' \/ ~Spoils(q, p), NEW r \in Procs \ {q}, dl[r].pc = "chunk",
         dl[r].out \notin spoiled'
  PROVE  dl[r].out # p
<1>1. CASE p \in spoiled'
  BY <1>1
<1>2. CASE ~Spoils(q, p)
  <2>1. ~Uses(dl[r], p)
    BY <1>2, NotSpoiled
  <2> QED BY <2>1 DEF Uses
<1> QED BY <1>1, <1>2

\* The cache hit: the cached file is whole, and so is its copy.
LEMMA HitKeeps ==
  ASSUME DownloadInv, NEW q \in Procs, domain_download_hit(q) PROVE DownloadInv'
<1> DEFINE from == dl[q].cached
           out == dl[q].out
           d == [dl[q] EXCEPT !.pc = "put", !.put = 2]
<1>1. /\ dl[q].pc = "open" /\ from # NoPath /\ files[from] # Absent
      /\ files' = [files EXCEPT ![out] = files[from]] /\ index' = index
      /\ dl' = [dl EXCEPT ![q] = d]
      /\ spoiled' = IF from = out THEN spoiled
                    ELSE IF from \in spoiled \/ Spoils(q, out)
                    THEN spoiled \cup {out} ELSE spoiled
  BY Zenon DEF domain_download_hit, Hit
<1>2. /\ DOMAIN dl[q] = DlFields /\ dl[q].m \in Media /\ out \in Paths /\ dl[q].lines = <<>>
      /\ from \in Paths /\ Backed(from, dl[q].m, files, spoiled)
  BY <1>1, LookedUp
<1>3. DOMAIN d = DlFields /\ d.pc = "put" /\ d.m = dl[q].m /\ d.out = out /\ d.lines = <<>>
  BY <1>2 DEF DlFields
<1>4. /\ DOMAIN files' = Paths /\ files'[out] = files[from]
      /\ \A x \in Paths \ {out} : files'[x] = files[x]
  BY <1>1, <1>2 DEF DownloadInv
<1>5. /\ spoiled \subseteq spoiled' /\ (from = out => spoiled' = spoiled)
      /\ from # out => out \in spoiled' \/ (from \notin spoiled /\ ~Spoils(q, out))
  BY <1>1
<1> HIDE DEF d
<1>6. out \in spoiled' \/ files'[out] = Whole(dl[q].m)
  BY <1>1, <1>2, <1>4, <1>5, SMTT(20) DEF Backed
<1>7. Rests(d, files', spoiled')
  <2>1. d.pc # "open" /\ d.pc # "chunk" /\ d.pc # "idle"
    BY <1>3
  <2>2. Sound(d.lines, files', spoiled')
    BY <1>3, NoLines, SMTT(20)
  <2> QED BY <1>2, <1>3, <1>6, <2>1, <2>2 DEF Rests
<1>8. \/ out \in spoiled' \/ files'[out] = files[out]
      \/ (~Named(index, out) /\ \A r \in Procs \ {q} : ~Uses(dl[r], out))
  BY <1>4, <1>5, NotSpoiled, SMTT(20)
<1>9. ASSUME NEW r \in Procs \ {q}, dl[r].pc = "chunk", dl[r].out \notin spoiled'
      PROVE  ~Uses(d, dl[r].out) /\ ~Named(index', dl[r].out)
  <2>1. dl[r].out \notin spoiled /\ Unshared(r)
    BY <1>5, <1>9, SMTT(20) DEF DownloadInv
  <2>2. ~Named(index, dl[r].out) /\ ~Uses(dl[q], dl[r].out)
    BY <1>9, <2>1 DEF Unshared
  <2>3. dl[r].out # out
    <3>1. CASE from = out
      BY <1>1, <2>2, <3>1, SMTT(20) DEF Uses
    <3>2. CASE from # out
      <4>1. out \in spoiled' \/ ~Spoils(q, out)
        BY <1>5, <3>2
      <4> QED BY <1>9, <4>1, OpensApart
    <3> QED BY <3>1, <3>2
  <2> QED BY <1>1, <1>3, <2>2, <2>3, SMTT(20) DEF Uses, Named
<1>10. d.pc # "chunk"
  BY <1>3
<1> HIDE DEF out
<1> QED BY <1>1, <1>4, <1>5, <1>7, <1>8, <1>9, <1>10, OneDownload, Zenon

\* download_loop truncates its target.
LEMMA LoopOpenKeeps ==
  ASSUME DownloadInv, NEW q \in Procs, download_loop_open(q) PROVE DownloadInv'
<1> DEFINE out == dl[q].out
           d == [dl[q] EXCEPT !.pc = "chunk", !.off = 0]
<1>1. /\ dl[q].pc = "open" /\ files' = [files EXCEPT ![out] = <<>>] /\ index' = index
      /\ dl' = [dl EXCEPT ![q] = d]
      /\ spoiled' = IF Spoils(q, out) THEN spoiled \cup {out} ELSE spoiled
  BY Zenon DEF download_loop_open
<1>2. /\ DOMAIN dl[q] = DlFields /\ dl[q].m \in Media /\ out \in Paths /\ dl[q].lines = <<>>
  BY <1>1, LookedUp
<1>3. DOMAIN d = DlFields /\ d.pc = "chunk" /\ d.m = dl[q].m /\ d.out = out
      /\ d.lines = <<>>
      /\ d.off = 0
  BY <1>2 DEF DlFields
<1>4. /\ DOMAIN files' = Paths /\ files'[out] = <<>>
      /\ \A x \in Paths \ {out} : files'[x] = files[x]
  BY <1>1, <1>2 DEF DownloadInv
<1>5. spoiled \subseteq spoiled' /\ (out \in spoiled' \/ ~Spoils(q, out))
  BY <1>1
<1> HIDE DEF d
<1>6. files'[out] = FirstPieces(dl[q].m, 0) /\ 0 \in 0..Pieces[dl[q].m]
  BY <1>2, <1>4, PiecesAssumption, SMTT(20) DEF FirstPieces
<1>7. Rests(d, files', spoiled')
  <2>1. Sound(d.lines, files', spoiled')
    BY <1>3, NoLines
  <2> QED BY <1>2, <1>3, <1>6, <2>1 DEF Rests, Done
<1>8. \/ out \in spoiled'
      \/ (~Named(index, out) /\ \A r \in Procs \ {q} : ~Uses(dl[r], out))
  BY <1>5, NotSpoiled
<1>9. ASSUME NEW r \in Procs \ {q}, dl[r].pc = "chunk", dl[r].out \notin spoiled'
      PROVE  ~Uses(d, dl[r].out) /\ ~Named(index', dl[r].out)
  <2>1. dl[r].out \notin spoiled /\ Unshared(r)
    BY <1>5, <1>9 DEF DownloadInv
  <2>2. ~Named(index, dl[r].out)
    BY <1>9, <2>1 DEF Unshared
  <2>3. dl[r].out # out
    BY <1>5, <1>9, OpensApart, SMTT(20)
  <2> QED BY <1>1, <1>3, <2>2, <2>3, SMTT(20) DEF Uses, Named
<1> HIDE DEF out
<1>10. d.pc = "chunk" /\ d.out \notin spoiled' =>
         ~Named(index', d.out) /\ \A r \in Procs \ {q} : ~Uses(dl[r], d.out)
  BY <1>1, <1>3, <1>8
<1> QED BY <1>1, <1>4, <1>5, <1>7, <1>8, <1>9, <1>10, OneDownload, Zenon

\* A piece written at the end of the pieces before it.
LEMMA NextPiece ==
  ASSUME NEW m, NEW k \in Nat
  PROVE  WriteAt(FirstPieces(m, k), k + 1, <<m, k + 1>>) = FirstPieces(m, k + 1)
<1> DEFINE f == FirstPieces(m, k)
<1>1. Len(f) = k /\ \A j \in 1..k : f[j] = <<m, j>>
  BY DEF FirstPieces
<1> HIDE DEF f
<1>2. WriteAt(f, k + 1, <<m, k + 1>>) =
        [j \in 1..(k + 1) |-> IF j = k + 1 THEN <<m, k + 1>> ELSE IF j <= k THEN f[j] ELSE Hole]
  BY <1>1 DEF WriteAt
<1>3. \A j \in 1..(k + 1) :
        (IF j = k + 1 THEN <<m, k + 1>> ELSE IF j <= k THEN f[j] ELSE Hole) = <<m, j>>
  BY <1>1
<1> QED BY <1>2, <1>3, Zenon DEF f, FirstPieces

\* One answer of upload.getFile: the pieces stay in order, and the last one
\* makes the medium whole.
LEMMA LoopKeeps ==
  ASSUME DownloadInv, NEW q \in Procs, download_loop(q) PROVE DownloadInv'
<1> DEFINE m == dl[q].m
           out == dl[q].out
           i == dl[q].off + 1
           last == IF m \in Exact THEN i > Pieces[m] ELSE i >= Pieces[m]
           after == IF i <= Pieces[m] THEN WriteAt(files[out], i, <<m, i>>) ELSE files[out]
           off == IF last THEN 0 ELSE i
           pc == IF last THEN "put" ELSE "chunk"
           put == IF last THEN 1 ELSE 0
           d == [dl[q] EXCEPT !.off = off, !.pc = pc, !.put = put]
<1>1. /\ dl[q].pc = "chunk" /\ files' = [files EXCEPT ![out] = after]
      /\ dl' = [dl EXCEPT ![q] = d] /\ UNCHANGED <<index, spoiled>>
  BY Zenon DEF download_loop, build_getfile_request
<1>2. /\ DOMAIN dl[q] = DlFields /\ m \in Media /\ out \in Paths /\ dl[q].lines = <<>>
      /\ dl[q].off \in 0..Pieces[m] /\ Unshared(q)
      /\ out \in spoiled \/ files[out] = FirstPieces(m, dl[q].off)
  BY <1>1 DEF DownloadInv, Rests
<1> HIDE DEF m, out
<1>3. Pieces[m] \in Nat /\ dl[q].off \in Nat /\ dl[q].off <= Pieces[m]
  BY <1>2, PiecesAssumption
<1>4. \/ pc = "put" /\ (out \in spoiled \/ after = Whole(m))
      \/ pc = "chunk" /\ off \in 0..Pieces[m] /\ (out \in spoiled \/ after = FirstPieces(m, off))
  <2>1. CASE last
    <3>1. pc = "put"
      BY <2>1
    <3>2. ASSUME out \notin spoiled PROVE after = FirstPieces(m, Pieces[m])
      <4>1. CASE i <= Pieces[m]
        <5>1. i = Pieces[m]
          BY <1>3, <2>1, <4>1
        <5>2. files[out] = FirstPieces(m, dl[q].off)
          BY <1>2, <3>2
        <5>3. after = WriteAt(FirstPieces(m, dl[q].off), dl[q].off + 1, <<m, dl[q].off + 1>>)
          BY <4>1, <5>2
        <5>4. after = FirstPieces(m, dl[q].off + 1)
          BY <1>3, <5>3, NextPiece
        <5> QED BY <5>1, <5>4
      <4>2. CASE ~(i <= Pieces[m])
        <5>1. dl[q].off = Pieces[m]
          BY <1>3, <4>2
        <5> QED BY <1>2, <3>2, <4>2, <5>1
      <4> QED BY <4>1, <4>2
    <3> HIDE DEF after, pc
    <3> QED BY <3>1, <3>2, Zenon DEF Whole, FirstPieces
  <2>2. CASE ~last
    <3>1. i <= Pieces[m] /\ i \in 0..Pieces[m] /\ off = i /\ pc = "chunk"
      BY <1>3, <2>2
    <3>2. ASSUME out \notin spoiled PROVE after = FirstPieces(m, i)
      <4>1. files[out] = FirstPieces(m, dl[q].off)
        BY <1>2, <3>2
      <4>2. after = WriteAt(FirstPieces(m, dl[q].off), dl[q].off + 1, <<m, dl[q].off + 1>>)
        BY <3>1, <4>1
      <4> QED BY <1>3, <4>2, NextPiece
    <3> HIDE DEF after, pc, off, i
    <3> QED BY <3>1, <3>2
  <2> QED BY <2>1, <2>2, Zenon
<1> HIDE DEF after, pc, off, put, last, i
<1>5. DOMAIN d = DlFields /\ d.pc = pc /\ d.off = off /\ d.m = m /\ d.out = out
      /\ d.lines = <<>>
  BY <1>2 DEF DlFields, m, out
<1> HIDE DEF d
<1>6. /\ DOMAIN files' = Paths /\ files'[out] = after
      /\ \A x \in Paths \ {out} : files'[x] = files[x]
  BY <1>1, <1>2 DEF DownloadInv
<1>7. Rests(d, files', spoiled')
  <2>1. Sound(d.lines, files', spoiled')
    BY <1>5, NoLines
  <2>2. spoiled' = spoiled
    BY <1>1, SMTT(20)
  <2>3. CASE pc = "put"
    <3>1. out \in spoiled' \/ files'[out] = Whole(m)
      BY <1>4, <1>6, <2>2, <2>3
    <3> QED BY <1>2, <1>5, <2>1, <2>3, <3>1, SMTT(20) DEF Rests
  <2>4. CASE pc = "chunk"
    <3>1. off \in 0..Pieces[m] /\ (out \in spoiled' \/ files'[out] = FirstPieces(m, off))
      BY <1>4, <1>6, <2>2, <2>4, SMTT(20)
    <3> QED BY <1>2, <1>5, <2>1, <2>4, <3>1, Zenon DEF Rests, Done
  <2> QED BY <1>4, <2>3, <2>4
<1>8. out \notin spoiled =>
        ~Named(index, out) /\ \A r \in Procs \ {q} : ~Uses(dl[r], out)
  BY <1>1, <1>2 DEF Unshared, out
<1>9. ASSUME NEW r \in Procs \ {q}, dl[r].pc = "chunk", dl[r].out \notin spoiled'
      PROVE  ~Uses(d, dl[r].out) /\ ~Named(index', dl[r].out)
  <2>1. dl[r].out \notin spoiled /\ Unshared(r)
    BY <1>1, <1>9 DEF DownloadInv
  <2>2. ~Named(index, dl[r].out) /\ ~Uses(dl[q], dl[r].out)
    BY <1>9, <2>1 DEF Unshared
  <2>3. dl[r].out # out
    BY <1>1, <2>2 DEF Uses, out
  <2>4. d.pc # "open"
    BY <1>4, <1>5
  <2> QED BY <1>1, <1>5, <2>2, <2>3, <2>4 DEF Uses, Named
<1>10. d.out \notin spoiled' =>
         ~Named(index', d.out) /\ \A r \in Procs \ {q} : ~Uses(dl[r], d.out)
  BY <1>1, <1>5, <1>8
<1>11. spoiled \subseteq spoiled' /\ index' = index
       /\ (out \in spoiled' \/ (~Named(index, out) /\ \A r \in Procs \ {q} : ~Uses(dl[r], out)))
  BY <1>1, <1>8
<1> QED BY <1>1, <1>6, <1>7, <1>9, <1>10, <1>11, OneDownload, Zenon

\* A file the user deletes is in no use.
LEMMA RemoveKeeps == ASSUME DownloadInv, NEW p \in Paths, Remove(p) PROVE DownloadInv'
<1>1. /\ DOMAIN files' = Paths /\ files'[p] = Absent /\ UNCHANGED <<index, dl, spoiled>>
      /\ \A x \in Paths \ {p} : files'[x] = files[x]
  BY DEF DownloadInv, Remove
<1>2. Sound(index', files', spoiled')
  <2>1. Sound(index, files, spoiled)
    BY DEF DownloadInv
  <2> SUFFICES ASSUME NEW i \in 1..Len(index)
               PROVE  Backed(index[i][2], index[i][1], files', spoiled)
    BY <1>1, <2>1 DEF Sound
  <2>2. index[i][2] \in Paths /\ Backed(index[i][2], index[i][1], files, spoiled)
    <3>1. index[i] \in Media \X Paths
      BY <2>1, SMTT(20) DEF Sound, OneLineEach
    <3> QED BY <2>1, <3>1 DEF Sound
  <2> QED BY <1>1, <2>2 DEF Backed
<1>3. ASSUME NEW q \in Procs PROVE Rests(dl'[q], files', spoiled') /\ Unshared(q)'
  <2>1. Rests(dl[q], files, spoiled) /\ Unshared(q)
    BY DEF DownloadInv
  <2>2. ~Uses(dl[q], p)
    BY DEF Remove, InUse, Uses, Named, Done
  <2>3. Rests(dl[q], files', spoiled)
    BY <1>1, <2>1, <2>2, RestsStays, SMTT(20)
  <2> QED BY <1>1, <2>1, <2>3 DEF Unshared
<1> QED BY <1>1, <1>2, <1>3 DEF DownloadInv

\* What earlier downloads left is sound.
LEMMA DownloadStart == DInit => DownloadInv
<1> SUFFICES ASSUME DInit PROVE DownloadInv
  OBVIOUS
<1>1. DOMAIN files = Paths /\ DOMAIN dl = Procs /\ \A q \in Procs : dl[q] = Idle
  BY DEF DInit
<1>2. OneLineEach(index) /\ \A i, j \in 1..Len(index) : index[i][2] = index[j][2] => i = j
  BY EarlierAssumption DEF DInit, OneLineEach
<1>3. ASSUME NEW i \in 1..Len(index) PROVE Backed(index[i][2], index[i][1], files, spoiled)
  <2> DEFINE p == index[i][2]
             k == CHOOSE j \in 1..Len(index) : index[j][2] = p
  <2>1. p \in Paths
    <3>1. index[i] \in Media \X Paths
      BY <1>2 DEF OneLineEach
    <3> QED BY <3>1
  <2>2. files[p] = Whole(index[k][1])
    BY <2>1 DEF DInit
  <2>3. k = i
    <3>1. k \in 1..Len(index) /\ index[k][2] = p
      OBVIOUS
    <3> HIDE DEF k
    <3> QED BY <1>2, <3>1
  <2> QED BY <2>2, <2>3, Zenon DEF Backed
<1>4. Rests(Idle, files, spoiled) /\ Idle.pc # "chunk"
  BY NoLines, Zenon DEF Rests, Idle, DlFields, Done
<1> QED BY <1>1, <1>2, <1>3, <1>4 DEF DownloadInv, Sound, Unshared

\* Every step keeps the invariant.
LEMMA DownloadNext == DownloadInv /\ [MNext]_mvars => DownloadInv'
<1> SUFFICES ASSUME DownloadInv, [MNext]_mvars PROVE DownloadInv'
  OBVIOUS
<1>1. CASE UNCHANGED dvars
  BY <1>1 DEF dvars, DownloadInv, Unshared
<1>2. ASSUME NEW q \in Procs, Command(q) PROVE DownloadInv'
  <2>1. CASE \E m \in Media, out \in Paths : cmd_download(q, m, out)
    BY <2>1, CommandKeeps
  <2> QED BY <1>1, <1>2, <2>1 DEF Command
<1>3. ASSUME NEW q \in Procs, DStep(q) PROVE DownloadInv'
  <2>1. CASE Saved(q)
    BY <2>1, IdleKeeps, Zenon DEF Saved
  <2> QED BY <1>3, <2>1, LookupKeeps, HitKeeps, LoopOpenKeeps, LoopKeeps,
          MigrationKeeps,
             PutReadKeeps, PutOpenKeeps, PutCloseKeeps DEF DStep
<1>4. ASSUME NEW q \in Procs, DownloadFails(q) \/ DKill(q) PROVE DownloadInv'
  BY <1>4, IdleKeeps DEF DownloadFails, DKill
<1>5. CASE Removes
  BY <1>5, RemoveKeeps DEF Removes
<1> QED BY <1>1, <1>2, <1>3, <1>4, <1>5 DEF MNext, mvars

\* The invariant holds throughout.
LEMMA DownloadAlways == MSpec => []DownloadInv
BY DownloadStart, DownloadNext, PTL DEF MSpec, MInit

\* Whatever the media, the processes, their kills and their index rewrites:
\* the path a download command reports as saved holds the whole medium,
\* unless the path was opened for writing while in use.
THEOREM SavedIsWhole == MSpec => []WrongOnlyIfSpoiled
<1>1. DownloadInv => WrongOnlyIfSpoiled
  BY DEF DownloadInv, Rests, Done, WrongOnlyIfSpoiled
<1> QED BY <1>1, DownloadAlways, PTL

\* Whatever the interleaving of media_index_put in several processes, a line
\* of media.idx names a whole file, a deleted one or a spoiled one; there is
\* one line for a medium, and no more lines than the limit.
THEOREM IndexStaysSound == MSpec => []IndexSound
<1>1. DownloadInv => IndexSound
  BY Zenon DEF DownloadInv, Sound, OneLineEach, Backed, IndexSound, IndexedIsWhole,
       IndexWellFormed
<1> QED BY <1>1, DownloadAlways, PTL

\* How far a download has come: the lookup, the open and the pieces at the
\* home DC, then the same at the other DC, then the two index updates.
DlRank(d) ==
    LET turn == IF d.dc = "home" THEN 0 ELSE Pieces[d.m] + 3
        had == 2 * Pieces[d.m] + 6 + (IF d.put = 1 THEN 0 ELSE 3)
    IN CASE d.pc = "lookup"  -> turn
         [] d.pc = "open"    -> turn + 1
         [] d.pc = "chunk"   -> turn + 2 + d.off
         [] d.pc = "put"     -> had
         [] d.pc = "rewrite" -> had + 1
         [] d.pc = "flush"   -> had + 2
         [] OTHER            -> 2 * Pieces[d.m] + 12

\* The download is the same one, and has come further.
Further(d, e) ==
    e.m = d.m /\ DlRank(d) < DlRank(e) /\ DlRank(e) <= 2 * Pieces[d.m] + 12

\* A step of a download ends it or brings it on, and no step of another
\* process or of the user touches it.
DownloadAdvances ==
    \A q \in Procs : dl[q].pc # "idle" =>
        /\ DStep(q) => dl'[q].pc = "idle" \/ Further(dl[q], dl'[q])
        /\ ~DStep(q) => dl'[q].pc = "idle" \/ dl'[q] = dl[q]

\* The places of a download.
Place(d) ==
    /\ d.pc \in {"idle", "lookup", "open", "chunk", "put", "rewrite", "flush", "saved"}
    /\ d.dc \in {"home", "foreign"}
    /\ d.pc \in {"put", "rewrite", "flush"} => d.put \in {1, 2}

PlaceInv == \A q \in Procs : Place(dl[q])

\* Every step of the download itself.
LEMMA DStepAdvances ==
  ASSUME DownloadInv, PlaceInv, NEW q \in Procs, DStep(q)
  PROVE  /\ Place(dl'[q]) /\ DOMAIN dl' = Procs
         /\ \A r \in Procs \ {q} : dl'[r] = dl[r]
         /\ dl'[q].pc = "idle" \/ Further(dl[q], dl'[q])
<1> DEFINE d == dl[q]
           e == dl'[q]
<1>0. /\ DOMAIN dl = Procs /\ DOMAIN d = DlFields /\ Place(d)
      /\ d.pc # "idle" => d.m \in Media /\ Pieces[d.m] \in Nat
      /\ d.pc = "chunk" => d.off \in 0..Pieces[d.m]
  BY PiecesAssumption DEF DownloadInv, PlaceInv, Rests
<1>1. DOMAIN dl' = Procs /\ \A r \in Procs \ {q} : dl'[r] = dl[r]
  BY <1>0, Zenon DEF DStep, Lookup, domain_download_hit, download_loop_open,
       download_loop,
     domain_download_media_cross_dc, media_index_put_read, media_index_put_open,
     media_index_put_close, Saved
<1>2. ASSUME d.pc \in {"put", "flush"}, e = AfterPut(d)
      PROVE  Place(e) /\ Further(d, e)
  <2>1. /\ e.m = d.m /\ e.dc = d.dc
        /\ d.put = 1 => e.pc = "put" /\ e.put = 2
        /\ d.put # 1 => e.pc = "saved"
    BY <1>0, <1>2 DEF AfterPut, DlFields
  <2> QED BY <1>0, <1>2, <2>1 DEF Place, Further, DlRank
<1>3. CASE Lookup(q)
  <2>1. d.pc = "lookup" /\ e.pc = "open" /\ e.m = d.m /\ e.dc = d.dc
    BY <1>0, <1>3 DEF Lookup, DlFields
  <2> QED BY <1>0, <1>1, <2>1 DEF Place, Further, DlRank
<1>4. CASE domain_download_hit(q)
  <2>1. d.pc = "open" /\ e.pc = "put" /\ e.put = 2 /\ e.m = d.m /\ e.dc = d.dc
    BY <1>0, <1>4 DEF domain_download_hit, DlFields
  <2> QED BY <1>0, <1>1, <2>1 DEF Place, Further, DlRank
<1>5. CASE download_loop_open(q)
  <2>1. d.pc = "open" /\ e.pc = "chunk" /\ e.off = 0 /\ e.m = d.m /\ e.dc = d.dc
    BY <1>0, <1>5 DEF download_loop_open, DlFields
  <2> QED BY <1>0, <1>1, <2>1 DEF Place, Further, DlRank
<1>6. CASE download_loop(q)
  <2> DEFINE last == IF d.m \in Exact THEN d.off + 1 > Pieces[d.m] ELSE d.off + 1 >= Pieces[d.m]
  <2>1. /\ d.pc = "chunk" /\ e.m = d.m /\ e.dc = d.dc
        /\ e.off = IF last THEN 0 ELSE d.off + 1
        /\ e.pc = IF last THEN "put" ELSE "chunk"
        /\ e.put = IF last THEN 1 ELSE 0
    BY <1>0, <1>6 DEF download_loop, build_getfile_request, DlFields
  <2>2. CASE last
    BY <1>0, <1>1, <2>1, <2>2 DEF Place, Further, DlRank
  <2>3. CASE ~last
    <3>1. e.off = d.off + 1 /\ e.pc = "chunk"
      BY <2>1, <2>3, Zenon
    <3>2. d.off \in Nat /\ Pieces[d.m] \in Nat
      BY <1>0, <2>1
    <3>3. d.off + 1 <= Pieces[d.m]
      BY <2>3, <3>2
    <3> QED BY <1>0, <1>1, <2>1, <3>1, <3>2, <3>3 DEF Place, Further, DlRank
  <2> QED BY <2>2, <2>3, Zenon
<1>7. CASE domain_download_media_cross_dc(q)
  <2>1. d.pc = "chunk" /\ d.dc = "home" /\ e.pc = "lookup" /\ e.m = d.m /\ e.dc = "foreign"
    BY <1>0, <1>7, SMTT(20) DEF domain_download_media_cross_dc, DlFields
  <2> QED BY <1>0, <1>1, <2>1 DEF Place, Further, DlRank
<1>8. CASE media_index_put_read(q)
  <2>1. d.pc = "put" /\ (e = AfterPut(d) \/ \E l : e = [d EXCEPT !.pc = "rewrite", !.lines = l])
    BY <1>0, <1>8, Zenon DEF media_index_put_read
  <2>2. ASSUME NEW l, e = [d EXCEPT !.pc = "rewrite", !.lines = l]
        PROVE  e.pc = "rewrite" /\ e.m = d.m /\ e.dc = d.dc /\ e.put = d.put
    BY <1>0, <2>2 DEF DlFields
  <2>3. ASSUME e.pc = "rewrite", e.m = d.m, e.dc = d.dc, e.put = d.put
        PROVE  Place(e) /\ Further(d, e)
    <3>1. d.pc = "put"
      BY <2>1
    <3> QED BY <1>0, <2>3, <3>1, SMTT(20) DEF Place, Further, DlRank
  <2> QED BY <1>1, <1>2, <2>1, <2>2, <2>3
<1>9. CASE media_index_put_open(q)
  <2>1. d.pc = "rewrite" /\ e.pc = "flush" /\ e.m = d.m /\ e.dc = d.dc /\ e.put = d.put
    BY <1>0, <1>9 DEF media_index_put_open, DlFields
  <2> QED BY <1>0, <1>1, <2>1 DEF Place, Further, DlRank
<1>10. CASE media_index_put_close(q)
  <2>1. d.pc = "flush" /\ e = AfterPut(d)
    BY <1>0, <1>10, Zenon DEF media_index_put_close
  <2> QED BY <1>1, <1>2, <2>1
<1>11. CASE Saved(q)
  <2>1. e = Idle
    BY <1>0, <1>11, Zenon DEF Saved
  <2>2. Place(Idle) /\ Idle.pc = "idle"
    BY DEF Place, Idle
  <2> QED BY <1>1, <2>1, <2>2, Zenon
<1> QED BY <1>3, <1>4, <1>5, <1>6, <1>7, <1>8, <1>9, <1>10, <1>11, ZenonT(30) DEF DStep

\* Every other step.
LEMMA OthersLeaveIt ==
  ASSUME DownloadInv, PlaceInv, NEW q \in Procs, [MNext]_mvars, ~DStep(q)
  PROVE  /\ Place(dl'[q])
         /\ dl[q].pc # "idle" => dl'[q].pc = "idle" \/ dl'[q] = dl[q]
<1>0. DOMAIN dl = Procs /\ Place(dl[q])
  BY DEF DownloadInv, PlaceInv
<1>1. CASE UNCHANGED dl
  BY <1>0, <1>1
<1>2. ASSUME NEW r \in Procs, DStep(r)
      PROVE  dl'[q] = dl[q]
  BY <1>2, DStepAdvances
<1>3. ASSUME NEW r \in Procs, DownloadFails(r) \/ DKill(r)
      PROVE  dl'[q] = dl[q] \/ dl'[q] = Idle
  BY <1>0, <1>3, Zenon DEF DownloadFails, DKill
<1>4. ASSUME NEW r \in Procs, NEW m, NEW out, cmd_download(r, m, out)
      PROVE  dl'[q] = dl[q] \/ (dl[q].pc = "idle" /\ Place(dl'[q]))
  <2>1. /\ dl[r].pc = "idle"
        /\ dl' = [dl EXCEPT ![r] = [Idle EXCEPT !.pc = "lookup", !.m = m, !.out = out]]
    BY <1>4 DEF cmd_download
  <2>2. Place([Idle EXCEPT !.pc = "lookup", !.m = m, !.out = out])
    BY DEF Place, Idle
  <2> QED BY <1>0, <2>1, <2>2, Zenon
<1>5. Place(Idle) /\ Idle.pc = "idle"
  BY SMTT(20) DEF Place, Idle
<1>6. \/ UNCHANGED dl
      \/ \E r \in Procs : DStep(r) \/ DownloadFails(r) \/ DKill(r)
      \/ \E r \in Procs, m \in Media, out \in Paths : cmd_download(r, m, out)
  BY DEF MNext, mvars, dvars, Command, Removes, Remove
<1>7. dl'[q] = dl[q] \/ dl'[q] = Idle \/ (dl[q].pc = "idle" /\ Place(dl'[q]))
  BY <1>1, <1>2, <1>3, <1>4, <1>6
<1> QED BY <1>0, <1>5, <1>7

(* A download of cmd_download takes at most 2 * Pieces[m] + 13 steps of    *)
(* its own, whatever the servers answer and whatever other processes do:   *)
(* each one ends it or brings it on, so that the chunk loop and the switch *)
(* to the other DC never start over.  This is the safety half of           *)
(* DownloadEnds; that the steps are taken is left to the fairness there.   *)
THEOREM DownloadIsBounded == MSpec => [][DownloadAdvances]_mvars
<1>1. DInit => PlaceInv
  <2>1. Place(Idle)
    BY SMTT(20) DEF Place, Idle
  <2> QED BY <2>1 DEF DInit, PlaceInv
<1>2. DownloadInv /\ PlaceInv /\ [MNext]_mvars => PlaceInv' /\ DownloadAdvances
  <2> SUFFICES ASSUME DownloadInv, PlaceInv, [MNext]_mvars, NEW q \in Procs
               PROVE  /\ Place(dl'[q])
                      /\ dl[q].pc # "idle" =>
                           /\ DStep(q) => dl'[q].pc = "idle" \/ Further(dl[q], dl'[q])
                           /\ ~DStep(q) => dl'[q].pc = "idle" \/ dl'[q] = dl[q]
    BY Zenon DEF PlaceInv, DownloadAdvances
  <2> QED BY DStepAdvances, OthersLeaveIt
<1> QED BY <1>1, <1>2, DownloadAlways, PTL DEF MSpec, MInit
=============================================================================
