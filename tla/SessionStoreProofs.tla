------------------------- MODULE SessionStoreProofs -------------------------
(***************************************************************************)
(* For any number of processes, inodes, DCs and keys: the types of         *)
(* SessionStore, and that session.bin is well formed whatever the          *)
(* processes interleave and wherever they die.  When one process writes    *)
(* and any number load: a save that returned 0 is visible, session.bin is  *)
(* never truncated, and SessionStore implements AtomicStore.               *)
(***************************************************************************)
EXTENDS SessionStore, TLAPS

-----------------------------------------------------------------------------
(* What upsert does to the StoreFile struct, for every file, DC and key. *)

\* find_entry returns an index of the DC whenever there is one.  The first
\* such index exists because well-formed files have at most one.
LEMMA FindEntry ==
  ASSUME NEW file \in StoreFile, WellFormed(file), NEW dc, HasEntry(file, dc)
  PROVE  /\ find_entry(file, dc) \in 1 .. Len(file.entries)
         /\ file.entries[find_entry(file, dc)].dc = dc
<1>1. PICK i \in 1 .. Len(file.entries) : file.entries[i].dc = dc
  BY DEF HasEntry
<1>2. \A j \in 1 .. i - 1 : file.entries[j].dc # dc
  BY <1>1 DEF WellFormed, StoreFile
<1> QED BY <1>1, <1>2, Zenon DEF find_entry

\* upsert yields a StoreFile.
LEMMA UpsertedType ==
  ASSUME NEW file \in StoreFile, WellFormed(file),
         NEW dc \in DC, NEW key \in Key, NEW set_home \in BOOLEAN
  PROVE  Upserted(file, dc, key, set_home) \in StoreFile
<1> DEFINE e == populate_entry(dc, key)
<1>1. e \in Entry
  BY DEF populate_entry, Entry
<1>2. ASSUME HasEntry(file, dc)
      PROVE  [file.entries EXCEPT ![find_entry(file, dc)] = e] \in Seq(Entry)
  BY <1>1, <1>2, FindEntry DEF StoreFile
<1>3. Append(file.entries, e) \in Seq(Entry)
  BY <1>1 DEF StoreFile
<1>4. file.home \in DC \cup {0}
  BY DEF StoreFile
<1> QED BY <1>2, <1>3, <1>4 DEF Upserted, StoreFile

\* upsert keeps a file well formed.
LEMMA UpsertedWellFormed ==
  ASSUME NEW file \in StoreFile, WellFormed(file),
         NEW dc \in DC, NEW key \in Key, key.dc = dc, NEW set_home \in BOOLEAN,
         Fits(file, dc)
  PROVE  WellFormed(Upserted(file, dc, key, set_home))
<1> DEFINE e == populate_entry(dc, key)
           new == Upserted(file, dc, key, set_home)
<1>0. /\ e \in Entry /\ e.dc = dc /\ e.key = key
      /\ file.entries \in Seq(Entry) /\ file.home \in DC \cup {0}
      /\ dc # 0 /\ dc \in Int
  BY DCAssumption DEF populate_entry, Entry, StoreFile
<1>1. CASE HasEntry(file, dc)
  <2> DEFINE k == find_entry(file, dc)
  <2>1. k \in 1 .. Len(file.entries) /\ file.entries[k].dc = dc
    BY <1>1, FindEntry
  <2>2. new.entries = [file.entries EXCEPT ![k] = e]
    BY <1>1 DEF Upserted
  <2>3. Len(new.entries) = Len(file.entries) /\ new.entries # << >>
    BY <1>0, <2>1, <2>2
  <2>4. \A i \in 1 .. Len(file.entries) :
          new.entries[i] = IF i = k THEN e ELSE file.entries[i]
    BY <1>0, <2>1, <2>2
  <2>5. \A i \in 1 .. Len(file.entries) : new.entries[i].dc = file.entries[i].dc
    BY <1>0, <2>1, <2>4
  <2>6. new.home # 0 /\ HasEntry(new, new.home)
    <3>1. new.home = dc \/ (new.home = file.home /\ file.home # 0)
      BY DEF Upserted
    <3>2. HasEntry(new, dc)
      BY <2>1, <2>3, <2>5 DEF HasEntry
    <3>3. file.home # 0 => HasEntry(new, file.home)
      BY <2>3, <2>5 DEF HasEntry, WellFormed
    <3> QED BY <1>0, <3>1, <3>2, <3>3
  <2>7. \A i, j \in 1 .. Len(new.entries) :
          new.entries[i].dc = new.entries[j].dc => i = j
    BY <2>3, <2>5 DEF WellFormed
  <2>8. \A i \in 1 .. Len(new.entries) : new.entries[i].key.dc = new.entries[i].dc
    BY <1>0, <2>3, <2>4 DEF WellFormed
  <2> QED BY <2>3, <2>6, <2>7, <2>8 DEF WellFormed
<1>2. CASE ~HasEntry(file, dc)
  <2> DEFINE n == Len(file.entries)
  <2>1. new.entries = Append(file.entries, e)
    BY <1>2 DEF Upserted
  <2>2. /\ n \in Nat /\ n < MaxDcs
        /\ Len(new.entries) = n + 1 /\ new.entries # << >>
    BY <1>0, <1>2, <2>1 DEF Fits
  <2>3. /\ \A i \in 1 .. n : new.entries[i] = file.entries[i]
        /\ new.entries[n + 1] = e
    BY <1>0, <2>1
  <2>4. \A i \in 1 .. n : file.entries[i].dc # dc
    BY <1>2 DEF HasEntry
  <2>5. new.home # 0 /\ HasEntry(new, new.home)
    <3>1. new.home = dc \/ (new.home = file.home /\ file.home # 0)
      BY DEF Upserted
    <3>2. HasEntry(new, dc)
      BY <1>0, <2>2, <2>3 DEF HasEntry
    <3>3. file.home # 0 => HasEntry(new, file.home)
      BY <2>2, <2>3 DEF HasEntry, WellFormed
    <3> QED BY <1>0, <3>1, <3>2, <3>3
  <2>6. \A i, j \in 1 .. Len(new.entries) :
          new.entries[i].dc = new.entries[j].dc => i = j
    <3> SUFFICES ASSUME NEW i \in 1 .. n + 1, NEW j \in 1 .. n + 1,
                        new.entries[i].dc = new.entries[j].dc
                 PROVE  i = j
      BY <2>2
    <3>1. CASE i \in 1 .. n /\ j \in 1 .. n
      BY <2>3, <3>1 DEF WellFormed
    <3>2. CASE i \in 1 .. n /\ j = n + 1
      BY <1>0, <2>3, <2>4, <3>2
    <3>3. CASE i = n + 1 /\ j \in 1 .. n
      BY <1>0, <2>3, <2>4, <3>3
    <3>4. \A h \in 1 .. n + 1 : h \in 1 .. n \/ h = n + 1
      BY <2>2
    <3> QED BY <3>1, <3>2, <3>3, <3>4
  <2>7. \A i \in 1 .. Len(new.entries) : new.entries[i].key.dc = new.entries[i].dc
    <3> SUFFICES ASSUME NEW i \in 1 .. n + 1
                 PROVE  new.entries[i].key.dc = new.entries[i].dc
      BY <2>2
    <3>1. CASE i \in 1 .. n
      BY <2>3, <3>1 DEF WellFormed
    <3>2. CASE i = n + 1
      BY <1>0, <2>3, <3>2
    <3> QED BY <2>2, <3>1, <3>2
  <2>8. Len(new.entries) <= MaxDcs
    BY <2>2, MaxDcsAssumption
  <2> QED BY <2>2, <2>5, <2>6, <2>7, <2>8 DEF WellFormed
<1> QED BY <1>1, <1>2

\* What upsert was called with is what find_entry finds in the new struct.
LEMMA UpsertedFound ==
  ASSUME NEW file \in StoreFile, WellFormed(file),
         NEW dc \in DC, NEW key \in Key, key.dc = dc, NEW set_home \in BOOLEAN,
         Fits(file, dc)
  PROVE  /\ HasEntry(Upserted(file, dc, key, set_home), dc)
         /\ Upserted(file, dc, key, set_home).entries
              [find_entry(Upserted(file, dc, key, set_home), dc)].key = key
<1> DEFINE new == Upserted(file, dc, key, set_home)
<1>1. new \in StoreFile /\ WellFormed(new)
  BY UpsertedType, UpsertedWellFormed
<1>2. \E i \in 1 .. Len(new.entries) : new.entries[i] = populate_entry(dc, key)
  <2>1. file.entries \in Seq(Entry)
    BY DEF StoreFile
  <2>2. CASE HasEntry(file, dc)
    <3>1. find_entry(file, dc) \in 1 .. Len(file.entries)
      BY <2>2, FindEntry
    <3>2. /\ Len(new.entries) = Len(file.entries)
          /\ new.entries[find_entry(file, dc)] = populate_entry(dc, key)
      BY <2>1, <2>2, <3>1 DEF Upserted
    <3> QED BY <3>1, <3>2
  <2>3. CASE ~HasEntry(file, dc)
    <3>1. /\ Len(new.entries) = Len(file.entries) + 1
          /\ new.entries[Len(file.entries) + 1] = populate_entry(dc, key)
      BY <2>1, <2>3 DEF Upserted
    <3> QED BY <2>1, <3>1
  <2> QED BY <2>2, <2>3
<1>3. PICK i \in 1 .. Len(new.entries) : new.entries[i] = populate_entry(dc, key)
  BY <1>2
<1>4. new.entries[i].dc = dc /\ new.entries[i].key = key
  BY <1>3 DEF populate_entry
<1>5. HasEntry(new, dc)
  BY <1>4, Zenon DEF HasEntry
<1>6. /\ find_entry(new, dc) \in 1 .. Len(new.entries)
      /\ new.entries[find_entry(new, dc)].dc = dc
  BY <1>1, <1>5, FindEntry
<1>7. find_entry(new, dc) = i
  <2>1. \A j, k \in 1 .. Len(new.entries) :
          new.entries[j].dc = new.entries[k].dc => j = k
    BY <1>1 DEF WellFormed
  <2> HIDE DEF new
  <2> QED BY <1>3, <1>4, <1>6, <2>1, Zenon
<1> QED BY <1>4, <1>5, <1>7

-----------------------------------------------------------------------------
(***************************************************************************)
(* The invariant.                                                          *)
(***************************************************************************)
Inv == TypeOK /\ AllWellFormed

LEMMA EmptyFileFacts ==
  /\ EmptyFile \in StoreFile
  /\ WellFormed(EmptyFile)
  /\ NoBytes \in Content
  /\ NoBytes.file = EmptyFile
  /\ NoOp \in Op
<1>1. EmptyFile \in StoreFile
  BY DEF EmptyFile, StoreFile
<1>2. WellFormed(EmptyFile)
  BY MaxDcsAssumption DEF EmptyFile, WellFormed, HasEntry
<1>3. NoBytes \in Content /\ NoBytes.file = EmptyFile
  BY <1>1 DEF NoBytes, Bytes, Content, Version
<1>4. NoOp \in Op
  BY DEF NoOp, Op
<1> QED BY <1>1, <1>2, <1>3, <1>4

\* Bytes that are kept are bytes that were there, or none.
LEMMA KeepFacts ==
  ASSUME NEW bytes \in [Inode -> Content], Keep(bytes),
         \A i \in Inode : WellFormed(bytes[i].file)
  PROVE  /\ data' \in [Inode -> Content]
         /\ \A i \in Inode : WellFormed(data'[i].file)
BY EmptyFileFacts DEF Keep

\* What read_file_locked leaves in st is a well-formed StoreFile.
LEMMA ReadFacts ==
  ASSUME Inv, NEW p \in Proc
  PROVE  Read(p) \in StoreFile /\ WellFormed(Read(p))
<1>1. CASE io_fd[p] = None
  BY <1>1, EmptyFileFacts DEF Read
<1>2. CASE io_fd[p] # None
  <2>1. io_fd[p] \in Inode
    BY <1>2 DEF Inv, TypeOK
  <2>2. data[io_fd[p]] \in Content /\ WellFormed(data[io_fd[p]].file)
    BY <2>1 DEF Inv, TypeOK, AllWellFormed
  <2> QED BY <1>2, <2>2, EmptyFileFacts DEF Read, Parse, Content
<1> QED BY <1>1, <1>2

LEMMA InitInv == Init => Inv
<1> SUFFICES ASSUME Init PROVE Inv
  OBVIOUS
<1>1. /\ dir \in [Name -> Inode \cup {None}]
      /\ data \in [Inode -> Content]
      /\ \A i \in Inode : WellFormed(data[i].file)
  <2>1. CASE /\ dir = [session |-> None, tmp |-> None]
             /\ data = [i \in Inode |-> NoBytes]
    BY <2>1, EmptyFileFacts DEF Name
  <2>2. ASSUME NEW c \in FirstFile, NEW i \in Inode,
               dir = [session |-> i, tmp |-> None],
               data = [j \in Inode |-> IF j = i THEN c ELSE NoBytes]
        PROVE  /\ dir \in [Name -> Inode \cup {None}]
               /\ data \in [Inode -> Content]
               /\ \A j \in Inode : WellFormed(data[j].file)
    BY <2>2, EmptyFileFacts, FirstFileAssumption DEF Name
  <2> QED BY <2>1, <2>2 DEF Init
<1>2. TypeOK
  BY <1>1, EmptyFileFacts DEF Init, TypeOK, Step
<1>3. AllWellFormed
  BY <1>1, EmptyFileFacts DEF Init, AllWellFormed, NoOp
<1> QED BY <1>2, <1>3 DEF Inv

LEMMA LeaveInv ==
  ASSUME Inv, NEW p \in Proc, Leave(p)
  PROVE  Inv'
<1>1. /\ data' \in [Inode -> Content]
      /\ \A i \in Inode : WellFormed(data'[i].file)
  BY KeepFacts DEF Leave, Inv, TypeOK, AllWellFormed
<1>2. TypeOK'
  BY <1>1, EmptyFileFacts DEF Leave, Inv, TypeOK, Step
<1>3. AllWellFormed'
  BY <1>1, EmptyFileFacts DEF Leave, Inv, TypeOK, AllWellFormed, NoOp
<1> QED BY <1>2, <1>3 DEF Inv

LEMMA OpenLockFileInv ==
  ASSUME Inv, NEW p \in Proc, NEW call \in Op,
         call.kind = "upsert" => call.key.dc = call.dc,
         OpenLockFile(p, call)
  PROVE  Inv'
<1>1. /\ dir' \in [Name -> Inode \cup {None}]
      /\ lock_fd' \in [Proc -> Inode \cup {None}]
      /\ data' \in [Inode -> Content]
      /\ \A i \in Inode : WellFormed(data'[i].file)
  BY EmptyFileFacts DEF OpenLockFile, Inv, TypeOK, AllWellFormed, Name
<1>2. TypeOK'
  BY <1>1 DEF OpenLockFile, Inv, TypeOK, Step
<1>3. AllWellFormed'
  BY <1>1 DEF OpenLockFile, Inv, TypeOK, AllWellFormed
<1> QED BY <1>2, <1>3 DEF Inv

LEMMA NextInv == Inv /\ [Next]_vars => Inv'
<1> SUFFICES ASSUME Inv, [Next]_vars PROVE Inv'
  OBVIOUS
<1>1. ASSUME NEW p \in Proc, load(p) PROVE Inv'
  <2>1. PICK dc \in DC \cup {0} : OpenLockFile(p, [kind |-> "load", dc |-> dc])
    BY <1>1 DEF load
  <2> QED BY <2>1, OpenLockFileInv DEF Op
<1>2. ASSUME NEW p \in Writer, upsert(p) PROVE Inv'
  <2>1. PICK key \in Key, set_home \in BOOLEAN :
          OpenLockFile(p, [kind |-> "upsert", dc |-> key.dc, key |-> key,
                           set_home |-> set_home])
    BY <1>2 DEF upsert
  <2>2. p \in Proc /\ key.dc \in DC
    BY WriterAssumption, KeyAssumption
  <2> QED BY <2>1, <2>2, OpenLockFileInv DEF Op
<1>3. ASSUME NEW p \in Cleaner, Clear(p) PROVE Inv'
  <2>1. /\ data' \in [Inode -> Content]
        /\ \A i \in Inode : WellFormed(data'[i].file)
    BY <1>3, KeepFacts DEF Clear, Inv, TypeOK, AllWellFormed
  <2>2. TypeOK'
    BY <1>3, <2>1 DEF Clear, Inv, TypeOK, Name
  <2>3. AllWellFormed'
    BY <1>3, <2>1 DEF Clear, Inv, TypeOK, AllWellFormed
  <2> QED BY <2>2, <2>3 DEF Inv
<1>4. ASSUME NEW p \in Proc, Crash(p) PROVE Inv'
  BY <1>4, LeaveInv DEF Crash
<1>5. ASSUME NEW p \in Proc, FlockBusy(p) \/ Unlock(p) PROVE Inv'
  BY <1>5, LeaveInv DEF FlockBusy, Unlock
<1>6. ASSUME NEW p \in Proc, Flock(p) PROVE Inv'
  BY <1>6 DEF Flock, LockMode, Inv, TypeOK, AllWellFormed, Step
<1>7. ASSUME NEW p \in Proc, Fopen(p) PROVE Inv'
  BY <1>7 DEF Fopen, Inv, TypeOK, AllWellFormed, Step, Name
<1>8. ASSUME NEW p \in Proc, ReadLoad(p) PROVE Inv'
  <2>1. /\ data' \in [Inode -> Content]
        /\ \A i \in Inode : WellFormed(data'[i].file)
    BY <1>8, KeepFacts DEF ReadLoad, Inv, TypeOK, AllWellFormed
  <2>2. TypeOK'
    BY <1>8, <2>1, ReadFacts DEF ReadLoad, Inv, TypeOK, Step
  <2>3. AllWellFormed'
    BY <1>8, <2>1, ReadFacts DEF ReadLoad, Inv, TypeOK, AllWellFormed
  <2> QED BY <2>2, <2>3 DEF Inv
<1>9. ASSUME NEW p \in Proc, ReadModify(p) PROVE Inv'
  <2>1. /\ data' \in [Inode -> Content]
        /\ \A i \in Inode : WellFormed(data'[i].file)
    BY <1>9, KeepFacts DEF ReadModify, Inv, TypeOK, AllWellFormed
  <2>2. /\ op[p].dc \in DC /\ op[p].key \in Key /\ op[p].set_home \in BOOLEAN
        /\ op[p].key.dc = op[p].dc
    BY <1>9 DEF ReadModify, Inv, TypeOK, AllWellFormed, Op
  <2>3. st'[p] \in StoreFile /\ WellFormed(st'[p])
    BY <1>9, <2>2, ReadFacts, UpsertedType, UpsertedWellFormed
    DEF ReadModify, Inv, TypeOK
  <2>4. st' = [st EXCEPT ![p] = st'[p]]
    BY <1>9 DEF ReadModify, Inv, TypeOK
  <2>5. TypeOK'
    BY <1>9, <2>1, <2>3, <2>4 DEF ReadModify, Inv, TypeOK, Step
  <2>6. AllWellFormed'
    BY <1>9, <2>1, <2>3, <2>4 DEF ReadModify, Inv, TypeOK, AllWellFormed
  <2> QED BY <2>5, <2>6 DEF Inv
<1>10. ASSUME NEW p \in Proc, OpenTmp(p) PROVE Inv'
  <2>1. /\ dir' \in [Name -> Inode \cup {None}]
        /\ io_fd' \in [Proc -> Inode \cup {None}]
        /\ data' \in [Inode -> Content]
        /\ \A i \in Inode : WellFormed(data'[i].file)
    BY <1>10, EmptyFileFacts DEF OpenTmp, Inv, TypeOK, AllWellFormed, Name
  <2>2. TypeOK'
    BY <1>10, <2>1 DEF OpenTmp, Inv, TypeOK, Step
  <2>3. AllWellFormed'
    BY <1>10, <2>1 DEF OpenTmp, Inv, TypeOK, AllWellFormed
  <2> QED BY <2>2, <2>3 DEF Inv
<1>11. ASSUME NEW p \in Proc, WriteTmp(p) PROVE Inv'
  <2> DEFINE full == [data EXCEPT ![io_fd[p]] = Bytes("v2", st[p])]
             none == [data EXCEPT ![io_fd[p]] = NoBytes]
  <2>1. /\ full \in [Inode -> Content]
        /\ \A i \in Inode : WellFormed(full[i].file)
    BY Zenon DEF Inv, TypeOK, AllWellFormed, Bytes, Content, Version
  <2>2. /\ none \in [Inode -> Content]
        /\ \A i \in Inode : WellFormed(none[i].file)
    BY EmptyFileFacts, Zenon DEF Inv, TypeOK, AllWellFormed
  <2>3. /\ data' \in [Inode -> Content]
        /\ \A i \in Inode : WellFormed(data'[i].file)
    <3>1. Keep(full) \/ Keep(none)
      BY <1>11 DEF WriteTmp
    <3> QED BY <2>1, <2>2, <3>1, KeepFacts, Zenon
  <2>4. TypeOK'
    BY <1>11, <2>3 DEF WriteTmp, Inv, TypeOK, Step
  <2>5. AllWellFormed'
    BY <1>11, <2>3 DEF WriteTmp, Inv, TypeOK, AllWellFormed
  <2> QED BY <2>4, <2>5 DEF Inv
<1>12. ASSUME NEW p \in Proc, Rename(p) \/ UnlinkTmp(p) PROVE Inv'
  <2>1. /\ data' \in [Inode -> Content]
        /\ \A i \in Inode : WellFormed(data'[i].file)
    BY <1>12, KeepFacts DEF Rename, UnlinkTmp, Inv, TypeOK, AllWellFormed
  <2>2. TypeOK'
    BY <1>12, <2>1 DEF Rename, UnlinkTmp, Inv, TypeOK, Step, Name
  <2>3. AllWellFormed'
    BY <1>12, <2>1 DEF Rename, UnlinkTmp, Inv, TypeOK, AllWellFormed
  <2> QED BY <2>2, <2>3 DEF Inv
<1>13. ASSUME UNCHANGED vars PROVE Inv'
  BY <1>13 DEF vars, Inv, TypeOK, AllWellFormed
<1> QED
  BY <1>1, <1>2, <1>3, <1>4, <1>5, <1>6, <1>7, <1>8, <1>9, <1>10, <1>11, <1>12, <1>13
  DEF Next, Internal

\* The variables of the model keep their types.
THEOREM Typing == Spec => []TypeOK
<1>1. Inv => TypeOK
  BY DEF Inv
<1> QED BY <1>1, InitInv, NextInv, PTL DEF Spec

\* The file of every inode and the struct of every running call of
\* session_store.c is well formed, the ones that a later rename turns into
\* session.bin included.
THEOREM EveryFileWellFormed == Spec => []AllWellFormed
<1>1. Inv => AllWellFormed
  BY DEF Inv
<1> QED BY <1>1, InitInv, NextInv, PTL DEF Spec

\* What session.bin parses to is a well-formed StoreFile.
LEMMA StoredType ==
  ASSUME Inv
  PROVE  Stored \in StoreFile /\ WellFormed(Stored)
<1>1. CASE dir["session"] = None
  <2>1. Stored = EmptyFile
    BY <1>1 DEF Stored, SessionBytes, Parse, NoBytes, Bytes
  <2> QED BY <2>1, EmptyFileFacts
<1>2. CASE dir["session"] # None
  <2>1. dir["session"] \in Inode
    BY <1>2 DEF Inv, TypeOK, Name
  <2>2. data[dir["session"]] \in Content /\ WellFormed(data[dir["session"]].file)
    BY <2>1 DEF Inv, TypeOK, AllWellFormed
  <2> QED BY <1>2, <2>2, EmptyFileFacts DEF Stored, SessionBytes, Parse, Content
<1> QED BY <1>1, <1>2

\* Any number of processes, any interleaving, any crash: session.bin has one
\* entry per DC, within the table, with a key of that DC, and its home DC is
\* among them.
THEOREM StoreAlwaysWellFormed == Spec => []StoreWellFormed
<1>1. Inv => StoreWellFormed
  BY StoredType DEF StoreWellFormed
<1> QED BY <1>1, InitInv, NextInv, PTL DEF Spec

-----------------------------------------------------------------------------
(***************************************************************************)
(* One writer.                                                             *)
(***************************************************************************)
\* Process q is left alone by a step of another process.
Untouched(q) ==
  /\ pc'[q] = pc[q] /\ op'[q] = op[q] /\ st'[q] = st[q] /\ io_fd'[q] = io_fd[q]
  /\ pc[q] = "reading" => Read(q)' = Read(q)

\* Keep keeps the bytes of a file that has a name or is being read.
LEMMA KeepNamed ==
  ASSUME Inv, NEW bytes, Keep(bytes), NEW i \in Inode,
         (\E n \in Name : dir'[n] = i) \/ (\E q \in Proc : io_fd'[q] = i)
  PROVE  data'[i] = bytes[i]
BY DEF Keep, Unreachable

\* In particular those of a file that keeps its name, or its reader.
LEMMA KeepName ==
  ASSUME Inv, Keep(data), NEW n \in Name, dir'[n] = dir[n]
  PROVE  dir[n] # None => data'[dir[n]] = data[dir[n]]
BY KeepNamed DEF Inv, TypeOK

LEMMA KeepOpen ==
  ASSUME Inv, Keep(data), NEW q \in Proc, io_fd'[q] = io_fd[q]
  PROVE  io_fd[q] # None => data'[io_fd[q]] = data[io_fd[q]]
BY KeepNamed DEF Inv, TypeOK

\* A step that leaves both names and the bytes behind them alone.
LEMMA StoredKept ==
  ASSUME dir'["session"] = dir["session"],
         dir["session"] # None => data'[dir["session"]] = data[dir["session"]]
  PROVE  SessionBytes' = SessionBytes /\ Stored' = Stored
BY DEF Stored, SessionBytes

LEMMA ReadKept ==
  ASSUME NEW q \in Proc, io_fd'[q] = io_fd[q],
         io_fd[q] # None => data'[io_fd[q]] = data[io_fd[q]]
  PROVE  Read(q)' = Read(q)
BY DEF Read

\* A call that returns, or a process that dies, changes no file.
LEMMA LeaveFrame ==
  ASSUME Inv, NEW p \in Proc, Leave(p)
  PROVE  /\ SessionBytes' = SessionBytes /\ Stored' = Stored
         /\ \A q \in Proc \ {p} : Untouched(q)
<1>1. dir["session"] # None => data'[dir["session"]] = data[dir["session"]]
  BY KeepNamed DEF Leave, Inv, TypeOK, Name
<1>2. SessionBytes' = SessionBytes /\ Stored' = Stored
  BY <1>1, StoredKept DEF Leave
<1>3. ASSUME NEW q \in Proc \ {p} PROVE Untouched(q)
  <2>1. /\ pc'[q] = pc[q] /\ op'[q] = op[q] /\ st'[q] = st[q]
        /\ io_fd'[q] = io_fd[q]
    BY DEF Leave, Inv, TypeOK
  <2>2. io_fd[q] # None => data'[io_fd[q]] = data[io_fd[q]]
    BY <2>1, KeepNamed DEF Leave, Inv, TypeOK
  <2> QED BY <2>1, <2>2, ReadKept DEF Untouched
<1> QED BY <1>2, <1>3

\* Opening the lock file may create an empty session.bin, which parses like
\* an absent one.
LEMMA OpenLockFrame ==
  ASSUME Inv, NEW p \in Proc, NEW call \in Op, OpenLockFile(p, call)
  PROVE  /\ Stored' = Stored /\ (SessionBytes' = SessionBytes \/ SessionBytes = NoBytes)
         /\ \A q \in Proc \ {p} : Untouched(q)
<1>1. Stored' = Stored /\ (SessionBytes' = SessionBytes \/ SessionBytes = NoBytes)
  <2>1. CASE dir["session"] # None
    BY <2>1, StoredKept DEF OpenLockFile
  <2>2. CASE dir["session"] = None
    <3>1. PICK i \in Inode : /\ dir' = [dir EXCEPT !["session"] = i]
                             /\ data' = [data EXCEPT ![i] = NoBytes]
      BY <2>2 DEF OpenLockFile
    <3>2. SessionBytes' = NoBytes
      BY <3>1, NoneAssumption DEF SessionBytes, Inv, TypeOK, Name
    <3>3. SessionBytes = NoBytes
      BY <2>2 DEF SessionBytes
    <3> QED BY <3>2, <3>3 DEF Stored
  <2> QED BY <2>1, <2>2
<1>2. ASSUME NEW q \in Proc \ {p} PROVE Untouched(q)
  <2>1. /\ pc'[q] = pc[q] /\ op'[q] = op[q] /\ st'[q] = st[q]
        /\ io_fd'[q] = io_fd[q]
    BY DEF OpenLockFile, Inv, TypeOK
  <2>2. io_fd[q] # None => data'[io_fd[q]] = data[io_fd[q]]
    BY DEF OpenLockFile, Inv, TypeOK, Free, Unreachable
  <2> QED BY <2>1, <2>2, ReadKept DEF Untouched
<1> QED BY <1>1, <1>2

\* Locking, reading and unlinking leave session.bin and every other process
\* alone.
LEMMA LightFrame ==
  ASSUME Inv, NEW p \in Proc,
         Flock(p) \/ Fopen(p) \/ ReadLoad(p) \/ ReadModify(p) \/ UnlinkTmp(p)
  PROVE  /\ SessionBytes' = SessionBytes /\ Stored' = Stored
         /\ \A q \in Proc \ {p} : Untouched(q)
<1>1. CASE Flock(p) \/ Fopen(p)
  BY <1>1, StoredKept, ReadKept DEF Flock, Fopen, Inv, TypeOK, Untouched
<1>2. CASE ReadLoad(p) \/ ReadModify(p) \/ UnlinkTmp(p)
  <2>0. Keep(data)
    BY <1>2 DEF ReadLoad, ReadModify, UnlinkTmp
  <2>1. dir'["session"] = dir["session"]
    BY <1>2, SMTT(20) DEF ReadLoad, ReadModify, UnlinkTmp, Inv, TypeOK, Name
  <2>2. SessionBytes' = SessionBytes /\ Stored' = Stored
    BY <2>0, <2>1, KeepName, StoredKept DEF Name
  <2>3. ASSUME NEW q \in Proc \ {p} PROVE Untouched(q)
    <3>1. /\ pc'[q] = pc[q] /\ op'[q] = op[q] /\ st'[q] = st[q]
          /\ io_fd'[q] = io_fd[q]
      BY <1>2, SMTT(20) DEF ReadLoad, ReadModify, UnlinkTmp, Inv, TypeOK
    <3>2. io_fd[q] # None => data'[io_fd[q]] = data[io_fd[q]]
      BY <2>0, <3>1, KeepOpen
    <3> QED BY <3>1, <3>2, ReadKept DEF Untouched
  <2> QED BY <2>2, <2>3, SMTT(60)
<1> QED BY <1>1, <1>2

\* So do opening and writing the temporary file, for every process that is
\* not itself writing it.
LEMMA TmpFrame ==
  ASSUME Inv, OneWriterInv, NEW p \in Proc,
         OpenTmp(p) \/ (WriteTmp(p) /\ p \in Writer)
  PROVE  /\ SessionBytes' = SessionBytes /\ Stored' = Stored
         /\ \A q \in Proc \ {p} : pc[q] # "write" => Untouched(q)
<1>1. CASE OpenTmp(p)
  <2>1. CASE UNCHANGED <<dir, data, io_fd>>
    BY <1>1, <2>1, StoredKept, ReadKept DEF OpenTmp, Inv, TypeOK, Untouched
  <2>2. CASE \E i \in Inode :
               /\ IF dir["tmp"] = None THEN Free(i) ELSE i = dir["tmp"]
               /\ dir' = [dir EXCEPT !["tmp"] = i]
               /\ data' = [data EXCEPT ![i] = NoBytes]
               /\ io_fd' = [io_fd EXCEPT ![p] = i]
    <3>1. PICK i \in Inode :
               /\ IF dir["tmp"] = None THEN Free(i) ELSE i = dir["tmp"]
               /\ dir' = [dir EXCEPT !["tmp"] = i]
               /\ data' = [data EXCEPT ![i] = NoBytes]
               /\ io_fd' = [io_fd EXCEPT ![p] = i]
      BY <2>2, Zenon
    <3>2. dir["session"] # i
      BY <3>1 DEF OneWriterInv, Free, Unreachable, Name
    <3>3. SessionBytes' = SessionBytes /\ Stored' = Stored
      BY <3>1, <3>2, StoredKept DEF Inv, TypeOK, Name
    <3>4. ASSUME NEW q \in Proc \ {p}, pc[q] # "write" PROVE Untouched(q)
      <4>1. /\ pc'[q] = pc[q] /\ op'[q] = op[q] /\ st'[q] = st[q]
            /\ io_fd'[q] = io_fd[q]
        BY <1>1, <3>1 DEF OpenTmp, Inv, TypeOK
      <4>2. io_fd[q] # None => io_fd[q] # i
        BY <3>1, <3>4, NoneAssumption DEF OneWriterInv, Free, Unreachable, Inv, TypeOK
      <4>3. io_fd[q] # None => data'[io_fd[q]] = data[io_fd[q]]
        BY <3>1, <4>2 DEF Inv, TypeOK
      <4> QED BY <4>1, <4>3, ReadKept DEF Untouched
    <3> QED BY <3>3, <3>4
  <2> QED BY <1>1, <2>1, <2>2 DEF OpenTmp
<1>2. CASE WriteTmp(p) /\ p \in Writer
  <2>1. /\ io_fd[p] \in Inode /\ io_fd[p] = dir["tmp"] /\ dir["tmp"] # dir["session"]
        /\ dir' = dir
    BY <1>2 DEF WriteTmp, OneWriterInv, Inv, TypeOK
  <2>2. PICK new : Keep([data EXCEPT ![io_fd[p]] = new])
    BY <1>2, Zenon DEF WriteTmp
  <2>3. \A i \in Inode \ {io_fd[p]} :
          ((\E n \in Name : dir'[n] = i) \/ (\E q \in Proc : io_fd'[q] = i))
            => data'[i] = data[i]
    <3> DEFINE bytes == [data EXCEPT ![io_fd[p]] = new]
    <3> SUFFICES ASSUME NEW i \in Inode \ {io_fd[p]},
                        (\E n \in Name : dir'[n] = i) \/ (\E q \in Proc : io_fd'[q] = i)
                 PROVE  data'[i] = data[i]
      OBVIOUS
    <3>1. data'[i] = bytes[i]
      BY <2>2, KeepNamed, ZenonT(60)
    <3>2. bytes[i] = data[i]
      BY DEF Inv, TypeOK
    <3> QED BY <3>1, <3>2
  <2>4. dir["session"] # None => data'[dir["session"]] = data[dir["session"]]
    BY <2>1, <2>3 DEF Inv, TypeOK, Name
  <2>5. SessionBytes' = SessionBytes /\ Stored' = Stored
    BY <2>1, <2>4, StoredKept
  <2>6. ASSUME NEW q \in Proc \ {p}, pc[q] # "write" PROVE Untouched(q)
    <3>1. /\ pc'[q] = pc[q] /\ op'[q] = op[q] /\ st'[q] = st[q]
          /\ io_fd'[q] = io_fd[q]
      BY <1>2 DEF WriteTmp, Inv, TypeOK
    <3>2. io_fd[q] # None => io_fd[q] # io_fd[p]
      BY <2>1, <2>6 DEF OneWriterInv
    <3>3. io_fd[q] # None => data'[io_fd[q]] = data[io_fd[q]]
      BY <2>3, <3>1, <3>2 DEF Inv, TypeOK
    <3> QED BY <3>1, <3>3, ReadKept DEF Untouched
  <2> QED BY <2>5, <2>6
<1> QED BY <1>1, <1>2

\* A rename that succeeds makes the writer's new struct the stored one; one
\* that fails changes nothing.
LEMMA RenameFrame ==
  ASSUME Inv, OneWriterInv, NEW p \in Writer, Rename(p)
  PROVE  /\ \/ /\ SessionBytes' = Bytes("v2", st[p]) /\ Stored' = Target(p)
               /\ pc'[p] = "unlock"
               /\ dir' = [session |-> dir["tmp"], tmp |-> None]
            \/ /\ SessionBytes' = SessionBytes /\ Stored' = Stored
               /\ pc'[p] = "unlink_tmp"
               /\ dir' = dir
         /\ \A q \in Proc \ {p} : Untouched(q)
<1>0. p \in Proc
  BY WriterAssumption, SMTT(60)
<1>1. /\ dir["tmp"] \in Inode /\ data[dir["tmp"]] = Bytes("v2", st[p])
      /\ st[p] = Target(p)
  BY <1>0, SMTT(60) DEF Rename, OneWriterInv, Inv, TypeOK, Name
<1>2. ASSUME NEW q \in Proc \ {p} PROVE Untouched(q)
  <2>1. /\ pc'[q] = pc[q] /\ op'[q] = op[q] /\ st'[q] = st[q]
        /\ io_fd'[q] = io_fd[q]
    BY <1>0 DEF Rename, Inv, TypeOK
  <2>2. io_fd[q] # None => data'[io_fd[q]] = data[io_fd[q]]
    BY <2>1, KeepNamed, SMTT(60) DEF Rename, Inv, TypeOK
  <2> QED BY <2>1, <2>2, ReadKept, SMTT(60) DEF Untouched
<1>3. CASE dir' = [session |-> dir["tmp"], tmp |-> None]
           /\ pc' = [pc EXCEPT ![p] = "unlock"]
  <2>1. data'[dir["tmp"]] = data[dir["tmp"]]
    BY <1>1, <1>3, KeepNamed DEF Rename, Name
  <2>2. SessionBytes' = Bytes("v2", st[p])
    BY <1>1, <1>3, <2>1, NoneAssumption DEF SessionBytes
  <2>3. Stored' = Target(p)
    BY <1>1, <2>2, SMTT(60) DEF Stored, Parse, Readable, Bytes
  <2> QED BY <1>0, <1>2, <1>3, <2>2, <2>3 DEF Inv, TypeOK
<1>4. CASE dir' = dir /\ pc' = [pc EXCEPT ![p] = "unlink_tmp"]
  <2>1. dir["session"] # None => data'[dir["session"]] = data[dir["session"]]
    BY <1>4, KeepNamed DEF Rename, Inv, TypeOK, Name
  <2> QED BY <1>0, <1>2, <1>4, <2>1, StoredKept, SMTT(60) DEF Inv, TypeOK
<1>5. \/ dir' = [session |-> dir["tmp"], tmp |-> None] /\ pc' = [pc EXCEPT ![p] = "unlock"]
      \/ dir' = dir /\ pc' = [pc EXCEPT ![p] = "unlink_tmp"]
  BY DEF Rename
<1> QED BY <1>3, <1>4, <1>5

LEMMA ClearFrame ==
  ASSUME Inv, NEW p \in Proc, Clear(p)
  PROVE  /\ Stored' = EmptyFile
         /\ \A q \in Proc : Untouched(q)
<1>1. Stored' = EmptyFile
  BY EmptyFileFacts, SMTT(60)
       DEF Clear, Stored, SessionBytes, Parse, NoBytes, Bytes, Readable,
     Inv, TypeOK, Name
<1>2. ASSUME NEW q \in Proc PROVE Untouched(q)
  <2>1. /\ pc'[q] = pc[q] /\ op'[q] = op[q] /\ st'[q] = st[q]
        /\ io_fd'[q] = io_fd[q]
    BY SMTT(60) DEF Clear
  <2>2. io_fd[q] # None => data'[io_fd[q]] = data[io_fd[q]]
    BY <2>1, KeepNamed DEF Clear, Inv, TypeOK
  <2> QED BY <2>1, <2>2, ReadKept, SMTT(60) DEF Untouched
<1> QED BY <1>1, <1>2

-----------------------------------------------------------------------------
(***************************************************************************)
(* OneWriterInv is inductive when one process writes.                      *)
(***************************************************************************)
LEMMA OneWriterInit == Init => OneWriterInv
<1> SUFFICES ASSUME Init PROVE OneWriterInv
  OBVIOUS
<1>1. dir["tmp"] = None
  BY SMTT(60) DEF Init
<1>2. /\ \A p \in Proc : pc[p] = "idle" /\ op[p] = NoOp /\ io_fd[p] = None
  BY DEF Init
<1> QED BY <1>1, <1>2, WriterAssumption DEF OneWriterInv, NoOp

\* session_store_load and the two saving calls open the lock file for a call
\* of theirs, and an upsert in progress has a key of its DC.
LEMMA CallOpens ==
  /\ \A p \in Proc : load(p) => \E call \in Op : call.kind = "load" /\ OpenLockFile(p, call)
  /\ \A p \in Writer : upsert(p) => p \in Proc /\ \E call \in Op : OpenLockFile(p, call)
<1>1. ASSUME NEW p \in Proc, load(p)
      PROVE  \E call \in Op : call.kind = "load" /\ OpenLockFile(p, call)
  <2>1. PICK dc \in DC \cup {0} : OpenLockFile(p, [kind |-> "load", dc |-> dc])
    BY <1>1, Zenon DEF load
  <2>2. [kind |-> "load", dc |-> dc] \in Op /\ [kind |-> "load", dc |-> dc].kind = "load"
    BY SMTT(60) DEF Op
  <2> QED BY <2>1, <2>2, Zenon
<1>2. ASSUME NEW p \in Writer, upsert(p)
      PROVE  p \in Proc /\ \E call \in Op : OpenLockFile(p, call)
  <2>1. PICK key \in Key, set_home \in BOOLEAN :
          OpenLockFile(p, [kind |-> "upsert", dc |-> key.dc, key |-> key,
                           set_home |-> set_home])
    BY <1>2, Zenon DEF upsert
  <2>2. p \in Proc /\ key.dc \in DC
    BY WriterAssumption, KeyAssumption, SMTT(60)
  <2>3. [kind |-> "upsert", dc |-> key.dc, key |-> key, set_home |-> set_home] \in Op
    BY <2>2, SMTT(60) DEF Op
  <2> QED BY <2>1, <2>2, <2>3, Zenon
<1> QED BY <1>1, <1>2, Zenon

LEMMA UpsertOp ==
  ASSUME Inv, NEW p \in Proc, op[p].kind = "upsert"
  PROVE  op[p].key \in Key /\ op[p].set_home \in BOOLEAN /\ op[p].dc = op[p].key.dc
<1>1. op[p] \in Op
  BY Zenon DEF Inv, TypeOK
<1>2. op[p].dc = op[p].key.dc
  BY SMTT(60) DEF Inv, AllWellFormed
<1> QED BY <1>1, <1>2, SMTT(60) DEF Op

\* What OneWriterInv says of one process.
ProcInv(p) ==
  /\ io_fd[p] # None => pc[p] \in {"reading", "write"}
  /\ pc[p] \in {"open_tmp", "write", "rename", "unlink_tmp"} => op[p].kind = "upsert"
  /\ p \notin Writer => op[p].kind = "load"
  /\ dir["tmp"] # None /\ pc[p] = "reading" => io_fd[p] # dir["tmp"]
  /\ p \in Writer =>
       /\ pc[p] = "reading" => Read(p) = Stored
       /\ pc[p] \in {"open_tmp", "write", "rename"} =>
            Fits(Stored, op[p].dc) /\ st[p] = Target(p)
       /\ pc[p] = "write" => io_fd[p] # None /\ io_fd[p] = dir["tmp"]
       /\ pc[p] = "rename" =>
            dir["tmp"] # None /\ data[dir["tmp"]] = Bytes("v2", st[p])

TmpInv == dir["tmp"] # None => dir["tmp"] # dir["session"]

LEMMA OneWriterByProc == OneWriterInv <=> TmpInv /\ \A p \in Proc : ProcInv(p)
BY WriterAssumption DEF OneWriterInv, TmpInv, ProcInv

LEMMA OneWriterByProcNext == TmpInv' /\ (\A p \in Proc : ProcInv(p)') => OneWriterInv'
BY WriterAssumption, SMTT(60) DEF OneWriterInv, TmpInv, ProcInv

\* A reader keeps its part of the invariant over a step of another process
\* that leaves it alone and does not turn its file into the temporary one.
LEMMA ReaderUntouched ==
  ASSUME NEW q \in Proc \ Writer, ProcInv(q), Untouched(q),
         dir'["tmp"] # None /\ pc[q] = "reading" => io_fd[q] # dir'["tmp"]
  PROVE  ProcInv(q)'
BY SMTT(60) DEF ProcInv, Untouched

\* The writer keeps its part over a step of a reader.
LEMMA WriterUntouched ==
  ASSUME NEW q \in Writer, ProcInv(q), Untouched(q), Stored' = Stored,
         dir'["tmp"] = dir["tmp"],
         dir["tmp"] # None => data'[dir["tmp"]] = data[dir["tmp"]]
  PROVE  ProcInv(q)'
BY ZenonT(60) DEF ProcInv, Untouched, Target

\* With one writer, the invariant survives a step of process p that changes
\* neither session.bin nor the temporary file.
LEMMA QuietStep ==
  ASSUME NEW w, Writer = {w}, Inv, OneWriterInv, NEW p \in Proc,
         Stored' = Stored, \A q \in Proc \ {p} : Untouched(q),
         TmpInv', dir'["tmp"] = dir["tmp"],
         dir["tmp"] # None => data'[dir["tmp"]] = data[dir["tmp"]],
         ProcInv(p)'
  PROVE  OneWriterInv'
<1>1. ASSUME NEW q \in Proc \ {p} PROVE ProcInv(q)'
  <2>1. ProcInv(q)
    BY OneWriterByProc
  <2>2. CASE q \in Writer
    BY <2>1, <2>2, WriterUntouched, SMTT(60)
  <2>3. CASE q \notin Writer
    BY <2>1, <2>3, ReaderUntouched, Zenon DEF ProcInv
  <2> QED BY <2>2, <2>3
<1> QED BY <1>1, OneWriterByProcNext

LEMMA OneWriterNext ==
  ASSUME NEW w, Writer = {w}, Cleaner \subseteq Writer,
         Inv, OneWriterInv, [Next]_vars
  PROVE  OneWriterInv'
<1>0. TmpInv /\ \A p \in Proc : ProcInv(p)
  BY OneWriterByProc, SMTT(60)
<1>w. \A p \in Writer : \A q \in Proc \ {p} : q \notin Writer /\ pc[q] # "write"
  <2>1. \A q \in Proc : q \notin Writer => pc[q] # "write"
    BY <1>0, SMTT(60) DEF ProcInv
  <2> QED BY <2>1, Zenon
<1>1. ASSUME NEW p \in Proc, NEW call \in Op, OpenLockFile(p, call),
             p \notin Writer => call.kind = "load"
      PROVE  OneWriterInv'
  <2>1. TmpInv' /\ dir'["tmp"] = dir["tmp"]
    BY <1>0, <1>1 DEF TmpInv, OpenLockFile, Inv, TypeOK, Name, Free, Unreachable
  <2>2. dir["tmp"] # None => data'[dir["tmp"]] = data[dir["tmp"]]
    BY <1>1 DEF OpenLockFile, Inv, TypeOK, Name, Free, Unreachable
  <2>3. pc'[p] = "opened" /\ op'[p] = call /\ io_fd'[p] = None
    BY <1>0, <1>1, SMTT(60) DEF OpenLockFile, Inv, TypeOK, ProcInv
  <2>4. ProcInv(p)'
    BY <1>1, <2>3, ZenonT(60) DEF ProcInv
  <2> QED BY <1>1, <2>1, <2>2, <2>4, OpenLockFrame, QuietStep, ZenonT(60)
<1>2. ASSUME NEW p \in Proc, Leave(p) PROVE OneWriterInv'
  <2>1. TmpInv' /\ dir' = dir
    BY <1>0, <1>2 DEF TmpInv, Leave
  <2>2. dir["tmp"] # None => data'[dir["tmp"]] = data[dir["tmp"]]
    BY <1>2, KeepNamed DEF Leave, Inv, TypeOK, Name
  <2>3. pc'[p] = "idle" /\ op'[p] = NoOp /\ io_fd'[p] = None
    BY <1>2 DEF Leave, Inv, TypeOK
  <2>4. ProcInv(p)'
    BY <2>3 DEF ProcInv, NoOp
  <2> QED BY <1>2, <2>1, <2>2, <2>4, LeaveFrame, QuietStep, Zenon
<1>3. ASSUME NEW p \in Proc, Flock(p) PROVE OneWriterInv'
  <2>1. TmpInv' /\ dir' = dir /\ data' = data
    BY <1>0, <1>3 DEF TmpInv, Flock
  <2>2. pc'[p] = "locked" /\ op'[p] = op[p] /\ io_fd'[p] = None
    BY <1>0, <1>3, SMTT(60) DEF Flock, Inv, TypeOK, ProcInv
  <2>3. ProcInv(p)'
    BY <1>0, <2>2, ZenonT(60) DEF ProcInv
  <2> QED BY <1>3, <2>1, <2>3, LightFrame, QuietStep
<1>4. ASSUME NEW p \in Proc, Fopen(p) PROVE OneWriterInv'
  <2>1. TmpInv' /\ dir' = dir /\ data' = data
    BY <1>0, <1>4 DEF TmpInv, Fopen
  <2>2. pc'[p] = "reading" /\ op'[p] = op[p] /\ io_fd'[p] = dir["session"]
    BY <1>4 DEF Fopen, Inv, TypeOK
  <2>3. Read(p)' = Stored'
    BY <2>1, <2>2, SMTT(60)
         DEF Read, Stored, SessionBytes, Parse, NoBytes, Bytes, Readable
  <2>4. ProcInv(p)'
    BY <1>0, <2>1, <2>2, <2>3, SMTT(60) DEF ProcInv, TmpInv
  <2> QED BY <1>4, <2>1, <2>4, LightFrame, QuietStep, Zenon
<1>5. ASSUME NEW p \in Proc, ReadLoad(p) PROVE OneWriterInv'
  <2>1. TmpInv' /\ dir' = dir
    BY <1>0, <1>5, SMTT(60) DEF TmpInv, ReadLoad
  <2>2. dir["tmp"] # None => data'[dir["tmp"]] = data[dir["tmp"]]
    BY <1>5, KeepNamed DEF ReadLoad, Inv, TypeOK, Name
  <2>3. pc'[p] = "unlock" /\ op'[p] = op[p] /\ io_fd'[p] = None
    BY <1>5, SMTT(60) DEF ReadLoad, Inv, TypeOK
  <2>4. ProcInv(p)'
    BY <1>0, <2>3, ZenonT(60) DEF ProcInv
  <2> QED BY <1>5, <2>1, <2>2, <2>4, LightFrame, QuietStep, ZenonT(60)
<1>6. ASSUME NEW p \in Proc, ReadModify(p) PROVE OneWriterInv'
  <2>0. p \in Writer /\ Read(p) = Stored
    BY <1>0, <1>6, SMTT(60) DEF ReadModify, ProcInv
  <2>1. TmpInv' /\ dir' = dir
    BY <1>0, <1>6, ZenonT(60) DEF TmpInv, ReadModify
  <2>2. dir["tmp"] # None => data'[dir["tmp"]] = data[dir["tmp"]]
    BY <1>6, KeepName DEF ReadModify, Name
  <2>3. Stored' = Stored /\ op'[p] = op[p] /\ io_fd'[p] = None /\ op[p].kind = "upsert"
    BY <1>6, LightFrame, ZenonT(60) DEF ReadModify, Inv, TypeOK
  <2>4. \/ pc'[p] = "open_tmp" /\ Fits(Stored, op[p].dc) /\ st'[p] = Target(p)
        \/ pc'[p] = "unlock"
    BY <1>6, <2>0, SMTT(60) DEF ReadModify, Inv, TypeOK, Target
  <2>5. ProcInv(p)'
    BY <2>0, <2>3, <2>4 DEF ProcInv, Target
  <2> QED BY <1>6, <2>1, <2>2, <2>5, LightFrame, QuietStep, ZenonT(60)
<1>7. ASSUME NEW p \in Proc, OpenTmp(p) PROVE OneWriterInv'
  <2>0. p \in Writer /\ op[p].kind = "upsert"
    BY <1>0, <1>7, SMTT(60) DEF OpenTmp, ProcInv
  <2>1. \A q \in Proc \ {p} : q \notin Writer /\ pc[q] # "write"
    BY <1>w, <2>0, Zenon
  <2>2. CASE UNCHANGED <<dir, data, io_fd>> /\ pc' = [pc EXCEPT ![p] = "unlock"]
    <3>1. ProcInv(p)'
      BY <1>0, <1>7, <2>0, <2>2 DEF ProcInv, OpenTmp, Inv, TypeOK
    <3>2. TmpInv'
      BY <1>0, <2>2 DEF TmpInv
    <3> QED BY <1>7, <2>1, <2>2, <3>1, <3>2, TmpFrame, QuietStep, ZenonT(60)
  <2>3. ASSUME NEW i \in Inode,
               IF dir["tmp"] = None THEN Free(i) ELSE i = dir["tmp"],
               dir' = [dir EXCEPT !["tmp"] = i],
               data' = [data EXCEPT ![i] = NoBytes],
               io_fd' = [io_fd EXCEPT ![p] = i],
               pc' = [pc EXCEPT ![p] = "write"]
        PROVE  OneWriterInv'
    <3>1. TmpInv' /\ dir'["tmp"] = i
      BY <1>0, <2>3, SMTT(60) DEF TmpInv, Inv, TypeOK, Name, Free, Unreachable
    <3>2. ASSUME NEW q \in Proc \ {p} PROVE ProcInv(q)'
      <4>1. pc[q] = "reading" => io_fd[q] # i
        BY <1>0, <2>3, ZenonT(60) DEF ProcInv, Free, Unreachable
      <4> QED BY <1>0, <1>7, <2>1, <3>1, <4>1, TmpFrame, ReaderUntouched, ZenonT(60)
    <3>3. ProcInv(p)'
      <4>1. Stored' = Stored /\ op'[p] = op[p] /\ st'[p] = st[p]
        BY <1>7, TmpFrame DEF OpenTmp
      <4>2. pc'[p] = "write" /\ io_fd'[p] = i /\ i # None
        BY <2>3, NoneAssumption, SMTT(60) DEF Inv, TypeOK
      <4>3. Fits(Stored, op[p].dc) /\ st[p] = Target(p)
        BY <1>0, <1>7, <2>0 DEF OpenTmp, ProcInv
      <4> QED BY <2>0, <3>1, <4>1, <4>2, <4>3, ZenonT(60) DEF ProcInv, Target
    <3> QED BY <3>1, <3>2, <3>3, OneWriterByProcNext
  <2> QED BY <1>7, <2>2, <2>3, SMTT(60) DEF OpenTmp
<1>8. ASSUME NEW p \in Proc, WriteTmp(p) PROVE OneWriterInv'
  <2>0. p \in Writer /\ op[p].kind = "upsert"
    BY <1>0, <1>8 DEF WriteTmp, ProcInv
  <2>1. \A q \in Proc \ {p} : q \notin Writer /\ pc[q] # "write"
    BY <1>w, <2>0, Zenon
  <2>2. TmpInv' /\ dir' = dir
    BY <1>0, <1>8, SMTT(60) DEF TmpInv, WriteTmp
  <2>3. ASSUME NEW q \in Proc \ {p} PROVE ProcInv(q)'
    BY <1>0, <1>8, <2>0, <2>1, <2>2, TmpFrame, ReaderUntouched, ZenonT(60) DEF ProcInv
  <2>4. ProcInv(p)'
    <3>1. Stored' = Stored /\ op'[p] = op[p] /\ st'[p] = st[p] /\ io_fd'[p] = None
      BY <1>8, <2>0, TmpFrame, ZenonT(60) DEF WriteTmp, Inv, TypeOK
    <3>2. /\ Fits(Stored, op[p].dc) /\ st[p] = Target(p)
          /\ dir["tmp"] \in Inode /\ io_fd[p] = dir["tmp"]
      BY <1>0, <1>8, <2>0 DEF WriteTmp, ProcInv, Inv, TypeOK
    <3>3. CASE /\ Keep([data EXCEPT ![io_fd[p]] = Bytes("v2", st[p])])
               /\ pc' = [pc EXCEPT ![p] = "rename"]
      <4> DEFINE bytes == [data EXCEPT ![io_fd[p]] = Bytes("v2", st[p])]
      <4>1. data'[dir["tmp"]] = bytes[dir["tmp"]]
        BY <2>2, <3>2, <3>3, KeepNamed, ZenonT(60) DEF Name
      <4>2. bytes[dir["tmp"]] = Bytes("v2", st[p])
        BY <3>2 DEF Inv, TypeOK
      <4>3. pc'[p] = "rename"
        BY <3>3, SMTT(60) DEF Inv, TypeOK
      <4> QED BY <2>0, <2>2, <3>1, <3>2, <4>1, <4>2, <4>3, NoneAssumption, Zenon
          DEF ProcInv, Target
    <3>4. CASE pc' = [pc EXCEPT ![p] = "unlink_tmp"]
      <4>1. pc'[p] = "unlink_tmp"
        BY <3>4, SMTT(60) DEF Inv, TypeOK
      <4> QED BY <2>0, <3>1, <4>1 DEF ProcInv
    <3> QED BY <1>8, <3>3, <3>4, ZenonT(60) DEF WriteTmp
  <2> QED BY <2>2, <2>3, <2>4, OneWriterByProcNext, SMTT(60)
<1>9. ASSUME NEW p \in Proc, Rename(p) PROVE OneWriterInv'
  <2>0. p \in Writer /\ op[p].kind = "upsert"
    BY <1>0, <1>9 DEF Rename, ProcInv
  <2>1. \A q \in Proc \ {p} : q \notin Writer /\ Untouched(q)
    BY <1>9, <2>0, RenameFrame
  <2>2. TmpInv' /\ (dir'["tmp"] = None \/ dir'["tmp"] = dir["tmp"])
    BY <1>0, <1>9, <2>0, RenameFrame, SMTT(60) DEF TmpInv
  <2>3. ASSUME NEW q \in Proc \ {p} PROVE ProcInv(q)'
    BY <1>0, <2>1, <2>2, <2>3, ReaderUntouched, ZenonT(60) DEF ProcInv
  <2>4. ProcInv(p)'
    <3>1. op'[p] = op[p] /\ io_fd'[p] = None /\ pc'[p] \in {"unlock", "unlink_tmp"}
      BY <1>0, <1>9, <2>0, RenameFrame DEF Rename, ProcInv
    <3> QED BY <2>0, <3>1, ZenonT(60) DEF ProcInv
  <2> QED BY <2>2, <2>3, <2>4, OneWriterByProcNext, ZenonT(60)
<1>10. ASSUME NEW p \in Proc, UnlinkTmp(p) PROVE OneWriterInv'
  <2>0. p \in Writer /\ op[p].kind = "upsert"
    BY <1>0, <1>10 DEF UnlinkTmp, ProcInv
  <2>1. \A q \in Proc \ {p} : q \notin Writer /\ Untouched(q)
    BY <1>10, <2>0, LightFrame
  <2>2. TmpInv' /\ dir'["tmp"] = None
    BY <1>10 DEF TmpInv, UnlinkTmp, Inv, TypeOK, Name
  <2>3. ASSUME NEW q \in Proc \ {p} PROVE ProcInv(q)'
    BY <1>0, <2>1, <2>2, <2>3, ReaderUntouched, SMTT(60)
  <2>4. ProcInv(p)'
    <3>1. op'[p] = op[p] /\ io_fd'[p] = None /\ pc'[p] = "unlock"
      BY <1>0, <1>10 DEF UnlinkTmp, ProcInv, Inv, TypeOK
    <3> QED BY <2>0, <3>1 DEF ProcInv
  <2> QED BY <2>2, <2>3, <2>4, OneWriterByProcNext, SMTT(60)
<1>11. ASSUME NEW p \in Cleaner, Clear(p) PROVE OneWriterInv'
  <2>0. p \in Writer /\ p \in Proc /\ pc[p] = "idle"
    BY <1>11, WriterAssumption DEF Clear
  <2>1. TmpInv' /\ dir'["tmp"] = dir["tmp"]
    BY <1>11, NoneAssumption, SMTT(60) DEF TmpInv, Clear, Inv, TypeOK, Name
  <2>2. ASSUME NEW q \in Proc \ {p} PROVE ProcInv(q)'
    <3>1. q \notin Writer /\ ProcInv(q) /\ Untouched(q)
      BY <1>0, <1>11, <2>0, ClearFrame, SMTT(60)
    <3> QED BY <2>1, <3>1, ReaderUntouched, Zenon DEF ProcInv
  <2>3. ProcInv(p)'
    BY <1>0, <1>11, <2>0, ZenonT(60) DEF ProcInv, Clear
  <2> QED BY <2>1, <2>2, <2>3, OneWriterByProcNext
<1>12. ASSUME UNCHANGED vars PROVE OneWriterInv'
  BY <1>12, ZenonT(60) DEF vars, OneWriterInv, Read, Stored, SessionBytes, Target
<1>13. ASSUME NEW p \in Proc, load(p) PROVE OneWriterInv'
  BY <1>13, <1>1, CallOpens, Zenon
<1>14. ASSUME NEW p \in Writer, upsert(p) PROVE OneWriterInv'
  BY <1>14, <1>1, CallOpens, Zenon
<1> QED
  BY <1>2, <1>3, <1>4, <1>5, <1>6, <1>7, <1>8, <1>9, <1>10, <1>11, <1>12, <1>13,
       <1>14, SMTT(60)
  DEF Next, Internal, FlockBusy, Unlock, Crash

-----------------------------------------------------------------------------
(***************************************************************************)
(* The refinement.                                                         *)
(***************************************************************************)
Reader == Proc \ Writer
Snap == [r \in Reader |-> Snapshot(r)]

\* The operators of StoreFormat mean the same seen from AtomicStore.
LEMMA SameFormat ==
  /\ Atomic!EmptyFile = EmptyFile
  /\ Atomic!ParsedFiles = ParsedFiles
  /\ \A file, dc : Atomic!Fits(file, dc) = Fits(file, dc)
  /\ \A file, dc, key, set_home :
       Atomic!Upserted(file, dc, key, set_home) = Upserted(file, dc, key, set_home)
BY DEF Atomic!EmptyFile, EmptyFile, Atomic!ParsedFiles, ParsedFiles,
   Atomic!StoreFile, StoreFile, Atomic!Entry, Entry, Atomic!WellFormed, WellFormed,
   Atomic!HasEntry, HasEntry, Atomic!Fits, Fits, Atomic!Upserted, Upserted,
   Atomic!find_entry, find_entry, Atomic!populate_entry, populate_entry

LEMMA AtomicInit == Init => Atomic!Init
<1> SUFFICES ASSUME Init PROVE Atomic!Init
  OBVIOUS
<1>1. Inv
  BY InitInv
<1>2. Stored \in StoreFile /\ WellFormed(Stored)
  BY <1>1, StoredType, SMTT(60)
<1>3. Snap = [r \in Reader |-> EmptyFile]
  BY Zenon DEF Snap, Reader, Snapshot, Init
<1> QED BY <1>2, <1>3, SameFormat DEF Atomic!Init, ParsedFiles, Snap, Reader

\* Readers that are left alone keep their snapshot.
LEMMA SnapUntouched ==
  ASSUME NEW r \in Proc, Untouched(r)
  PROVE  Snapshot(r)' = Snapshot(r)
BY DEF Untouched, Snapshot

LEMMA AtomicNext ==
  ASSUME NEW w, Writer = {w}, Cleaner \subseteq Writer,
         Inv, OneWriterInv, [Next]_vars
  PROVE  [Atomic!Next]_(Atomic!absVars)
<1> USE DEF Reader
<1>0. \A p \in Proc : ProcInv(p)
  BY OneWriterByProc
<1>s. ASSUME Stored' = Stored, Snap' = Snap
      PROVE  [Atomic!Next]_(Atomic!absVars)
  BY <1>s DEF Atomic!absVars, Snap
<1>q. ASSUME \A r \in Reader : Untouched(r) PROVE Snap' = Snap
  BY <1>q, SnapUntouched DEF Snap
<1>p. ASSUME NEW p \in Reader, \A r \in Reader \ {p} : Untouched(r)
      PROVE  Snap' = [Snap EXCEPT ![p] = Snapshot(p)']
  BY <1>p, SnapUntouched, Zenon DEF Snap
<1>1. ASSUME NEW p \in Proc, NEW call \in Op, OpenLockFile(p, call)
      PROVE  [Atomic!Next]_(Atomic!absVars)
  <2>1. Stored' = Stored /\ \A q \in Proc \ {p} : Untouched(q)
    BY <1>1, OpenLockFrame
  <2>2. Snapshot(p)' = Snapshot(p)
    BY <1>1 DEF Snapshot, OpenLockFile, Inv, TypeOK
  <2>3. Snap' = Snap
    BY <2>1, <2>2, SnapUntouched DEF Snap
  <2> QED BY <1>s, <2>1, <2>3
<1>2. ASSUME NEW p \in Proc, Leave(p) PROVE [Atomic!Next]_(Atomic!absVars)
  <2>1. Stored' = Stored /\ \A q \in Proc \ {p} : Untouched(q)
    BY <1>2, LeaveFrame
  <2>2. CASE p \in Reader
    <3>1. Snapshot(p)' = EmptyFile
      BY <1>2 DEF Leave, Snapshot, Inv, TypeOK
    <3>2. Snap' = [Snap EXCEPT ![p] = EmptyFile]
      BY <1>p, <2>1, <2>2, <3>1
    <3>3. Atomic!Forget(p)
      BY <2>1, <3>2, SameFormat DEF Atomic!Forget, Snap
    <3> QED BY <2>2, <3>3 DEF Atomic!Next
  <2>3. CASE p \in Writer
    BY <1>q, <1>s, <2>1, <2>3
  <2> QED BY <2>2, <2>3
<1>3. ASSUME NEW p \in Proc, Flock(p) PROVE [Atomic!Next]_(Atomic!absVars)
  <2>1. Stored' = Stored /\ \A q \in Proc \ {p} : Untouched(q)
    BY <1>3, LightFrame
  <2>2. Snapshot(p)' = Snapshot(p)
    BY <1>3 DEF Snapshot, Flock, Inv, TypeOK
  <2>3. Snap' = Snap
    BY <2>1, <2>2, SnapUntouched DEF Snap
  <2> QED BY <1>s, <2>1, <2>3
<1>4. ASSUME NEW p \in Proc, Fopen(p) PROVE [Atomic!Next]_(Atomic!absVars)
  <2>1. Stored' = Stored /\ \A q \in Proc \ {p} : Untouched(q)
    BY <1>4, LightFrame
  <2>2. CASE p \in Reader
    <3>1. pc'[p] = "reading" /\ io_fd'[p] = dir["session"] /\ data' = data
      BY <1>4, SMTT(60) DEF Fopen, Inv, TypeOK
    <3>2. Snapshot(p)' = Stored
      BY <3>1 DEF Snapshot, Read, Stored, SessionBytes, Parse, NoBytes, Bytes, Readable
    <3>3. Snap' = [Snap EXCEPT ![p] = Stored]
      BY <1>p, <2>1, <2>2, <3>2
    <3>4. Atomic!Snapshot(p)
      BY <2>1, <3>3, SMTT(60) DEF Atomic!Snapshot, Snap
    <3> QED BY <2>2, <3>4 DEF Atomic!Next
  <2>3. CASE p \in Writer
    BY <1>q, <1>s, <2>1, <2>3
  <2> QED BY <2>2, <2>3
<1>5. ASSUME NEW p \in Proc, ReadLoad(p) PROVE [Atomic!Next]_(Atomic!absVars)
  <2>1. Stored' = Stored /\ \A q \in Proc \ {p} : Untouched(q)
    BY <1>5, LightFrame
  <2>2. Snapshot(p)' = Snapshot(p)
    BY <1>5 DEF Snapshot, ReadLoad, Inv, TypeOK
  <2>3. Snap' = Snap
    BY <2>1, <2>2, SnapUntouched DEF Snap
  <2> QED BY <1>s, <2>1, <2>3
<1>6. ASSUME NEW p \in Proc, ReadModify(p) \/ UnlinkTmp(p)
      PROVE  [Atomic!Next]_(Atomic!absVars)
  <2>1. p \in Writer
    BY <1>0, <1>6, Zenon DEF ReadModify, UnlinkTmp, ProcInv
  <2> QED BY <1>6, <1>q, <1>s, <2>1, LightFrame, SMTT(60)
<1>7. ASSUME NEW p \in Proc, OpenTmp(p) \/ WriteTmp(p)
      PROVE  [Atomic!Next]_(Atomic!absVars)
  <2>1. p \in Writer
    BY <1>0, <1>7, ZenonT(60) DEF OpenTmp, WriteTmp, ProcInv
  <2>2. \A r \in Reader : pc[r] # "write"
    BY <1>0, Zenon DEF ProcInv
  <2> QED BY <1>7, <1>q, <1>s, <2>1, <2>2, TmpFrame, SMTT(60)
<1>8. ASSUME NEW p \in Proc, Rename(p) PROVE [Atomic!Next]_(Atomic!absVars)
  <2>1. p \in Writer
    BY <1>0, <1>8 DEF Rename, ProcInv
  <2>2. Snap' = Snap
    BY <1>8, <1>q, <2>1, RenameFrame, SMTT(60)
  <2>3. CASE Stored' = Target(p)
    <3>1. /\ op[p].key \in Key /\ op[p].set_home \in BOOLEAN
          /\ op[p].dc = op[p].key.dc /\ Fits(Stored, op[p].dc)
      <4>1. op[p].kind = "upsert" /\ Fits(Stored, op[p].dc)
        BY <1>0, <1>8, <2>1, SMTT(60) DEF Rename, ProcInv
      <4> QED BY <4>1, UpsertOp, Zenon
    <3>2. Atomic!Upsert(op[p].key, op[p].set_home)
      BY <2>2, <2>3, <3>1, SameFormat DEF Atomic!Upsert, Target, Snap
    <3> QED BY <3>1, <3>2, Zenon DEF Atomic!Next
  <2>4. CASE Stored' = Stored
    BY <1>s, <2>2, <2>4
  <2> QED BY <1>8, <2>1, <2>3, <2>4, RenameFrame, SMTT(60)
<1>9. ASSUME NEW p \in Cleaner, Clear(p) PROVE [Atomic!Next]_(Atomic!absVars)
  <2>1. Stored' = EmptyFile /\ \A q \in Proc : Untouched(q)
    BY <1>9, WriterAssumption, ClearFrame
  <2>2. Snap' = Snap
    BY <1>q, <2>1
  <2>3. Atomic!Clear
    BY <2>1, <2>2, SameFormat, SMTT(60) DEF Atomic!Clear, Snap
  <2> QED BY <2>3 DEF Atomic!Next
<1>10. ASSUME UNCHANGED vars PROVE [Atomic!Next]_(Atomic!absVars)
  BY <1>10 DEF vars, Atomic!absVars, Snapshot, Read, Stored, SessionBytes
<1>11. ASSUME NEW p \in Proc, load(p) PROVE [Atomic!Next]_(Atomic!absVars)
  BY <1>11, <1>1, CallOpens, Zenon
<1>12. ASSUME NEW p \in Writer, upsert(p) PROVE [Atomic!Next]_(Atomic!absVars)
  BY <1>12, <1>1, CallOpens, Zenon
<1> QED
  BY <1>2, <1>3, <1>4, <1>5, <1>6, <1>7, <1>8, <1>9, <1>10, <1>11, <1>12
  DEF Next, Internal, FlockBusy, Unlock, Crash

\* With a single writing process and any number of loading ones, the calls
\* of session_store.c are atomic: a save takes effect at its rename, a load
\* sees the store as it was when it opened the file, and a crash at any
\* point leaves the store as it was before or after the save.
THEOREM OneWriterAtomic ==
  ASSUME NEW w, Writer = {w}, Cleaner \subseteq Writer
  PROVE  Spec => AtomicSpec
<1>1. Init => Inv /\ OneWriterInv /\ Atomic!Init
  BY InitInv, OneWriterInit, AtomicInit
<1>2. Inv /\ OneWriterInv /\ [Next]_vars => Inv' /\ OneWriterInv'
  BY NextInv, OneWriterNext
<1>3. Inv /\ OneWriterInv /\ [Next]_vars => [Atomic!Next]_(Atomic!absVars)
  BY AtomicNext
<1> QED BY <1>1, <1>2, <1>3, PTL DEF Spec, AtomicSpec, Atomic!Spec

-----------------------------------------------------------------------------
(***************************************************************************)
(* What a caller of session_store_save relies on.                          *)
(***************************************************************************)
\* A step leaves the bytes of session.bin alone, or finds it absent or empty,
\* or is the writer's rename or a logout.
LEMMA BytesStep ==
  ASSUME NEW w, Writer = {w}, Cleaner \subseteq Writer,
         Inv, OneWriterInv, [Next]_vars
  PROVE  \/ SessionBytes' = SessionBytes
         \/ SessionBytes = NoBytes
         \/ dir'["session"] = None
         \/ SessionBytes' = Bytes("v2", st[w])
<1>0. w \in Proc /\ \A p \in Proc : ProcInv(p)
  BY OneWriterByProc, WriterAssumption
<1>1. ASSUME NEW p \in Proc, NEW call \in Op, OpenLockFile(p, call)
      PROVE  SessionBytes' = SessionBytes \/ SessionBytes = NoBytes
  BY <1>1, OpenLockFrame
<1>2. ASSUME NEW p \in Proc, load(p)
      PROVE  SessionBytes' = SessionBytes \/ SessionBytes = NoBytes
  BY <1>2, <1>1, CallOpens, Zenon
<1>3. ASSUME NEW p \in Writer, upsert(p)
      PROVE  SessionBytes' = SessionBytes \/ SessionBytes = NoBytes
  BY <1>3, <1>1, CallOpens, Zenon
<1>4. ASSUME NEW p \in Proc, Leave(p) PROVE SessionBytes' = SessionBytes
  BY <1>4, LeaveFrame
<1>5. ASSUME NEW p \in Proc,
             Flock(p) \/ Fopen(p) \/ ReadLoad(p) \/ ReadModify(p) \/ UnlinkTmp(p)
      PROVE  SessionBytes' = SessionBytes
  BY <1>5, LightFrame
<1>6. ASSUME NEW p \in Proc, OpenTmp(p) \/ WriteTmp(p)
      PROVE  SessionBytes' = SessionBytes
  <2>1. p \in Writer
    BY <1>0, <1>6, Zenon DEF OpenTmp, WriteTmp, ProcInv
  <2> QED BY <1>6, <2>1, TmpFrame, SMTT(60)
<1>7. ASSUME NEW p \in Proc, Rename(p)
      PROVE  SessionBytes' = SessionBytes \/ SessionBytes' = Bytes("v2", st[w])
  <2>1. p = w
    BY <1>0, <1>7 DEF Rename, ProcInv
  <2> QED BY <1>7, <2>1, RenameFrame, SMTT(60)
<1>8. ASSUME NEW p \in Cleaner, Clear(p) PROVE dir'["session"] = None
  BY <1>8 DEF Clear, Inv, TypeOK, Name
<1>9. ASSUME UNCHANGED vars PROVE SessionBytes' = SessionBytes
  BY <1>9 DEF vars, SessionBytes
<1> QED
  BY <1>2, <1>3, <1>4, <1>5, <1>6, <1>7, <1>8, <1>9
  DEF Next, Internal, FlockBusy, Unlock, Crash

\* "This prevents a truncated file on crash or disk-full": write_file_atomic
\* keeps this promise as long as a single process saves.
THEOREM OneWriterNeverTruncates ==
  ASSUME NEW w, Writer = {w}, Cleaner \subseteq Writer
  PROVE  Spec => NeverTruncated
<1>1. Init => Inv /\ OneWriterInv
  BY InitInv, OneWriterInit
<1>2. Inv /\ OneWriterInv /\ [Next]_vars => Inv' /\ OneWriterInv'
  BY NextInv, OneWriterNext
<1>3. Inv /\ OneWriterInv /\ [Next]_vars =>
        [Readable(SessionBytes) /\ dir'["session"] # None => Readable(SessionBytes')]_vars
  <2> SUFFICES ASSUME Inv, OneWriterInv, [Next]_vars,
                      Readable(SessionBytes), dir'["session"] # None
               PROVE  Readable(SessionBytes')
    OBVIOUS
  <2> QED BY BytesStep DEF Readable, NoBytes, Bytes
<1> QED BY <1>1, <1>2, <1>3, PTL DEF Spec, NeverTruncated

\* What SavedIsVisible says of one process.
SavedVisible(p) ==
  pc[p] = "unlock" /\ op[p].kind = "upsert" /\ rc[p] = 0
    => /\ HasEntry(Stored, op[p].dc)
       /\ Stored.entries[find_entry(Stored, op[p].dc)].key = op[p].key

LEMMA SavedVisibleNext ==
  ASSUME NEW w, Writer = {w}, Cleaner \subseteq Writer,
         Inv, OneWriterInv, SavedVisible(w), [Next]_vars
  PROVE  SavedVisible(w)'
<1>0. w \in Proc /\ w \in Writer /\ \A p \in Proc : ProcInv(p)
  BY OneWriterByProc, WriterAssumption
<1>k. ASSUME Stored' = Stored, pc'[w] = pc[w], op'[w] = op[w], rc'[w] = rc[w]
      PROVE  SavedVisible(w)'
  BY <1>k DEF SavedVisible
<1>n. ASSUME pc'[w] # "unlock" PROVE SavedVisible(w)'
  BY <1>n DEF SavedVisible
<1>r. ASSUME rc'[w] # 0 PROVE SavedVisible(w)'
  BY <1>r DEF SavedVisible
<1>1. ASSUME NEW p \in Proc, NEW call \in Op, OpenLockFile(p, call)
      PROVE  SavedVisible(w)'
  <2>1. CASE p = w
    BY <1>0, <1>1, <1>n, <2>1, SMTT(60) DEF OpenLockFile, Inv, TypeOK
  <2>2. CASE p # w
    BY <1>0, <1>1, <1>k, <2>2, OpenLockFrame, ZenonT(60) DEF OpenLockFile, Untouched
  <2> QED BY <2>1, <2>2
<1>2. ASSUME NEW p \in Proc, load(p) PROVE SavedVisible(w)'
  BY <1>2, <1>1, CallOpens, Zenon
<1>3. ASSUME NEW p \in Writer, upsert(p) PROVE SavedVisible(w)'
  BY <1>3, <1>1, CallOpens, Zenon
<1>4. ASSUME NEW p \in Proc, Leave(p) PROVE SavedVisible(w)'
  <2>1. CASE p = w
    BY <1>0, <1>4, <1>n, <2>1, SMTT(60) DEF Leave, Inv, TypeOK
  <2>2. CASE p # w
    BY <1>0, <1>4, <1>k, <2>2, LeaveFrame, ZenonT(60) DEF Leave, Untouched, Inv, TypeOK
  <2> QED BY <2>1, <2>2
<1>5. ASSUME NEW p \in Proc, Flock(p) \/ Fopen(p) PROVE SavedVisible(w)'
  <2>1. CASE p = w
    BY <1>0, <1>5, <1>n, <2>1 DEF Flock, Fopen, Inv, TypeOK
  <2>2. CASE p # w
    BY <1>0, <1>5, <1>k, <2>2, LightFrame, Zenon DEF Flock, Fopen, Untouched
  <2> QED BY <2>1, <2>2
<1>6. ASSUME NEW p \in Proc, ReadLoad(p) PROVE SavedVisible(w)'
  <2>1. CASE p = w
    <3>1. op'[w].kind = "load"
      BY <1>6, <2>1, Zenon DEF ReadLoad
    <3> QED BY <3>1, Zenon DEF SavedVisible
  <2>2. CASE p # w
    BY <1>0, <1>6, <1>k, <2>2, LightFrame, ZenonT(60)
         DEF ReadLoad, Untouched, Inv, TypeOK
  <2> QED BY <2>1, <2>2
<1>7. ASSUME NEW p \in Proc, ReadModify(p) \/ UnlinkTmp(p) \/ OpenTmp(p) \/ WriteTmp(p)
      PROVE  SavedVisible(w)'
  <2>1. p = w
    BY <1>0, <1>7, ZenonT(60) DEF ReadModify, UnlinkTmp, OpenTmp, WriteTmp, ProcInv
  <2>2. w \in DOMAIN pc /\ w \in DOMAIN rc
    BY <1>0, SMTT(60) DEF Inv, TypeOK
  <2>3. pc'[w] # "unlock" \/ rc'[w] # 0
    BY <1>7, <2>1, <2>2 DEF ReadModify, UnlinkTmp, OpenTmp, WriteTmp
  <2> QED BY <1>n, <1>r, <2>3, Zenon
<1>8. ASSUME NEW p \in Proc, Rename(p) PROVE SavedVisible(w)'
  <2>1. p = w
    BY <1>0, <1>8 DEF Rename, ProcInv
  <2>2. CASE pc'[w] # "unlock"
    BY <1>n, <2>2, SMTT(60)
  <2>3. CASE pc'[w] = "unlock"
    <3>1. Stored' = Target(w) /\ op'[w] = op[w]
      BY <1>0, <1>8, <2>1, <2>3, RenameFrame, SMTT(60) DEF Rename
    <3>2. op[w].kind = "upsert" /\ Fits(Stored, op[w].dc)
      BY <1>0, <1>8, <2>1, SMTT(60) DEF Rename, ProcInv
    <3>3. /\ op[w].key \in Key /\ op[w].set_home \in BOOLEAN /\ op[w].dc \in DC
          /\ op[w].key.dc = op[w].dc
      BY <1>0, <3>2, Zenon DEF Inv, TypeOK, AllWellFormed, Op
    <3>4. /\ HasEntry(Target(w), op[w].dc)
          /\ Target(w).entries[find_entry(Target(w), op[w].dc)].key = op[w].key
      <4>1. Stored \in StoreFile /\ WellFormed(Stored)
        BY StoredType
      <4>2. \A file \in StoreFile, dc \in DC, key \in Key, set_home \in BOOLEAN :
              WellFormed(file) /\ key.dc = dc /\ Fits(file, dc) =>
                LET new == Upserted(file, dc, key, set_home)
                IN  HasEntry(new, dc) /\ new.entries[find_entry(new, dc)].key = key
        BY UpsertedFound
      <4> QED BY <3>2, <3>3, <4>1, <4>2, Zenon DEF Target
    <3> QED BY <3>1, <3>4, ZenonT(60) DEF SavedVisible
  <2> QED BY <2>2, <2>3, SMTT(60)
<1>9. ASSUME NEW p \in Cleaner, Clear(p) PROVE SavedVisible(w)'
  BY <1>9, <1>n DEF Clear
<1>10. ASSUME UNCHANGED vars PROVE SavedVisible(w)'
  BY <1>10, <1>k, Zenon DEF vars, Stored, SessionBytes
<1> QED
  BY <1>2, <1>3, <1>4, <1>5, <1>6, <1>7, <1>8, <1>9, <1>10
  DEF Next, Internal, FlockBusy, Unlock, Crash

\* session_store_save and session_store_save_dc: when a call is about to
\* return 0, session.bin holds the key it was called with, as long as a
\* single process saves.
THEOREM OneWriterSaves ==
  ASSUME NEW w, Writer = {w}, Cleaner \subseteq Writer
  PROVE  Spec => []SavedIsVisible
<1> DEFINE I == Inv /\ OneWriterInv /\ SavedVisible(w)
<1>1. Init => I
  <2>1. Init => SavedVisible(w)
    BY WriterAssumption DEF Init, SavedVisible
  <2> QED BY <2>1, InitInv, OneWriterInit, SMTT(60)
<1>2. I /\ [Next]_vars => I'
  BY NextInv, OneWriterNext, SavedVisibleNext, SMTT(60)
<1>3. I => SavedIsVisible
  BY Zenon DEF SavedIsVisible, SavedVisible, OneWriterInv
<1> QED BY <1>1, <1>2, <1>3, PTL DEF Spec
=============================================================================
