---------------------------- MODULE SessionStore ----------------------------
(***************************************************************************)
(* session.bin as the processes that share one configuration directory use *)
(* it: app/session_store.c at the granularity of its system calls.  A      *)
(* directory maps the two names to inodes, flock(2) locks belong to the    *)
(* inode that was opened, and rename(2) replaces the inode behind a name.  *)
(* A process may die between any two calls; the kernel then closes its     *)
(* descriptors and drops its lock.                                         *)
(***************************************************************************)
EXTENDS StoreFormat

CONSTANTS Proc,       \* processes running tg-cli, tg-cli-ro or tg-tui
          Writer,     \* the ones that save
          Cleaner,    \* the ones that run --logout
          Inode,      \* inode numbers
          None,       \* no inode
          FirstFile   \* what session.bin may hold before the first call

ASSUME WriterAssumption == Writer \subseteq Proc /\ Cleaner \subseteq Proc
ASSUME NoneAssumption == None \notin Inode
ASSUME FirstFileAssumption ==
  FirstFile \subseteq {c \in Content : WellFormed(c.file)}

VARIABLES dir,        \* the inodes named session.bin and session.bin.tmp
          data,       \* the bytes of each inode
          pc,         \* where each process is in its call
          op,         \* the arguments of that call
          lock_fd,    \* the inode lock_file opened
          lock,       \* the flock held on lock_fd
          io_fd,      \* the inode being read, or the temporary file
          st,         \* the StoreFile struct on the stack
          rc          \* what the call in progress is going to return

vars == <<dir, data, pc, op, lock_fd, lock, io_fd, st, rc>>

Name == {"session", "tmp"}
Step == {"idle", "opened", "locked", "reading", "open_tmp", "write", "rename",
         "unlink_tmp", "unlock"}
Op == [kind : {"upsert"}, dc : DC, key : Key, set_home : BOOLEAN]
        \cup [kind : {"load"}, dc : DC \cup {0}]
NoOp == [kind |-> "load", dc |-> 0]

\* The bytes a reader of session.bin would get now, and how they parse.
SessionBytes == IF dir["session"] = None THEN NoBytes ELSE data[dir["session"]]
Stored == Parse(SessionBytes)

\* The bytes of a file are gone with its last name and the last descriptor
\* they can be read through; nothing is read or written through lock_fd.
Unreachable(i) ==
  /\ \A n \in Name : dir[n] # i
  /\ \A p \in Proc : io_fd[p] # i

\* An inode with neither a name nor an open descriptor is free for reuse.
Free(i) == Unreachable(i) /\ \A p \in Proc : lock_fd[p] # i

Keep(bytes) ==
  data' = [i \in Inode |-> IF Unreachable(i)' THEN NoBytes ELSE bytes[i]]

Init ==
  /\ \/ /\ dir = [session |-> None, tmp |-> None]
        /\ data = [i \in Inode |-> NoBytes]
     \/ \E c \in FirstFile, i \in Inode :
          /\ dir = [session |-> i, tmp |-> None]
          /\ data = [j \in Inode |-> IF j = i THEN c ELSE NoBytes]
  /\ pc = [p \in Proc |-> "idle"]
  /\ op = [p \in Proc |-> NoOp]
  /\ lock_fd = [p \in Proc |-> None]
  /\ lock = [p \in Proc |-> "none"]
  /\ io_fd = [p \in Proc |-> None]
  /\ st = [p \in Proc |-> EmptyFile]
  /\ rc = [p \in Proc |-> 0]

\* lock_file, first half: open(path, O_CREAT | O_RDWR).
OpenLockFile(p, call) ==
  /\ pc[p] = "idle"
  /\ pc' = [pc EXCEPT ![p] = "opened"]
  /\ op' = [op EXCEPT ![p] = call]
  /\ \/ /\ dir["session"] # None
        /\ lock_fd' = [lock_fd EXCEPT ![p] = dir["session"]]
        /\ UNCHANGED <<dir, data>>
     \/ /\ dir["session"] = None
        /\ \E i \in Inode :
             /\ Free(i)
             /\ dir' = [dir EXCEPT !["session"] = i]
             /\ data' = [data EXCEPT ![i] = NoBytes]
             /\ lock_fd' = [lock_fd EXCEPT ![p] = i]
  /\ UNCHANGED <<lock, io_fd, st, rc>>

\* The call returns or its process dies: the kernel closes the descriptors
\* and with them drops the lock, and the stack frame is gone.
Leave(p) ==
  /\ pc' = [pc EXCEPT ![p] = "idle"]
  /\ op' = [op EXCEPT ![p] = NoOp]
  /\ lock_fd' = [lock_fd EXCEPT ![p] = None]
  /\ lock' = [lock EXCEPT ![p] = "none"]
  /\ io_fd' = [io_fd EXCEPT ![p] = None]
  /\ st' = [st EXCEPT ![p] = EmptyFile]
  /\ rc' = [rc EXCEPT ![p] = 0]
  /\ UNCHANGED dir
  /\ Keep(data)

\* session_store_save (set_home) and session_store_save_dc (not set_home),
\* called with the DC that issued the session's key.
upsert(p) ==
  \E key \in Key, set_home \in BOOLEAN :
    OpenLockFile(p, [kind |-> "upsert", dc |-> key.dc, key |-> key, set_home |-> set_home])

\* session_store_load (dc = 0) and session_store_load_dc.
load(p) == \E dc \in DC \cup {0} : OpenLockFile(p, [kind |-> "load", dc |-> dc])

\* LOCK_EX for an upsert, LOCK_SH for a load.
LockMode(p) == IF op[p].kind = "upsert" THEN "ex" ELSE "sh"

Busy(p) ==
  \E q \in Proc \ {p} :
    /\ lock_fd[q] = lock_fd[p]
    /\ lock[q] # "none"
    /\ lock[q] = "ex" \/ LockMode(p) = "ex"

\* lock_file, second half: flock(fd, how | LOCK_NB) ...
Flock(p) ==
  /\ pc[p] = "opened"
  /\ ~Busy(p)
  /\ lock' = [lock EXCEPT ![p] = LockMode(p)]
  /\ pc' = [pc EXCEPT ![p] = "locked"]
  /\ UNCHANGED <<dir, data, op, lock_fd, io_fd, st, rc>>

\* ... and its refusal: close(fd), and the call returns -1.
FlockBusy(p) ==
  /\ pc[p] = "opened"
  /\ Busy(p)
  /\ Leave(p)

\* read_file_locked: fopen resolves the name again, it does not use lock_fd.
Fopen(p) ==
  /\ pc[p] = "locked"
  /\ io_fd' = [io_fd EXCEPT ![p] = dir["session"]]
  /\ pc' = [pc EXCEPT ![p] = "reading"]
  /\ UNCHANGED <<dir, data, op, lock_fd, lock, st, rc>>

\* What read_file_locked leaves in st.
Read(p) == IF io_fd[p] = None THEN EmptyFile ELSE Parse(data[io_fd[p]])

\* session_store_load needs a home DC with an entry, session_store_load_dc
\* an entry for the DC that was asked for.
Loads(file, dc) ==
  IF dc = 0 THEN file.home # 0 /\ HasEntry(file, file.home) ELSE HasEntry(file, dc)

ReadLoad(p) ==
  /\ pc[p] = "reading"
  /\ op[p].kind = "load"
  /\ st' = [st EXCEPT ![p] = Read(p)]
  /\ rc' = [rc EXCEPT ![p] = IF Loads(Read(p), op[p].dc) THEN 0 ELSE -1]
  /\ pc' = [pc EXCEPT ![p] = "unlock"]
  /\ io_fd' = [io_fd EXCEPT ![p] = None]
  /\ UNCHANGED <<dir, op, lock_fd, lock>>
  /\ Keep(data)

\* upsert from read_file_locked to write_file_atomic; a full table returns
\* -1 after unlocking.
ReadModify(p) ==
  /\ pc[p] = "reading"
  /\ op[p].kind = "upsert"
  /\ io_fd' = [io_fd EXCEPT ![p] = None]
  /\ \/ /\ Fits(Read(p), op[p].dc)
        /\ st' = [st EXCEPT ![p] =
                    Upserted(Read(p), op[p].dc, op[p].key, op[p].set_home)]
        /\ pc' = [pc EXCEPT ![p] = "open_tmp"]
        /\ UNCHANGED rc
     \/ /\ ~Fits(Read(p), op[p].dc)
        /\ st' = [st EXCEPT ![p] = Read(p)]
        /\ rc' = [rc EXCEPT ![p] = -1]
        /\ pc' = [pc EXCEPT ![p] = "unlock"]
  /\ UNCHANGED <<dir, op, lock_fd, lock>>
  /\ Keep(data)

\* write_file_atomic that opens session.bin itself.
OpenTmpInPlace(p) ==
  /\ pc[p] = "open_tmp"
  /\ dir["session"] # None
  /\ data' = [data EXCEPT ![dir["session"]] = NoBytes]
  /\ io_fd' = [io_fd EXCEPT ![p] = dir["session"]]
  /\ pc' = [pc EXCEPT ![p] = "write"]
  /\ UNCHANGED <<dir, rc, op, lock_fd, lock, st>>

\* write_file_atomic: open(tmp, O_WRONLY | O_CREAT | O_TRUNC), which fails,
\* truncates the existing file or creates one.
OpenTmp(p) ==
  /\ pc[p] = "open_tmp"
  /\ \/ /\ rc' = [rc EXCEPT ![p] = -1]
        /\ pc' = [pc EXCEPT ![p] = "unlock"]
        /\ UNCHANGED <<dir, data, io_fd>>
     \/ /\ \E i \in Inode :
             /\ IF dir["tmp"] = None THEN Free(i) ELSE i = dir["tmp"]
             /\ dir' = [dir EXCEPT !["tmp"] = i]
             /\ data' = [data EXCEPT ![i] = NoBytes]
             /\ io_fd' = [io_fd EXCEPT ![p] = i]
        /\ pc' = [pc EXCEPT ![p] = "write"]
        /\ UNCHANGED rc
  /\ UNCHANGED <<op, lock_fd, lock, st>>

\* write_file_atomic that does not look at the result of write.
WriteTmpUnchecked(p) ==
  /\ pc[p] = "write"
  /\ io_fd' = [io_fd EXCEPT ![p] = None]
  /\ UNCHANGED <<dir, op, lock_fd, lock, st, rc>>
  /\ \E bytes \in {Bytes("v2", st[p]), NoBytes} : Keep([data EXCEPT ![io_fd[p]] = bytes])
  /\ pc' = [pc EXCEPT ![p] = "rename"]

\* write, fsync, close; a short write (disk full) leaves a truncated file.
WriteTmp(p) ==
  /\ pc[p] = "write"
  /\ io_fd' = [io_fd EXCEPT ![p] = None]
  /\ UNCHANGED <<dir, op, lock_fd, lock, st, rc>>
  /\ \/ /\ Keep([data EXCEPT ![io_fd[p]] = Bytes("v2", st[p])])
        /\ pc' = [pc EXCEPT ![p] = "rename"]
     \/ /\ Keep([data EXCEPT ![io_fd[p]] = NoBytes])
        /\ pc' = [pc EXCEPT ![p] = "unlink_tmp"]

\* write_file_atomic that does not look at the result of rename.
RenameUnchecked(p) ==
  /\ pc[p] = "rename"
  /\ \/ /\ dir["tmp"] # None
        /\ dir' = [session |-> dir["tmp"], tmp |-> None]
     \/ UNCHANGED dir
  /\ pc' = [pc EXCEPT ![p] = "unlock"]
  /\ rc' = [rc EXCEPT ![p] = 0]
  /\ UNCHANGED <<op, lock_fd, lock, io_fd, st>>
  /\ Keep(data)

\* rename(tmp_path, path): the name session.bin now leads to whatever inode
\* the name session.bin.tmp led to.  Without a tmp file it fails.
Rename(p) ==
  /\ pc[p] = "rename"
  /\ \/ /\ dir["tmp"] # None
        /\ dir' = [session |-> dir["tmp"], tmp |-> None]
        /\ pc' = [pc EXCEPT ![p] = "unlock"]
        /\ rc' = [rc EXCEPT ![p] = 0]
     \/ /\ pc' = [pc EXCEPT ![p] = "unlink_tmp"]
        /\ UNCHANGED <<dir, rc>>
  /\ UNCHANGED <<op, lock_fd, lock, io_fd, st>>
  /\ Keep(data)

\* unlink(tmp_path) on the two error paths of write_file_atomic.
UnlinkTmp(p) ==
  /\ pc[p] = "unlink_tmp"
  /\ dir' = [dir EXCEPT !["tmp"] = None]
  /\ rc' = [rc EXCEPT ![p] = -1]
  /\ pc' = [pc EXCEPT ![p] = "unlock"]
  /\ UNCHANGED <<op, lock_fd, lock, io_fd, st>>
  /\ Keep(data)

\* unlock_file, and the call returns rc.
Unlock(p) ==
  /\ pc[p] = "unlock"
  /\ Leave(p)

\* session_store_clear: remove(path), under no lock.
Clear(p) ==
  /\ pc[p] = "idle"
  /\ dir' = [dir EXCEPT !["session"] = None]
  /\ UNCHANGED <<pc, op, lock_fd, lock, io_fd, st, rc>>
  /\ Keep(data)

\* The process dies inside a call.
Crash(p) ==
  /\ pc[p] # "idle"
  /\ Leave(p)

Internal(p) ==
  \/ Flock(p) \/ FlockBusy(p) \/ Fopen(p) \/ ReadLoad(p) \/ ReadModify(p)
  \/ OpenTmp(p) \/ WriteTmp(p) \/ Rename(p) \/ UnlinkTmp(p) \/ Unlock(p)

Next ==
  \/ \E p \in Proc : load(p) \/ Internal(p) \/ Crash(p)
  \/ \E p \in Writer : upsert(p)
  \/ \E p \in Cleaner : Clear(p)

Spec == Init /\ [][Next]_vars

-----------------------------------------------------------------------------
\* Every variable has its type, at every point of every call of the store.
TypeOK ==
  /\ dir \in [Name -> Inode \cup {None}]
  /\ data \in [Inode -> Content]
  /\ pc \in [Proc -> Step]
  /\ op \in [Proc -> Op]
  /\ lock_fd \in [Proc -> Inode \cup {None}]
  /\ lock \in [Proc -> {"none", "sh", "ex"}]
  /\ io_fd \in [Proc -> Inode \cup {None}]
  /\ st \in [Proc -> StoreFile]
  /\ rc \in [Proc -> {0, -1}]

(***************************************************************************)
(* Whatever processes interleave or die, session.bin either does not parse *)
(* or has at most MaxDcs entries, one per DC, each with a key of that DC,  *)
(* and a home DC that session_store_load finds.                            *)
(***************************************************************************)
StoreWellFormed == WellFormed(Stored)

(***************************************************************************)
(* Why StoreWellFormed is invariant: every file that a rename could put    *)
(* in place, and every struct that a process is about to write, is already *)
(* well formed, and every save carries a key of the DC it names.           *)
(***************************************************************************)
AllWellFormed ==
  /\ \A i \in Inode : WellFormed(data[i].file)
  /\ \A p \in Proc : WellFormed(st[p])
  /\ \A p \in Proc : op[p].kind = "upsert" => op[p].key.dc = op[p].dc

\* What an upsert will have written once its rename succeeds.
Target(p) == Upserted(Stored, op[p].dc, op[p].key, op[p].set_home)

(***************************************************************************)
(* Why one writer is atomic: from its read to its rename nobody changes    *)
(* what the writer read, the temporary file is its own and is neither      *)
(* session.bin nor a file some load still reads, and when the writer is    *)
(* about to rename, the temporary file holds exactly its new struct.       *)
(***************************************************************************)
OneWriterInv ==
  /\ \A p \in Proc : io_fd[p] # None => pc[p] \in {"reading", "write"}
  /\ \A p \in Proc : pc[p] \in {"open_tmp", "write", "rename", "unlink_tmp"}
                      => op[p].kind = "upsert"
  /\ \A p \in Proc \ Writer : op[p].kind = "load"
  /\ dir["tmp"] # None =>
       /\ dir["tmp"] # dir["session"]
       /\ \A p \in Proc : pc[p] = "reading" => io_fd[p] # dir["tmp"]
  /\ \A p \in Writer :
       /\ pc[p] = "reading" => Read(p) = Stored
       /\ pc[p] \in {"open_tmp", "write", "rename"} =>
            Fits(Stored, op[p].dc) /\ st[p] = Target(p)
       /\ pc[p] = "write" => io_fd[p] # None /\ io_fd[p] = dir["tmp"]
       /\ pc[p] = "rename" =>
            dir["tmp"] # None /\ data[dir["tmp"]] = Bytes("v2", st[p])

(***************************************************************************)
(* upsert's result: while the saving call unlocks and returns 0, the entry *)
(* it was called with is the one session.bin holds for that DC.            *)
(***************************************************************************)
SavedIsVisible ==
  \A p \in Proc :
    pc[p] = "unlock" /\ op[p].kind = "upsert" /\ rc[p] = 0
      => /\ HasEntry(Stored, op[p].dc)
         /\ Stored.entries[find_entry(Stored, op[p].dc)].key = op[p].key

(***************************************************************************)
(* "This prevents a truncated file on crash or disk-full": a session.bin   *)
(* that parses is never replaced by, or turned into, one that does not.    *)
(***************************************************************************)
NeverTruncated ==
  [][Readable(SessionBytes) /\ dir'["session"] # None => Readable(SessionBytes')]_vars

(***************************************************************************)
(* With one writer the calls are atomic: a save takes effect at its rename *)
(* and a load sees the store as it was when it opened the file.            *)
(***************************************************************************)
Snapshot(r) == IF pc[r] = "reading" THEN Read(r) ELSE st[r]

Atomic == INSTANCE AtomicStore WITH
  Reader <- Proc \ Writer,
  store  <- Stored,
  snap   <- [r \in Proc \ Writer |-> Snapshot(r)]

AtomicSpec == Atomic!Spec
=============================================================================
