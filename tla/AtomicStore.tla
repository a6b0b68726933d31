----------------------------- MODULE AtomicStore -----------------------------
(***************************************************************************)
(* What app/session_store.c promises to its callers: one store holding at  *)
(* most MaxDcs entries and the home DC, changed in one step by an upsert   *)
(* or a clear, and read as a whole.  SessionStore implements this module   *)
(* when a single process writes (see SessionStoreProofs).                  *)
(***************************************************************************)
EXTENDS StoreFormat

CONSTANT Reader      \* processes that only load

VARIABLES store,     \* what a load would parse now
          snap       \* snap[r]: the store as the running load of reader r sees it

absVars == <<store, snap>>

Init ==
  /\ store \in ParsedFiles
  /\ snap = [r \in Reader |-> EmptyFile]

\* session_store_save / session_store_save_dc, as one step.
Upsert(key, set_home) ==
  /\ Fits(store, key.dc)
  /\ store' = Upserted(store, key.dc, key, set_home)
  /\ UNCHANGED snap

\* session_store_clear.
Clear ==
  /\ store' = EmptyFile
  /\ UNCHANGED snap

\* The moment at which a load of reader r takes effect.
Snapshot(r) ==
  /\ snap' = [snap EXCEPT ![r] = store]
  /\ UNCHANGED store

\* The load of reader r returns, or r dies.
Forget(r) ==
  /\ snap' = [snap EXCEPT ![r] = EmptyFile]
  /\ UNCHANGED store

Next ==
  \/ \E key \in Key, set_home \in BOOLEAN : Upsert(key, set_home)
  \/ Clear
  \/ \E r \in Reader : Snapshot(r) \/ Forget(r)

Spec == Init /\ [][Next]_absVars
=============================================================================
