----------------------------- MODULE StoreFormat -----------------------------
(***************************************************************************)
(* The pure part of app/session_store.c: what session.bin can hold, how    *)
(* read_file_locked parses it and what upsert does to the parsed StoreFile *)
(* struct.  A server_salt, session_id and auth_key triple is one Key.      *)
(***************************************************************************)
EXTENDS Integers, Sequences

CONSTANTS DC,          \* data centre ids, positive integers
          Key,         \* key material of sessions; each belongs to one DC
          MaxDcs       \* SESSION_STORE_MAX_DCS

ASSUME DCAssumption == DC \subseteq Int \ {0}
ASSUME KeyAssumption == \A k \in Key : k.dc \in DC
ASSUME MaxDcsAssumption == MaxDcs \in Nat \ {0}

\* StoreEntry.
Entry == [dc : DC, key : Key]

\* StoreFile: home_dc_id (0 = unset) and entries[0 .. count-1].
StoreFile == [home : DC \cup {0}, entries : Seq(Entry)]

\* memset(&st, 0, sizeof(st)).
EmptyFile == [home |-> 0, entries |-> << >>]

\* The bytes of a file.  "v1" and "v2" parse; "short" is an empty or
\* truncated file, "bad" any other corruption, "future" a newer version.
Version == {"short", "bad", "future", "v1", "v2"}
Content == [ver : Version, file : StoreFile]

Bytes(ver, file) == [ver |-> ver, file |-> file]
NoBytes == Bytes("short", EmptyFile)

Readable(content) == content.ver \in {"v1", "v2"}

\* read_file_locked on these bytes; every failing return leaves st to be
\* treated as zeroed by upsert and to be ignored by the loads.
Parse(content) == IF Readable(content) THEN content.file ELSE EmptyFile

\* find_entry: the first index whose dc_id matches.
HasEntry(st, dc) == \E i \in 1 .. Len(st.entries) : st.entries[i].dc = dc

find_entry(st, dc) ==
  CHOOSE i \in 1 .. Len(st.entries) :
    /\ st.entries[i].dc = dc
    /\ \A j \in 1 .. i - 1 : st.entries[j].dc # dc

populate_entry(dc, key) == [dc |-> dc, key |-> key]

\* The "no slot left" test of upsert.
Fits(st, dc) == HasEntry(st, dc) \/ Len(st.entries) < MaxDcs

\* upsert that always takes a new slot.
UpsertedAppend(st, dc, key, set_home) ==
  [home    |-> IF set_home \/ st.home = 0 THEN dc ELSE st.home,
   entries |-> Append(st.entries, populate_entry(dc, key))]

\* The struct upsert hands to write_file_atomic.
Upserted(st, dc, key, set_home) ==
  [home    |-> IF set_home \/ st.home = 0 THEN dc ELSE st.home,
   entries |-> IF HasEntry(st, dc)
               THEN [st.entries EXCEPT ![find_entry(st, dc)] = populate_entry(dc, key)]
               ELSE Append(st.entries, populate_entry(dc, key))]

(***************************************************************************)
(* A file that the loads can use: within the table, one entry per DC, each *)
(* with a key of its own DC, and a home DC that has an entry.              *)
(***************************************************************************)
WellFormed(st) ==
  /\ st.home = 0 <=> st.entries = << >>
  /\ Len(st.entries) <= MaxDcs
  /\ \A i, j \in 1 .. Len(st.entries) :
       st.entries[i].dc = st.entries[j].dc => i = j
  /\ \A i \in 1 .. Len(st.entries) : st.entries[i].key.dc = st.entries[i].dc
  /\ st.home # 0 => HasEntry(st, st.home)

ParsedFiles == {st \in StoreFile : WellFormed(st)}
=============================================================================
