----------------------------- MODULE LoginProofs -----------------------------
(***************************************************************************)
(* Proofs about how a client comes to a signed-in session.  The            *)
(* credentials (Setup): wherever the wizard is killed or the power fails,  *)
(* config.ini is whole, and a start loads what the wizard saved.  The      *)
(* login (Login), for any data centres, keys and number of redirects:      *)
(* whatever a login, a cross-DC call, a logout or a crash does,            *)
(* session.bin pairs every DC with a key of its own, and a login finishes  *)
(* with the key it asked the code for, in the environment it started in.   *)
(* If saves do not fail and every DC has a slot, the restored home session *)
(* is always a signed-in one.                                              *)
(***************************************************************************)
EXTENDS Login, Setup, FiniteSetTheorems, WellFoundedInduction, TLAPS

(* What upsert does to the StoreFile struct, for every file, DC and key. *)

\* find_entry returns an index of the DC whenever there is one.  The first
\* such index exists because well-formed files have at most one.
LEMMA FindEntry ==
  ASSUME NEW file \in StoreFile, WellFormed(file), NEW dc, HasEntry(file, dc)
  PROVE  /\ find_entry(file, dc) \in 1 .. Len(file.entries)
         /\ file.entries[find_entry(file, dc)].dc = dc
<1>1. PICK i \in 1 .. Len(file.entries) : file.entries[i].dc = dc
  BY DEF HasEntry
<1>2. \A j \in 1 .. i - 1 : file.entries[j].dc # dc
  BY <1>1 DEF WellFormed, StoreFile
<1> QED BY <1>1, <1>2, Zenon DEF find_entry

\* upsert yields a StoreFile.
LEMMA UpsertedType ==
  ASSUME NEW file \in StoreFile, WellFormed(file),
         NEW dc \in DC, NEW key \in Key, NEW set_home \in BOOLEAN
  PROVE  Upserted(file, dc, key, set_home) \in StoreFile
<1> DEFINE e == populate_entry(dc, key)
<1>1. e \in Entry
  BY DEF populate_entry, Entry
<1>2. ASSUME HasEntry(file, dc)
      PROVE  [file.entries EXCEPT ![find_entry(file, dc)] = e] \in Seq(Entry)
  BY <1>1, <1>2, FindEntry DEF StoreFile
<1>3. Append(file.entries, e) \in Seq(Entry)
  BY <1>1 DEF StoreFile
<1>4. file.home \in DC \cup {0}
  BY DEF StoreFile
<1> QED BY <1>2, <1>3, <1>4 DEF Upserted, StoreFile

\* upsert keeps a file well formed.
LEMMA UpsertedWellFormed ==
  ASSUME NEW file \in StoreFile, WellFormed(file),
         NEW dc \in DC, NEW key \in Key, key.dc = dc, NEW set_home \in BOOLEAN,
         Fits(file, dc)
  PROVE  WellFormed(Upserted(file, dc, key, set_home))
<1> DEFINE e == populate_entry(dc, key)
           new == Upserted(file, dc, key, set_home)
<1>0. /\ e \in Entry /\ e.dc = dc /\ e.key = key
      /\ file.entries \in Seq(Entry) /\ file.home \in DC \cup {0}
      /\ dc # 0 /\ dc \in Int
  BY DCAssumption DEF populate_entry, Entry, StoreFile
<1>1. CASE HasEntry(file, dc)
  <2> DEFINE k == find_entry(file, dc)
  <2>1. k \in 1 .. Len(file.entries) /\ file.entries[k].dc = dc
    BY <1>1, FindEntry
  <2>2. new.entries = [file.entries EXCEPT ![k] = e]
    BY <1>1 DEF Upserted
  <2>3. Len(new.entries) = Len(file.entries) /\ new.entries # << >>
    BY <1>0, <2>1, <2>2
  <2>4. \A i \in 1 .. Len(file.entries) :
          new.entries[i] = IF i = k THEN e ELSE file.entries[i]
    BY <1>0, <2>1, <2>2
  <2>5. \A i \in 1 .. Len(file.entries) : new.entries[i].dc = file.entries[i].dc
    BY <1>0, <2>1, <2>4
  <2>6. new.home # 0 /\ HasEntry(new, new.home)
    <3>1. new.home = dc \/ (new.home = file.home /\ file.home # 0)
      BY DEF Upserted
    <3>2. HasEntry(new, dc)
      BY <2>1, <2>3, <2>5 DEF HasEntry
    <3>3. file.home # 0 => HasEntry(new, file.home)
      BY <2>3, <2>5 DEF HasEntry, WellFormed
    <3> QED BY <1>0, <3>1, <3>2, <3>3
  <2>7. \A i, j \in 1 .. Len(new.entries) :
          new.entries[i].dc = new.entries[j].dc => i = j
    BY <2>3, <2>5 DEF WellFormed
  <2>8. \A i \in 1 .. Len(new.entries) : new.entries[i].key.dc = new.entries[i].dc
    BY <1>0, <2>3, <2>4 DEF WellFormed
  <2> QED BY <2>3, <2>6, <2>7, <2>8 DEF WellFormed
<1>2. CASE ~HasEntry(file, dc)
  <2> DEFINE n == Len(file.entries)
  <2>1. new.entries = Append(file.entries, e)
    BY <1>2 DEF Upserted
  <2>2. /\ n \in Nat /\ n < MaxDcs
        /\ Len(new.entries) = n + 1 /\ new.entries # << >>
    BY <1>0, <1>2, <2>1 DEF Fits
  <2>3. /\ \A i \in 1 .. n : new.entries[i] = file.entries[i]
        /\ new.entries[n + 1] = e
    BY <1>0, <2>1
  <2>4. \A i \in 1 .. n : file.entries[i].dc # dc
    BY <1>2 DEF HasEntry
  <2>5. new.home # 0 /\ HasEntry(new, new.home)
    <3>1. new.home = dc \/ (new.home = file.home /\ file.home # 0)
      BY DEF Upserted
    <3>2. HasEntry(new, dc)
      BY <1>0, <2>2, <2>3 DEF HasEntry
    <3>3. file.home # 0 => HasEntry(new, file.home)
      BY <2>2, <2>3 DEF HasEntry, WellFormed
    <3> QED BY <1>0, <3>1, <3>2, <3>3
  <2>6. \A i, j \in 1 .. Len(new.entries) :
          new.entries[i].dc = new.entries[j].dc => i = j
    <3> SUFFICES ASSUME NEW i \in 1 .. n + 1, NEW j \in 1 .. n + 1,
                        new.entries[i].dc = new.entries[j].dc
                 PROVE  i = j
      BY <2>2
    <3>1. CASE i \in 1 .. n /\ j \in 1 .. n
      BY <2>3, <3>1 DEF WellFormed
    <3>2. CASE i \in 1 .. n /\ j = n + 1
      BY <1>0, <2>3, <2>4, <3>2
    <3>3. CASE i = n + 1 /\ j \in 1 .. n
      BY <1>0, <2>3, <2>4, <3>3
    <3>4. \A h \in 1 .. n + 1 : h \in 1 .. n \/ h = n + 1
      BY <2>2
    <3> QED BY <3>1, <3>2, <3>3, <3>4
  <2>7. \A i \in 1 .. Len(new.entries) : new.entries[i].key.dc = new.entries[i].dc
    <3> SUFFICES ASSUME NEW i \in 1 .. n + 1
                 PROVE  new.entries[i].key.dc = new.entries[i].dc
      BY <2>2
    <3>1. CASE i \in 1 .. n
      BY <2>3, <3>1 DEF WellFormed
    <3>2. CASE i = n + 1
      BY <1>0, <2>3, <3>2
    <3> QED BY <2>2, <3>1, <3>2
  <2>8. Len(new.entries) <= MaxDcs
    BY <2>2, MaxDcsAssumption
  <2> QED BY <2>2, <2>5, <2>6, <2>7, <2>8 DEF WellFormed
<1> QED BY <1>1, <1>2

\* What upsert leaves in the table: the new entry, and the old ones of the
\* other DCs.
LEMMA UpsertedEntries ==
  ASSUME NEW file \in StoreFile, WellFormed(file),
         NEW dc \in DC, NEW key \in Key, NEW new, NEW i \in 1 .. Len(new),
         \E set_home \in BOOLEAN : new = Upserted(file, dc, key, set_home).entries
  PROVE  \/ new[i] = populate_entry(dc, key)
         \/ /\ new[i].dc # dc
            /\ \E j \in 1 .. Len(file.entries) : new[i] = file.entries[j]
<1> DEFINE e == populate_entry(dc, key)
<1>0. e \in Entry /\ file.entries \in Seq(Entry)
  BY DEF populate_entry, Entry, StoreFile
<1>1. CASE HasEntry(file, dc)
  <2> DEFINE k == find_entry(file, dc)
  <2>1. k \in 1 .. Len(file.entries) /\ file.entries[k].dc = dc
    BY <1>1, FindEntry
  <2>2. new = [file.entries EXCEPT ![k] = e]
    BY <1>1 DEF Upserted
  <2>3. i \in 1 .. Len(file.entries)
    BY <1>0, <2>1, <2>2
  <2>4. CASE i = k
    BY <1>0, <2>1, <2>2, <2>4
  <2>5. CASE i # k
    <3>1. new[i] = file.entries[i]
      BY <1>0, <2>2, <2>3, <2>5
    <3>2. file.entries[i].dc # dc
      BY <2>1, <2>3, <2>5 DEF WellFormed
    <3> QED BY <2>3, <3>1, <3>2
  <2> QED BY <2>4, <2>5
<1>2. CASE ~HasEntry(file, dc)
  <2>1. new = Append(file.entries, e)
    BY <1>2 DEF Upserted
  <2>2. Len(file.entries) \in Nat /\ i \in 1 .. Len(file.entries) + 1
    BY <1>0, <2>1
  <2>3. CASE i \in 1 .. Len(file.entries)
    <3>1. new[i] = file.entries[i]
      BY <1>0, <2>1, <2>3
    <3>2. file.entries[i].dc # dc
      BY <1>2, <2>3 DEF HasEntry
    <3> QED BY <2>3, <3>1, <3>2
  <2>4. CASE i = Len(file.entries) + 1
    BY <1>0, <2>1, <2>4
  <2> QED BY <2>2, <2>3, <2>4
<1> QED BY <1>1, <1>2

\* A table with more entries than there are DCs has two of the same DC.
LEMMA Crowded ==
  ASSUME NEW n \in Nat, NEW T, IsFiniteSet(T), Cardinality(T) < n, NEW f \in [1 .. n -> T]
  PROVE  \E i, j \in 1 .. n : i # j /\ f[i] = f[j]
<1> DEFINE D == 1 .. n
<1>1. IsFiniteSet(1 .. n) /\ Cardinality(1 .. n) = IF 1 > n THEN 0 ELSE n - 1 + 1
  BY FS_Interval
<1>2. Cardinality(1 .. n) = n
  BY <1>1
<1>3. Cardinality(T) < Cardinality(D)
  BY <1>2
<1>4. IsFiniteSet(D) /\ f \in [D -> T]
  BY <1>1
<1> HIDE DEF D
<1>5. \E i, j \in D : i # j /\ f[i] = f[j]
  BY <1>3, <1>4, FS_PigeonHole
<1> QED BY <1>5 DEF D

\* With a slot for every DC there is always room: the table holds one entry
\* per DC.
LEMMA AlwaysFits ==
  ASSUME NEW file \in StoreFile, WellFormed(file), NEW dc \in DC,
         IsFiniteSet(DC), Cardinality(DC) <= MaxDcs
  PROVE  Fits(file, dc)
<1> DEFINE n == Len(file.entries)
           f == [i \in 1 .. n |-> file.entries[i].dc]
           T == DC \ {dc}
<1> SUFFICES ASSUME ~HasEntry(file, dc), n >= MaxDcs
             PROVE  FALSE
  BY MaxDcsAssumption DEF Fits, StoreFile
<1>1. n \in Nat /\ file.entries \in Seq(Entry)
  BY DEF StoreFile
<1>2. ASSUME NEW i \in 1 .. n PROVE file.entries[i].dc \in T
  <2>1. file.entries[i] \in Entry
    BY <1>1
  <2> QED BY <2>1 DEF HasEntry, Entry
<1>3. f \in [1 .. n -> T]
  BY <1>2
<1>4. Cardinality(DC) \in Nat
  BY FS_CardinalityType
<1>5. IsFiniteSet(T) /\ Cardinality(T) = Cardinality(DC) - 1
  BY FS_RemoveElement, Zenon
<1>6. Cardinality(T) < n
  BY <1>1, <1>4, <1>5, MaxDcsAssumption
<1>7. \E i, j \in 1 .. n : i # j /\ f[i] = f[j]
  <2> HIDE DEF f, n, T
  <2> QED BY <1>1, <1>3, <1>5, <1>6, Crowded
<1> QED BY <1>7 DEF WellFormed

-----------------------------------------------------------------------------
(* The login. *)

After == {"get_code", "sign_in", "sign_up", "get_password", "check_password"}
Up == ForeignStep \cup {"ready", "foreign"}

(***************************************************************************)
(* The invariant behind StoredKeysMatch, CodeFromSameKey and               *)
(* SameEnvironment: a session under way has a key of the DC it is          *)
(* connected to, once the code was sent it is the key the code was sent    *)
(* for, and a foreign session has a key of its own DC.                     *)
(***************************************************************************)
FlowInv ==
  /\ TypeOK
  /\ WellFormed(store)
  /\ s # NoKey => s.dc = current_dc
  /\ pc \in {"idle", "logout", "connect"} => s = NoKey
  /\ pc \notin {"idle", "logout"} => current_dc # 0
  /\ pc \in After \cup {"resend_code"} => s # NoKey /\ codeFor = s
  /\ pc \in Up \cup {"save"} => s # NoKey
  /\ x.key # NoKey => x.key.dc = x.dc
  /\ pc \in ForeignStep \cup {"foreign"} => x.key # NoKey
  /\ start # 0 => pc \in LoginStep \cup {"save"}
  /\ SameEnvironment

LEMMA PersistFlow ==
  ASSUME FlowInv, NEW dc \in DC, NEW key \in Key, key.dc = dc,
         NEW set_home \in BOOLEAN, Persist(dc, key, set_home)
  PROVE  store' \in StoreFile /\ WellFormed(store')
<1>1. CASE Fits(store, dc)
  BY <1>1, UpsertedType, UpsertedWellFormed DEF Persist, FlowInv, TypeOK
<1>2. CASE ~Fits(store, dc)
  BY <1>2 DEF Persist, FlowInv, TypeOK
<1> QED BY <1>1, <1>2

LEMMA FreshFacts ==
  ASSUME NEW dc, NEW k \in Fresh(dc)
  PROVE  k \in Key /\ k.dc = dc /\ k # NoKey
BY NoKeyAssumption DEF Fresh

\* find_entry gives a key of the DC it was asked for.
LEMMA EntryKey ==
  ASSUME FlowInv, NEW dc \in DC, HasEntry(store, dc)
  PROVE  LET e == store.entries[find_entry(store, dc)]
         IN  e.key \in Key /\ e.key.dc = dc /\ e.key # NoKey /\ e.dc = dc
<1> DEFINE i == find_entry(store, dc)
<1>1. i \in 1 .. Len(store.entries) /\ store.entries[i].dc = dc
  BY FindEntry DEF FlowInv, TypeOK
<1>2. store.entries[i] \in Entry
  BY <1>1 DEF FlowInv, TypeOK, StoreFile
<1>3. store.entries[i].key.dc = store.entries[i].dc
  BY <1>1 DEF FlowInv, WellFormed
<1> QED BY <1>1, <1>2, <1>3, NoKeyAssumption DEF Entry

LEMMA FlowInit == Init => FlowInv
<1> SUFFICES ASSUME Init PROVE FlowInv
  OBVIOUS
<1>1. EmptyFile \in StoreFile /\ WellFormed(EmptyFile)
  BY MaxDcsAssumption DEF EmptyFile, StoreFile, WellFormed, HasEntry
<1>2. TypeOK
  BY <1>1, MigrationAssumption DEF Init, TypeOK, Steps, NoDc
<1> QED BY <1>1, <1>2
        DEF Init, FlowInv, After, Up, ForeignStep, LoginStep, NoDc, SameEnvironment

\* A process that ends keeps session.bin as Persist or Logout left it.
LEMMA LeaveFlow ==
  ASSUME FlowInv, Leave, store' \in StoreFile, WellFormed(store'),
         issued' \subseteq Key, signed' \subseteq Key
  PROVE  FlowInv'
<1>1. TypeOK'
  BY MigrationAssumption DEF Leave, TypeOK, Steps, NoDc
<1> QED BY <1>1 DEF Leave, FlowInv, After, Up, ForeignStep, LoginStep, NoDc,
        SameEnvironment

LEMMA FlowNext == FlowInv /\ [Next]_vars => FlowInv'
<1> SUFFICES ASSUME FlowInv, [Next]_vars PROVE FlowInv'
  OBVIOUS
<1> USE DEF After, Up, ForeignStep, LoginStep, Steps
<1>0. /\ TypeOK /\ WellFormed(store) /\ store \in StoreFile
      /\ issued \subseteq Key /\ signed \subseteq Key
  BY DEF FlowInv, TypeOK
<1>1. CASE Restore
  <2>1. store.home \in DC
    BY <1>0, <1>1 DEF Restore, StoreFile
  <2>2. s' \in Key /\ s'.dc = store.home /\ s' # NoKey
    BY <1>1, <2>1, EntryKey DEF Restore, HomeKey
  <2>3. start = 0
    BY <1>1 DEF Restore, FlowInv
  <2> QED BY <1>1, <2>1, <2>2, <2>3, DCAssumption
          DEF Restore, FlowInv, TypeOK, SameEnvironment
<1>2. CASE StartLogin
  <2>1. PICK dc \in StartDc : start' = dc /\ current_dc' = dc
    BY <1>2 DEF StartLogin
  <2>2. dc \in DC /\ dc # 0
    BY <2>1, StartAssumption, DCAssumption
  <2>3. s = NoKey
    BY <1>2 DEF StartLogin, FlowInv
  <2> QED BY <1>2, <2>1, <2>2, <2>3 DEF StartLogin, FlowInv, TypeOK, SameEnvironment
<1>3. CASE Connect
  <2>1. PICK k \in Fresh(current_dc) : s' = k /\ issued' = issued \cup {k}
    BY <1>3 DEF Connect
  <2>2. k \in Key /\ k.dc = current_dc /\ k # NoKey
    BY <2>1, FreshFacts
  <2> QED BY <1>3, <2>1, <2>2 DEF Connect, FlowInv, TypeOK, SameEnvironment
<1>4. CASE SendCode
  BY <1>4 DEF SendCode, FlowInv, TypeOK, SameEnvironment
<1>5. CASE SendCodeMigrate
  <2>1. PICK dc \in Redirect :
          /\ current_dc' = Target(dc)
          /\ \/ \E k \in Fresh(Target(dc)) : s' = k /\ issued' = issued \cup {k}
             \/ s' = NoKey /\ UNCHANGED issued
    BY <1>5 DEF SendCodeMigrate
  <2>2. dc \in DC /\ dc > 0 /\ dc \in Int /\ current_dc \in Int
    BY <1>0, <2>1, DCAssumption DEF Redirect, TypeOK
  <2>3. Target(dc) \in DC /\ Target(dc) # 0 /\ (current_dc < 0 <=> Target(dc) < 0)
    BY <2>2, SignAssumption DEF Target
  <2>4. /\ s' \in Key \cup {NoKey} /\ issued' \subseteq Key
        /\ s' # NoKey => s'.dc = Target(dc)
    BY <1>0, <2>1, FreshFacts
  <2>5. migrations' \in 0 .. MaxMigrations
    BY <1>0, <1>5, MigrationAssumption DEF SendCodeMigrate, TypeOK
  <2> QED BY <1>5, <2>1, <2>3, <2>4, <2>5
          DEF SendCodeMigrate, FlowInv, TypeOK, SameEnvironment
<1>6. CASE ResendCode
  BY <1>6 DEF ResendCode, local, FlowInv, TypeOK, SameEnvironment
<1>7. CASE GetCode
  BY <1>7 DEF GetCode, local, FlowInv, TypeOK, SameEnvironment
<1>8. CASE SignIn
  BY <1>8 DEF SignIn, Bind, local, FlowInv, TypeOK, SameEnvironment
<1>9. CASE SignInMigrate
  <2>1. Leave /\ store' = store /\ signed' = signed /\ issued' \subseteq Key
    BY <1>0, <1>9 DEF SignInMigrate
  <2> QED BY <1>0, <2>1, LeaveFlow
<1>10. CASE SignUp
  BY <1>10 DEF SignUp, Bind, local, FlowInv, TypeOK, SameEnvironment
<1>11. CASE GetPassword
  BY <1>11 DEF GetPassword, local, FlowInv, TypeOK, SameEnvironment
<1>12. CASE CheckPassword
  BY <1>12 DEF CheckPassword, Bind, local, FlowInv, TypeOK, SameEnvironment
<1>13. CASE Save
  <2>1. current_dc \in DC /\ s \in Key /\ s.dc = current_dc
    BY <1>13 DEF Save, FlowInv, TypeOK
  <2>2. store' \in StoreFile /\ WellFormed(store')
    BY <1>13, <2>1, PersistFlow, Zenon DEF Save
  <2> QED BY <1>13, <2>2, MigrationAssumption DEF Save, FlowInv, TypeOK, SameEnvironment
<1>14. CASE LoginFails
  BY <1>0, <1>14, LeaveFlow DEF LoginFails
<1>15. CASE OpenForeign
  <2>0. PICK dc \in Redirect \ {current_dc} :
          \/ /\ HasEntry(store, dc)
             /\ x' = [dc |-> dc, key |-> store.entries[find_entry(store, dc)].key,
                      authorized |-> 1]
             /\ pc' = "foreign"
             /\ UNCHANGED <<store, issued>>
          \/ \E k \in Fresh(dc) :
               /\ issued' = issued \cup {k}
               /\ x' = [dc |-> dc, key |-> k, authorized |-> 0]
               /\ Persist(dc, k, FALSE)
               /\ pc' = "export"
    BY <1>15, Zenon DEF OpenForeign
  <2>1. dc \in DC
    BY DEF Redirect
  <2>2. CASE /\ HasEntry(store, dc)
             /\ x' = [dc |-> dc, key |-> store.entries[find_entry(store, dc)].key,
                      authorized |-> 1]
             /\ pc' = "foreign"
             /\ UNCHANGED <<store, issued>>
    <3>1. x'.key \in Key /\ x'.key.dc = dc /\ x'.key # NoKey
      BY <2>1, <2>2, EntryKey
    <3> QED BY <1>15, <2>1, <2>2, <3>1 DEF OpenForeign, FlowInv, TypeOK, SameEnvironment
  <2>3. CASE \E k \in Fresh(dc) :
               /\ issued' = issued \cup {k}
               /\ x' = [dc |-> dc, key |-> k, authorized |-> 0]
               /\ Persist(dc, k, FALSE)
               /\ pc' = "export"
    <3>1. PICK k \in Fresh(dc) :
               /\ issued' = issued \cup {k}
               /\ x' = [dc |-> dc, key |-> k, authorized |-> 0]
               /\ Persist(dc, k, FALSE)
               /\ pc' = "export"
      BY <2>3, Zenon
    <3>2. k \in Key /\ k.dc = dc /\ k # NoKey
      BY FreshFacts
    <3>3. store' \in StoreFile /\ WellFormed(store')
      BY <2>1, <3>1, <3>2, PersistFlow, Zenon
    <3> QED BY <1>15, <2>1, <3>1, <3>2, <3>3
            DEF OpenForeign, FlowInv, TypeOK, SameEnvironment
  <2> QED BY <2>0, <2>2, <2>3, Zenon
<1>16. CASE Export
  BY <1>16 DEF Export, local, FlowInv, TypeOK, SameEnvironment
<1>17. CASE Import
  <2>1. x.key \in Key /\ x.dc \in DC /\ x.key.dc = x.dc
    BY <1>17, KeyAssumption DEF Import, FlowInv, TypeOK
  <2>2. store' \in StoreFile /\ WellFormed(store')
    BY <1>17, <2>1, PersistFlow, Zenon DEF Import
  <2>3. x' = [dc |-> x.dc, key |-> x.key, authorized |-> 1]
    BY <1>0, <1>17 DEF Import, TypeOK
  <2> QED BY <1>17, <2>1, <2>2, <2>3 DEF Import, FlowInv, TypeOK, SameEnvironment
<1>18. CASE CloseForeign
  BY <1>18 DEF CloseForeign, NoDc, FlowInv, TypeOK, SameEnvironment
<1>19. CASE StartLogout
  BY <1>19 DEF StartLogout, local, FlowInv, TypeOK, SameEnvironment
<1>20. CASE Logout
  <2>1. EmptyFile \in StoreFile /\ WellFormed(EmptyFile)
    BY MaxDcsAssumption DEF EmptyFile, StoreFile, WellFormed, HasEntry
  <2> QED BY <1>0, <1>20, <2>1, LeaveFlow DEF Logout
<1>21. CASE Exit
  BY <1>0, <1>21, LeaveFlow DEF Exit
<1>22. CASE UNCHANGED vars
  BY <1>22 DEF vars, FlowInv, TypeOK, SameEnvironment
<1> QED
  BY <1>1, <1>2, <1>3, <1>4, <1>5, <1>6, <1>7, <1>8, <1>9, <1>10, <1>11, <1>12, <1>13,
     <1>14, <1>15, <1>16, <1>17, <1>18, <1>19, <1>20, <1>21, <1>22 DEF Next

(***************************************************************************)
(* session.bin pairs every DC with a key of that DC, through redirects,    *)
(* soft migrations, failing saves and crashes.                             *)
(***************************************************************************)
THEOREM KeysMatchTheirDc == Spec => []StoredKeysMatch
<1>1. FlowInv => StoredKeysMatch
  BY DEF FlowInv, StoredKeysMatch
<1> QED BY <1>1, FlowInit, FlowNext, PTL DEF Spec

(***************************************************************************)
(* A login signs in with the key its code was sent for.                    *)
(***************************************************************************)
THEOREM SignInUsesItsOwnCode == Spec => []CodeFromSameKey
<1>1. FlowInv => CodeFromSameKey
  BY DEF FlowInv, CodeFromSameKey, After
<1> QED BY <1>1, FlowInit, FlowNext, PTL DEF Spec

(***************************************************************************)
(* Redirects never lead a login from the test servers to production or     *)
(* back.                                                                   *)
(***************************************************************************)
THEOREM EnvironmentIsKept == Spec => []SameEnvironment
<1>1. FlowInv => SameEnvironment
  BY DEF FlowInv
<1> QED BY <1>1, FlowInit, FlowNext, PTL DEF Spec
-----------------------------------------------------------------------------
(***************************************************************************)
(* The home session, when saves do not fail and every DC has a slot: the   *)
(* home entry is the session that is up, its key is signed in, and foreign *)
(* sessions are of other DCs.                                              *)
(***************************************************************************)
HomeSigned ==
  \A i \in 1 .. Len(store.entries) :
    store.entries[i].dc = store.home => store.entries[i].key \in signed

HomeInv ==
  /\ FlowInv
  /\ HomeSigned
  /\ pc \in Up \cup {"save"} => s \in signed
  /\ pc \in Up => store.home = current_dc
  /\ pc \in ForeignStep \cup {"foreign"} => x.dc # current_dc

EveryDcHasASlot == SaveFaults = {} /\ IsFiniteSet(DC) /\ Cardinality(DC) <= MaxDcs

\* Without faults Persist upserts.
LEMMA PersistStores ==
  ASSUME EveryDcHasASlot, FlowInv, NEW dc \in DC, NEW key, NEW set_home,
         Persist(dc, key, set_home)
  PROVE  store' = Upserted(store, dc, key, set_home)
<1>1. Fits(store, dc)
  BY AlwaysFits DEF EveryDcHasASlot, FlowInv, TypeOK
<1> QED BY <1>1 DEF Persist, EveryDcHasASlot

\* session_store_save makes a signed-in key the home key.
LEMMA SaveHome ==
  ASSUME FlowInv, NEW dc \in DC, NEW key \in Key,
         store' = Upserted(store, dc, key, TRUE), key \in signed'
  PROVE  HomeSigned' /\ store'.home = dc
<1> DEFINE new == Upserted(store, dc, key, TRUE)
<1>0. store \in StoreFile /\ WellFormed(store) /\ TRUE \in BOOLEAN
  BY DEF FlowInv, TypeOK
<1>1. new.home = dc
  BY DEF Upserted
<1>2. ASSUME NEW i \in 1 .. Len(new.entries), new.entries[i].dc = dc
      PROVE  new.entries[i].key \in signed'
  <2> DEFINE table == new.entries
  <2>0. i \in 1 .. Len(table)
    BY <1>2, Zenon
  <2>a. \E set_home \in BOOLEAN : table = Upserted(store, dc, key, set_home).entries
    <3> WITNESS TRUE \in BOOLEAN
    <3> QED OBVIOUS
  <2> HIDE DEF table
  <2>1. table[i] = populate_entry(dc, key) \/ table[i].dc # dc
    BY <1>0, <2>0, <2>a, UpsertedEntries
  <2>2. populate_entry(dc, key).key = key
    BY DEF populate_entry
  <2> QED BY <1>2, <2>1, <2>2, Zenon DEF table
<1> HIDE DEF new
<1>3. store' = new
  BY DEF new
<1> QED BY <1>1, <1>2, <1>3, Zenon DEF HomeSigned

\* session_store_save_dc leaves a home of another DC as it is.
LEMMA SaveOther ==
  ASSUME HomeInv, NEW dc \in DC, NEW key \in Key, store.home # 0, store.home # dc,
         store' = Upserted(store, dc, key, FALSE), signed \subseteq signed'
  PROVE  HomeSigned' /\ store'.home = store.home
<1> DEFINE new == Upserted(store, dc, key, FALSE)
<1>0. store \in StoreFile /\ WellFormed(store) /\ FALSE \in BOOLEAN
  BY DEF HomeInv, FlowInv, TypeOK
<1>1. new.home = store.home
  BY DEF Upserted
<1>2. ASSUME NEW i \in 1 .. Len(new.entries), new.entries[i].dc = store.home
      PROVE  new.entries[i].key \in signed'
  <2> DEFINE table == new.entries
  <2>0. i \in 1 .. Len(table)
    BY <1>2, Zenon
  <2>a. \E set_home \in BOOLEAN : table = Upserted(store, dc, key, set_home).entries
    <3> WITNESS FALSE \in BOOLEAN
    <3> QED OBVIOUS
  <2> HIDE DEF table
  <2>1. \/ table[i] = populate_entry(dc, key)
        \/ \E j \in 1 .. Len(store.entries) : table[i] = store.entries[j]
    BY <1>0, <2>0, <2>a, UpsertedEntries
  <2>2. populate_entry(dc, key).dc = dc
    BY DEF populate_entry
  <2>3. PICK j \in 1 .. Len(store.entries) : new.entries[i] = store.entries[j]
    BY <1>2, <2>1, <2>2, Zenon DEF table
  <2>4. store.entries[j].key \in signed
    BY <1>2, <2>3, Zenon DEF HomeInv, HomeSigned
  <2> QED BY <2>3, <2>4, Zenon
<1> HIDE DEF new
<1>3. store' = new
  BY DEF new
<1> QED BY <1>1, <1>2, <1>3, Zenon DEF HomeSigned

LEMMA HomeInit == Init => HomeInv
<1> SUFFICES ASSUME Init PROVE HomeInv
  OBVIOUS
<1>1. FlowInv
  BY FlowInit
<1> QED BY <1>1 DEF Init, HomeInv, HomeSigned, EmptyFile, Up, ForeignStep

LEMMA HomeNext == EveryDcHasASlot /\ HomeInv /\ [Next]_vars => HomeInv'
<1> SUFFICES ASSUME EveryDcHasASlot, HomeInv, [Next]_vars PROVE HomeInv'
  OBVIOUS
<1>0. FlowInv /\ FlowInv'
  BY FlowNext DEF HomeInv
<1> USE DEF Up, ForeignStep, LoginStep
<1>1. CASE Restore
  <2>1. store.home \in DC
    BY <1>0, <1>1 DEF Restore, FlowInv, TypeOK, StoreFile
  <2>2. find_entry(store, store.home) \in 1 .. Len(store.entries)
          /\ store.entries[find_entry(store, store.home)].dc = store.home
    BY <1>0, <1>1, FindEntry DEF Restore, FlowInv, TypeOK
  <2>3. HomeKey \in signed
    BY <2>2 DEF HomeKey, HomeInv, HomeSigned
  <2> QED BY <1>0, <1>1, <2>3 DEF Restore, HomeInv, HomeSigned
<1>2. CASE StartLogin
  BY <1>0, <1>2 DEF StartLogin, HomeInv, HomeSigned
<1>3. CASE Connect
  BY <1>0, <1>3 DEF Connect, HomeInv, HomeSigned
<1>4. CASE SendCode
  BY <1>0, <1>4 DEF SendCode, HomeInv, HomeSigned
<1>5. CASE SendCodeMigrate
  BY <1>0, <1>5 DEF SendCodeMigrate, HomeInv, HomeSigned
<1>6. CASE ResendCode
  BY <1>0, <1>6 DEF ResendCode, local, HomeInv, HomeSigned
<1>7. CASE GetCode
  BY <1>0, <1>7 DEF GetCode, local, HomeInv, HomeSigned
<1>8. CASE SignIn
  BY <1>0, <1>8 DEF SignIn, Bind, local, HomeInv, HomeSigned
<1>9. CASE SignInMigrate
  BY <1>0, <1>9 DEF SignInMigrate, Leave, HomeInv, HomeSigned
<1>10. CASE SignUp
  BY <1>0, <1>10 DEF SignUp, Bind, local, HomeInv, HomeSigned
<1>11. CASE GetPassword
  BY <1>0, <1>11 DEF GetPassword, local, HomeInv, HomeSigned
<1>12. CASE CheckPassword
  BY <1>0, <1>12 DEF CheckPassword, Bind, local, HomeInv, HomeSigned
<1>13. CASE Save
  <2>1. current_dc \in DC /\ s \in Key /\ s \in signed
    BY <1>0, <1>13 DEF Save, HomeInv, FlowInv, TypeOK
  <2>2. store' = Upserted(store, current_dc, s, TRUE)
    BY <1>0, <1>13, <2>1, PersistStores, Zenon DEF Save
  <2>3. signed' = signed
    BY <1>13 DEF Save
  <2>4. HomeSigned' /\ store'.home = current_dc
    BY <1>0, <2>1, <2>2, <2>3, SaveHome, Zenon
  <2> QED BY <1>0, <1>13, <2>1, <2>4 DEF Save, HomeInv
<1>14. CASE LoginFails
  BY <1>0, <1>14 DEF LoginFails, Leave, HomeInv, HomeSigned
<1>15. CASE OpenForeign
  <2>0. PICK dc \in Redirect \ {current_dc} :
          \/ /\ x' = [dc |-> dc, key |-> store.entries[find_entry(store, dc)].key,
                      authorized |-> 1]
             /\ pc' = "foreign"
             /\ UNCHANGED store
          \/ \E k \in Fresh(dc) :
               /\ x' = [dc |-> dc, key |-> k, authorized |-> 0]
               /\ Persist(dc, k, FALSE)
               /\ pc' = "export"
    BY <1>15, Zenon DEF OpenForeign
  <2>1. dc \in DC /\ store.home = current_dc /\ store.home # 0 /\ store.home # dc
    BY <1>0, <1>15, SMTT(20) DEF OpenForeign, Redirect, HomeInv, FlowInv
  <2>2. s \in signed /\ signed' = signed /\ s' = s /\ current_dc' = current_dc
    BY <1>15 DEF OpenForeign, HomeInv
  <2>3. CASE x'.dc = dc /\ pc' = "foreign" /\ UNCHANGED store
    BY <1>0, <2>1, <2>2, <2>3 DEF HomeInv, HomeSigned
  <2>4. ASSUME NEW k \in Fresh(dc), x'.dc = dc, Persist(dc, k, FALSE), pc' = "export"
        PROVE  HomeInv'
    <3>1. k \in Key
      BY FreshFacts
    <3>2. store' = Upserted(store, dc, k, FALSE)
      BY <1>0, <2>1, <2>4, PersistStores, Zenon
    <3>3. HomeSigned' /\ store'.home = store.home
      BY <2>1, <2>2, <3>1, <3>2, SaveOther, Zenon
    <3> QED BY <1>0, <2>1, <2>2, <2>4, <3>3 DEF HomeInv
  <2>5. CASE /\ x' = [dc |-> dc, key |-> store.entries[find_entry(store, dc)].key,
                      authorized |-> 1]
             /\ pc' = "foreign"
             /\ UNCHANGED store
    BY <2>3, <2>5
  <2>6. ASSUME NEW k \in Fresh(dc), x' = [dc |-> dc, key |-> k, authorized |-> 0],
               Persist(dc, k, FALSE), pc' = "export"
        PROVE  HomeInv'
    BY <2>4, <2>6, Zenon
  <2> QED BY <2>0, <2>5, <2>6, Zenon
<1>16. CASE Export
  BY <1>0, <1>16 DEF Export, local, HomeInv, HomeSigned
<1>17. CASE Import
  <2>1. /\ x.key \in Key /\ x.dc \in DC
        /\ store.home = current_dc /\ store.home # 0 /\ store.home # x.dc
    BY <1>0, <1>17, KeyAssumption DEF Import, HomeInv, FlowInv, TypeOK
  <2>2. store' = Upserted(store, x.dc, x.key, FALSE)
    BY <1>0, <1>17, <2>1, PersistStores, Zenon DEF Import
  <2>3. signed \subseteq signed'
    BY <1>17 DEF Import
  <2>4. HomeSigned' /\ store'.home = store.home
    BY <2>1, <2>2, <2>3, SaveOther, Zenon
  <2>5. x'.dc = x.dc
    BY <1>0, <1>17 DEF Import, FlowInv, TypeOK
  <2> QED BY <1>0, <1>17, <2>1, <2>3, <2>4, <2>5 DEF Import, HomeInv
<1>18. CASE CloseForeign
  BY <1>0, <1>18 DEF CloseForeign, HomeInv, HomeSigned
<1>19. CASE StartLogout
  BY <1>0, <1>19 DEF StartLogout, local, HomeInv, HomeSigned
<1>20. CASE Logout
  BY <1>0, <1>20 DEF Logout, Leave, HomeInv, HomeSigned, EmptyFile
<1>21. CASE Exit
  BY <1>0, <1>21 DEF Exit, Leave, HomeInv, HomeSigned
<1>22. CASE UNCHANGED vars
  BY <1>0, <1>22 DEF vars, HomeInv, HomeSigned
<1> QED
  BY <1>1, <1>2, <1>3, <1>4, <1>5, <1>6, <1>7, <1>8, <1>9, <1>10, <1>11, <1>12, <1>13,
     <1>14, <1>15, <1>16, <1>17, <1>18, <1>19, <1>20, <1>21, <1>22 DEF Next

(***************************************************************************)
(* If saves do not fail and every DC has a slot, auth_flow_login returns 0 *)
(* only with a signed-in session, restored from session.bin or not.        *)
(***************************************************************************)
THEOREM RestoredIsSignedIn ==
  ASSUME EveryDcHasASlot PROVE Spec => []ReadyIsSignedIn
<1>1. HomeInv /\ [Next]_vars => HomeInv'
  BY HomeNext
<1>2. HomeInv => ReadyIsSignedIn
  BY DEF HomeInv, ReadyIsSignedIn, Up
<1> QED BY <1>1, <1>2, HomeInit, PTL DEF Spec

\* A step while a session is up does not change the home DC.
LEMMA HomeStep ==
  EveryDcHasASlot /\ HomeInv /\ [Next]_vars =>
    ((pc \in ForeignStep \cup {"ready", "foreign"}) => store'.home = store.home)
<1> SUFFICES ASSUME EveryDcHasASlot, HomeInv, [Next]_vars, pc \in Up
             PROVE  store'.home = store.home
  BY DEF Up
<1>0. FlowInv
  BY DEF HomeInv
<1> USE DEF Up, ForeignStep, LoginStep
<1>1. CASE OpenForeign
  <2>1. PICK dc \in Redirect \ {current_dc} :
          UNCHANGED store \/ \E k \in Fresh(dc) : Persist(dc, k, FALSE)
    BY <1>1, Zenon DEF OpenForeign
  <2>2. dc \in DC /\ store.home # 0
    BY <1>0 DEF Redirect, HomeInv, FlowInv
  <2>3. CASE \E k \in Fresh(dc) : Persist(dc, k, FALSE)
    <3>1. PICK k \in Fresh(dc) : Persist(dc, k, FALSE)
      BY <2>3, Zenon
    <3>2. store' = Upserted(store, dc, k, FALSE)
      BY <1>0, <2>2, <3>1, PersistStores, Zenon
    <3> QED BY <2>2, <3>2 DEF Upserted
  <2> QED BY <2>1, <2>3, Zenon
<1>2. CASE Import
  <2>1. x.dc \in DC /\ store.home # 0
    BY <1>0, <1>2, KeyAssumption DEF Import, HomeInv, FlowInv, TypeOK
  <2>2. store' = Upserted(store, x.dc, x.key, FALSE)
    BY <1>0, <1>2, <2>1, PersistStores, Zenon DEF Import
  <2> QED BY <2>1, <2>2 DEF Upserted
<1>3. CASE Export \/ CloseForeign \/ Exit \/ UNCHANGED vars
  BY <1>3 DEF Export, CloseForeign, Exit, vars
<1>4. OpenForeign \/ Import \/ Export \/ CloseForeign \/ Exit \/ UNCHANGED vars
  BY Zenon DEF Next, Restore, StartLogin, Connect, SendCode, SendCodeMigrate,
       ResendCode,
       GetCode,
         SignIn, SignInMigrate, SignUp, GetPassword, CheckPassword, Save, LoginFails,
         StartLogout, Logout
<1> QED BY <1>1, <1>2, <1>3, <1>4

(***************************************************************************)
(* Under the same assumptions nothing that happens at other DCs, and no    *)
(* crash there, changes the DC that the next run restores.                 *)
(***************************************************************************)
THEOREM HomeStaysHome ==
  ASSUME EveryDcHasASlot PROVE Spec => HomeKept
<1>1. HomeInv /\ [Next]_vars => HomeInv'
  BY HomeNext
<1>2. HomeInv /\ [Next]_vars =>
        [(pc \in ForeignStep \cup {"ready", "foreign"}) => store'.home = store.home]_vars
  BY HomeStep
<1> QED BY <1>1, <1>2, HomeInit, PTL DEF Spec, HomeKept

-----------------------------------------------------------------------------
(* config.ini. *)

\* A non-empty set of natural numbers has a least element.
LEMMA Least ==
  ASSUME NEW S, S \subseteq Nat, S # {}
  PROVE  \E i \in S : \A j \in S : i <= j
<1> DEFINE R == OpToRel(<, Nat)
<1>1. IsWellFoundedOn(R, Nat)
  BY NatLessThanWellFounded, Zenon
<1>2. \E m \in S : \A y \in S : ~(<<y, m>> \in R)
  <2> HIDE DEF R
  <2> QED BY <1>1, WFMin, Zenon
<1>3. \A m, y \in Nat : y < m => <<y, m>> \in R
  BY DEF OpToRel
<1>4. PICK m \in S : \A y \in S : ~(<<y, m>> \in R)
  BY <1>2, Zenon
<1>5. \A y \in S : ~(y < m)
  <2> HIDE DEF R
  <2> QED BY <1>3, <1>4, Zenon
<1>6. \A y \in S : m <= y
  BY <1>5, SMT
<1> QED BY <1>6

\* One that is bounded has a greatest element.
LEMMA Greatest ==
  ASSUME NEW n \in Nat, NEW S, S \subseteq 1 .. n, S # {}
  PROVE  \E i \in S : \A j \in S : j <= i
<1> DEFINE T == {k \in Nat : n - k \in S}
<1>1. T # {}
  <2>1. PICK j \in S : TRUE
    BY Zenon
  <2>2. n - j \in T
    OBVIOUS
  <2> QED BY <2>2, Zenon
<1>2. PICK k \in T : \A l \in T : k <= l
  <2> HIDE DEF T
  <2>1. T \subseteq Nat
    BY DEF T
  <2> QED BY <1>1, <2>1, Least, Zenon
<1>3. ASSUME NEW j \in S PROVE j <= n - k
  <2>1. n - j \in T
    OBVIOUS
  <2> QED BY <1>2, <2>1
<1> QED BY <1>2, <1>3

\* The lines and files there are, and the line tg_config appends.
IniLine == [key : Keys, val : Texts]
IniFile == [there : BOOLEAN, lines : Seq(IniLine), synced : BOOLEAN]
KeyLine == Line("rsa_pem", "pem")

\* The types of the files, the wizard and a start.
SType ==
  /\ env \in [id : Texts, hash : Texts]
  /\ first \in IniFile
  /\ disk \in [cfg : IniFile, tmp : IniFile, old : IniFile]
  /\ wiz \in [pc : {"idle", "id", "hash", "open", "flush", "sync", "rename"},
             id : Int, hash : Texts, tries : Int]
  /\ boot \in [pc : {"down", "id", "hash", "ready", "refused"}, id : Int,
               hash : Texts, pem : Texts, file : IniFile, torn : BOOLEAN]

\* What ConfigWhole allows config.ini to hold.
Whole ==
  {first.lines, Append(first.lines, KeyLine)}
    \cup UNION {Saved(hash) : hash \in {"hash", "hash2"}}

\* What the wizard has checked by the time it writes, and what it wrote.
WizardInv ==
  /\ wiz.pc \in {"hash", "open", "flush", "sync", "rename"} => wiz.id = 12
  /\ wiz.pc \in {"open", "flush", "sync", "rename"} => wiz.hash \in {"hash", "hash2"}
  /\ wiz.pc \in {"sync", "rename"} => disk.tmp.lines = Written(12, wiz.hash)
  /\ wiz.pc = "rename" => disk.tmp.synced

\* A file under the name config.ini is synced and whole.
FilesInv ==
  /\ disk.cfg.synced /\ disk.old.synced
  /\ disk.cfg.lines \in Whole /\ disk.old.lines \in Whole

SetupInv == SType /\ WizardInv /\ FilesInv

\* ConfigWhole, in these words.
LEMMA WholeIs == ConfigWhole <=> disk.cfg.lines \in Whole
BY DEF ConfigWhole, Whole, KeyLine

\* The last line of the key counts.
LEMMA LastHit ==
  ASSUME NEW file \in IniFile, NEW key,
         NEW n \in 1..Len(file.lines), file.lines[n].key = key,
         \A i \in 1..Len(file.lines) : i > n => file.lines[i].key # key
  PROVE  read_ini_key(file, key) = file.lines[n].val
<1> DEFINE hits == {i \in 1..Len(file.lines) : file.lines[i].key = key}
           last == CHOOSE i \in hits : \A j \in hits : j <= i
<1>0. Len(file.lines) \in Nat
  BY DEF IniFile
<1>1. n \in hits /\ \A j \in hits : j <= n
  BY <1>0
<1>2. last \in hits /\ \A j \in hits : j <= last
  BY <1>1, Zenon
<1>3. last = n
  <2> HIDE DEF last
  <2>1. last <= n /\ n <= last /\ last \in Int /\ n \in Int
    BY <1>0, <1>1, <1>2
  <2> QED BY <2>1
<1>4. read_ini_key(file, key) = file.lines[last].val
  BY <1>1, Zenon DEF read_ini_key
<1> QED BY <1>3, <1>4, Zenon

\* What read_ini_key returns.
LEMMA ReadKey ==
  ASSUME NEW file \in IniFile, NEW t \in Seq(IniLine), file.lines = Append(t, KeyLine)
  PROVE  read_ini_key(file, "rsa_pem") = "pem"
<1> DEFINE n == Len(t) + 1
<1>1. Len(file.lines) = n /\ n \in Nat /\ n \in 1..n /\ file.lines[n] = KeyLine
  OBVIOUS
<1>2. KeyLine.key = "rsa_pem" /\ KeyLine.val = "pem"
  BY DEF KeyLine, Line
<1>3. \A i \in 1..Len(file.lines) : ~(i > n)
  BY <1>1
<1> HIDE DEF n
<1>4. /\ n \in 1..Len(file.lines) /\ file.lines[n].key = "rsa_pem"
      /\ \A i \in 1..Len(file.lines) : i > n => file.lines[i].key # "rsa_pem"
  BY <1>1, <1>2, <1>3
<1>5. read_ini_key(file, "rsa_pem") = file.lines[n].val
  BY <1>4, LastHit, Zenon
<1> QED BY <1>1, <1>2, <1>5

\* What a flush that stops early leaves of the text.
LEMMA PrefixOfLines ==
  ASSUME NEW S, NEW ls \in Seq(S), NEW n \in 0..Len(ls)
  PROVE  SubSeq(ls, 1, n) \in Seq(S) /\ (n = Len(ls) => SubSeq(ls, 1, n) = ls)
<1>1. SubSeq(ls, 1, n) \in Seq(S)
  OBVIOUS
<1>2. Len(SubSeq(ls, 1, n)) = n /\ \A i \in 1..n : SubSeq(ls, 1, n)[i] = ls[i]
  OBVIOUS
<1>3. CASE n = Len(ls)
  BY <1>1, <1>2, <1>3
<1> QED BY <1>1, <1>3

\* The lines the wizard writes.
LEMMA WrittenFacts ==
  ASSUME NEW hash \in Texts
  PROVE  /\ Written(12, hash) \in Seq(IniLine) /\ Len(Written(12, hash)) = 2
         /\ Written(12, hash)[1] = [key |-> "api_id", val |-> "12"]
         /\ Written(12, hash)[2] = [key |-> "api_hash", val |-> hash]
<1>1. \A a, b \in IniLine : /\ <<a, b>> \in Seq(IniLine) /\ Len(<<a, b>>) = 2
                             /\ <<a, b>>[1] = a /\ <<a, b>>[2] = b
  OBVIOUS
<1>2. /\ Line("api_id", "12") = [key |-> "api_id", val |-> "12"]
      /\ Line("api_hash", hash) = [key |-> "api_hash", val |-> hash]
      /\ Line("api_id", "12") \in IniLine /\ Line("api_hash", hash) \in IniLine
  BY Zenon DEF Line, IniLine, Keys, Texts
<1>3. Written(12, hash) = <<Line("api_id", "12"), Line("api_hash", hash)>>
  BY DEF Written
<1>4. LET a == Line("api_id", "12")
          b == Line("api_hash", hash)
      IN  /\ <<a, b>> \in Seq(IniLine) /\ Len(<<a, b>>) = 2
          /\ <<a, b>>[1] = a /\ <<a, b>>[2] = b
  BY <1>1, <1>2, Zenon
<1> QED BY <1>2, <1>3, <1>4, SMTT(20)

\* What the wizard wrote is read back.
LEMMA ReadSaved ==
  ASSUME NEW file \in IniFile, NEW hash \in Texts, file.lines \in Saved(hash)
  PROVE  /\ read_ini_key(file, "api_id") = "12"
         /\ read_ini_key(file, "api_hash") = hash
<1> DEFINE w == Written(12, hash)
<1>1. /\ w \in Seq(IniLine) /\ Len(w) = 2
      /\ w[1] = [key |-> "api_id", val |-> "12"]
      /\ w[2] = [key |-> "api_hash", val |-> hash]
  BY WrittenFacts
<1>k. KeyLine \in IniLine /\ KeyLine.key = "rsa_pem"
  BY Zenon DEF KeyLine, Line, IniLine, Keys, Texts
<1>2. file.lines = w \/ file.lines = Append(w, KeyLine)
  BY Zenon DEF Saved, KeyLine
<1> HIDE DEF w
<1>3. /\ 1 \in 1..Len(file.lines) /\ 2 \in 1..Len(file.lines)
      /\ file.lines[1] = [key |-> "api_id", val |-> "12"]
      /\ file.lines[2] = [key |-> "api_hash", val |-> hash]
      /\ \A i \in 1..Len(file.lines) : i = 1 \/ i = 2 \/ file.lines[i].key = "rsa_pem"
  <2> DEFINE a == [key |-> "api_id", val |-> "12"]
             b == [key |-> "api_hash", val |-> hash]
  <2> HIDE DEF a, b
  <2>0. w[1] = a /\ w[2] = b
    BY <1>1 DEF a, b
  <2>5. w \in Seq(IniLine) /\ Len(w) = 2
    BY <1>1
  <2>3. \A i \in 1..2 : i = 1 \/ i = 2
    OBVIOUS
  <2>4. \A i \in 1..3 : i = 1 \/ i = 2 \/ i = 3
    OBVIOUS
  <2> SUFFICES /\ 1 \in 1..Len(file.lines) /\ 2 \in 1..Len(file.lines)
               /\ file.lines[1] = a /\ file.lines[2] = b
               /\ \A i \in 1..Len(file.lines) :
                     i = 1 \/ i = 2 \/ file.lines[i].key = "rsa_pem"
    BY DEF a, b
  <2>1. CASE file.lines = w
    <3>1. Len(file.lines) = 2
      BY <2>1, <2>5
    <3> QED BY <2>0, <2>1, <2>3, <3>1
  <2>2. CASE file.lines = Append(w, KeyLine)
    <3>1. /\ Len(file.lines) = 3 /\ file.lines[1] = w[1]
          /\ file.lines[2] = w[2] /\ file.lines[3] = KeyLine
      <4>1. /\ Len(Append(w, KeyLine)) = Len(w) + 1
            /\ \A i \in 1..Len(w) : Append(w, KeyLine)[i] = w[i]
            /\ Append(w, KeyLine)[Len(w) + 1] = KeyLine
        <5>1. \A t \in Seq(IniLine), k \in IniLine :
                /\ Len(Append(t, k)) = Len(t) + 1
                /\ \A i \in 1..Len(t) : Append(t, k)[i] = t[i]
                /\ Append(t, k)[Len(t) + 1] = k
          OBVIOUS
        <5> QED BY <1>k, <2>5, <5>1, Zenon
      <4>2. 1 \in 1..Len(w) /\ 2 \in 1..Len(w) /\ Len(w) + 1 = 3
        BY <2>5
      <4> HIDE DEF KeyLine
      <4> QED BY <2>2, <4>1, <4>2
    <3> QED BY <1>k, <2>0, <2>4, <3>1
  <2> QED BY <1>2, <2>1, <2>2
<1>4. read_ini_key(file, "api_id") = file.lines[1].val
  <2>1. \A i \in 1..Len(file.lines) : i > 1 => file.lines[i].key # "api_id"
    BY <1>3
  <2>2. file.lines[1].key = "api_id"
    BY <1>3
  <2> QED BY <1>3, <2>1, <2>2, LastHit, Zenon
<1>5. read_ini_key(file, "api_hash") = file.lines[2].val
  <2>1. \A i \in 1..Len(file.lines) : i > 2 => file.lines[i].key # "api_hash"
    BY <1>3
  <2>2. file.lines[2].key = "api_hash"
    BY <1>3
  <2> QED BY <1>3, <2>1, <2>2, LastHit, Zenon
<1> QED BY <1>3, <1>4, <1>5

\* Every value read is one a file can hold.
LEMMA ReadType ==
  ASSUME NEW file \in IniFile, NEW key
  PROVE  read_ini_key(file, key) \in Texts
<1> DEFINE hits == {i \in 1..Len(file.lines) : file.lines[i].key = key}
           last == CHOOSE i \in hits : \A j \in hits : j <= i
<1>0. Len(file.lines) \in Nat /\ \A i \in 1..Len(file.lines) : file.lines[i] \in IniLine
  BY DEF IniFile
<1>1. CASE hits = {}
  BY <1>1 DEF read_ini_key, Texts
<1>2. CASE hits # {}
  <2>1. hits \subseteq 1..Len(file.lines)
    OBVIOUS
  <2>2. \E i \in hits : \A j \in hits : j <= i
    <3> HIDE DEF hits
    <3> QED BY <1>0, <1>2, <2>1, Greatest, Zenon
  <2>3. last \in hits
    BY <2>2, Zenon
  <2>4. read_ini_key(file, key) = file.lines[last].val
    BY <1>2, Zenon DEF read_ini_key
  <2> HIDE DEF last
  <2> QED BY <1>0, <2>3, <2>4 DEF IniLine
<1> QED BY <1>1, <1>2

\* The first state has the invariant.
LEMMA InitSetup == SInit => SetupInv
<1> SUFFICES ASSUME SInit PROVE SetupInv
  OBVIOUS
<1>1. first \in IniFile /\ first.synced = TRUE /\ Absent \in IniFile /\ Absent.synced = TRUE
  <2>1. Absent \in IniFile /\ Absent.synced = TRUE
    BY DEF Absent, IniFile
  <2>2. first \in [there : BOOLEAN, synced : {TRUE}, lines : Seq(IniLine)]
    BY FilesAssumption, Zenon DEF SInit, IniLine
  <2> QED BY <2>1, <2>2, Zenon DEF IniFile
<1>2. env \in [id : Texts, hash : Texts]
  BY EnvironmentsAssumption DEF SInit
<1>3. disk.cfg = first /\ disk.old = first
      /\ disk \in [cfg : IniFile, tmp : IniFile, old : IniFile]
  BY <1>1 DEF SInit
<1>4. wiz = NoWizard /\ boot = Down
  BY DEF SInit
<1>5. SType
  <2>1. NoWizard \in [pc : {"idle", "id", "hash", "open", "flush", "sync", "rename"},
                      id : Int, hash : Texts, tries : Int]
    BY DEF NoWizard, Texts
  <2>2. Down \in [pc : {"down", "id", "hash", "ready", "refused"}, id : Int,
               hash : Texts, pem : Texts, file : IniFile, torn : BOOLEAN]
    BY <1>1 DEF Down, Texts
  <2> QED BY <1>1, <1>2, <1>3, <1>4, <2>1, <2>2 DEF SType
<1>6. WizardInv
  BY <1>4, Zenon DEF WizardInv, NoWizard
<1>7. FilesInv
  BY <1>1, <1>3 DEF FilesInv, Whole
<1> QED BY <1>5, <1>6, <1>7 DEF SetupInv

WizType == [pc : {"idle", "id", "hash", "open", "flush", "sync", "rename"},
            id : Int, hash : Texts, tries : Int]

\* The wizard when it is not running.
LEMMA NoWizardFacts ==
  NoWizard \in WizType /\ NoWizard.pc = "idle"
BY DEF NoWizard, WizType, Texts

\* The wizard's questions leave the files alone.
LEMMA AskSetup ==
  ASSUME SetupInv,
         \/ \E id \in IdTexts, hash \in HashTexts, force \in BOOLEAN :
              config_wizard_run_batch(id, hash, force)
         \/ \E force \in BOOLEAN : config_wizard_run_interactive(force)
         \/ \E id \in IdTexts : AskId(id)
         \/ \E hash \in HashTexts : AskHash(hash)
         \/ WizardDies
  PROVE  SetupInv'
<1>0. UNCHANGED <<env, first, disk, boot>>
  BY Zenon DEF config_wizard_run_batch, config_wizard_run_interactive, AskId, AskHash,
       WizardDies
<1>1. FilesInv'
  BY <1>0 DEF SetupInv, FilesInv, Whole
<1>w. wiz \in WizType
  BY DEF SetupInv, SType, WizType
<1>t. IdTexts \subseteq Texts /\ HashTexts \subseteq Texts
  BY DEF IdTexts, HashTexts, Texts
<1>r. /\ Wrong \in WizType /\ Wrong.pc \in {"idle", wiz.pc}
      /\ Wrong.pc = "idle" \/ Wrong.id = wiz.id
  BY <1>w, NoWizardFacts DEF Wrong, WizType
<1>2. wiz' \in WizType /\ WizardInv'
  <2>1. ASSUME NEW id \in IdTexts, NEW hash \in HashTexts, NEW force \in BOOLEAN,
               config_wizard_run_batch(id, hash, force)
        PROVE  wiz' \in WizType /\ WizardInv'
    BY <1>t, <2>1 DEF config_wizard_run_batch, parse_api_id, validate_api_hash,
         WizType, WizardInv
  <2>2. ASSUME NEW force \in BOOLEAN, config_wizard_run_interactive(force)
        PROVE  wiz' \in WizType /\ WizardInv'
    <3>1. wiz' \in WizType /\ wiz'.pc = "id"
      BY <2>2, NoWizardFacts DEF config_wizard_run_interactive, WizType
    <3> QED BY <3>1 DEF WizardInv
  <2>3. ASSUME NEW id \in IdTexts, AskId(id)
        PROVE  wiz' \in WizType /\ WizardInv'
    <3>1. CASE parse_api_id(id) > 0
      <4>1. parse_api_id(id) = 12
        BY <3>1 DEF parse_api_id
      <4>2. wiz' \in WizType /\ wiz'.pc = "hash" /\ wiz'.id = 12
        <5>1. wiz' = [wiz EXCEPT !.pc = "hash", !.id = 12, !.tries = 0]
          BY <2>3, <3>1, <4>1, Zenon DEF AskId
        <5>2. wiz' = [pc |-> "hash", id |-> 12, hash |-> wiz.hash, tries |-> 0]
          BY <1>w, <5>1, Zenon DEF WizType
        <5> QED BY <1>w, <5>2 DEF WizType
      <4> QED BY <4>2 DEF WizardInv
    <3>2. CASE ~(parse_api_id(id) > 0)
      BY <1>r, <2>3, <3>2, Zenon DEF AskId, WizardInv
    <3> QED BY <3>1, <3>2
  <2>4. ASSUME NEW hash \in HashTexts, AskHash(hash)
        PROVE  wiz' \in WizType /\ WizardInv'
    <3>0. wiz.pc = "hash" /\ wiz.id = 12
      BY <2>4, Zenon DEF AskHash, SetupInv, WizardInv
    <3>1. CASE validate_api_hash(hash)
      BY <1>w, <1>t, <2>4, <3>0, <3>1, Zenon
           DEF AskHash, validate_api_hash, WizType, WizardInv
    <3>2. CASE ~validate_api_hash(hash)
      BY <1>r, <2>4, <3>0, <3>2, Zenon DEF AskHash, WizardInv
    <3> QED BY <3>1, <3>2
  <2>5. CASE WizardDies
    BY <2>5, NoWizardFacts DEF WizardDies, WizardInv
  <2> QED BY <2>1, <2>2, <2>3, <2>4, <2>5
<1>3. SType'
  BY <1>0, <1>2 DEF SetupInv, SType, WizType
<1> QED BY <1>1, <1>2, <1>3 DEF SetupInv

\* Neither does a start.
LEMMA StartSetup ==
  ASSUME SetupInv, app_bootstrap \/ load_api_id \/ load_api_hash \/ Quit
  PROVE  SetupInv'
<1>0. UNCHANGED <<env, first, disk, wiz>>
  BY DEF app_bootstrap, load_api_id, load_api_hash, Quit
<1>1. FilesInv' /\ WizardInv'
  BY <1>0 DEF SetupInv, FilesInv, Whole, WizardInv
<1>2. /\ disk.cfg \in IniFile /\ env.id \in Texts /\ env.hash \in Texts
      /\ \A key : read_ini_key(disk.cfg, key) \in Texts
  BY ReadType DEF SetupInv, SType
<1> DEFINE T == [pc : {"down", "id", "hash", "ready", "refused"}, id : Int,
                 hash : Texts, pem : Texts, file : IniFile, torn : BOOLEAN]
<1>s. boot \in T
  BY DEF SetupInv, SType
<1>d. Down \in T
  <2>1. Absent \in IniFile
    BY DEF Absent, IniFile
  <2> QED BY <2>1 DEF Down, Texts
<1>3. boot' \in T
  <2>1. CASE app_bootstrap
    BY <1>2, <1>d, <2>1, Zenon DEF app_bootstrap
  <2>2. CASE load_api_id
    <3>1. \A text : atoi(text) \in Int
      BY DEF atoi
    <3> QED BY <1>2, <1>s, <2>2, <3>1, Zenon DEF load_api_id
  <2>3. CASE load_api_hash
    <3>1. "" \in Texts
      BY DEF Texts
    <3> QED BY <1>2, <1>s, <2>3, <3>1, Zenon DEF load_api_hash
  <2>4. CASE Quit
    BY <1>d, <2>4 DEF Quit
  <2> QED BY <2>1, <2>2, <2>3, <2>4
<1>4. SType'
  BY <1>0, <1>3 DEF SetupInv, SType
<1> QED BY <1>1, <1>4 DEF SetupInv

\* write_config, the power and the user.
LEMMA DiskSetup ==
  ASSUME SetupInv,
         OpenTmp \/ FlushTmp \/ SyncTmp \/ RenameTmp \/ PowerLoss \/ UserAddsKey
  PROVE  SetupInv'
<1> USE DEF SetupInv
<1>w. wiz \in WizType
  BY DEF SType, WizType
<1> DEFINE D == [cfg : IniFile, tmp : IniFile, old : IniFile]
<1>d. disk \in D /\ disk.cfg \in IniFile /\ disk.tmp \in IniFile /\ disk.old \in IniFile
  BY DEF SType
<1>a. Absent \in IniFile /\ Down \in [pc : {"down", "id", "hash", "ready", "refused"},
               id : Int, hash : Texts, pem : Texts, file : IniFile, torn : BOOLEAN]
  BY DEF Absent, IniFile, Down, Texts
<1>f. UNCHANGED <<env, first>> /\ Whole' = Whole
  BY Zenon DEF OpenTmp, FlushTmp, SyncTmp, RenameTmp, PowerLoss, UserAddsKey, Whole
<1>0. SUFFICES /\ wiz' \in WizType /\ disk' \in D /\ (UNCHANGED boot \/ boot' = Down)
               /\ WizardInv' /\ FilesInv'
  BY <1>a, <1>f DEF SType, WizType
<1>1. CASE OpenTmp
  <2>1. wiz' = [wiz EXCEPT !.pc = "flush"] /\ wiz.pc = "open" /\ UNCHANGED boot
    BY <1>1 DEF OpenTmp, Step
  <2>2. /\ disk'.cfg = disk.cfg /\ disk'.old = disk.old /\ disk' \in D
    <3>1. [File(<<>>) EXCEPT !.synced = FALSE] \in IniFile
      <4>1. File(<<>>) \in IniFile
        BY DEF File, IniFile
      <4> QED BY <4>1, Zenon DEF IniFile
    <3> QED BY <1>1, <1>d, <3>1, Zenon DEF OpenTmp
  <2>3. wiz' \in WizType /\ wiz'.pc = "flush" /\ wiz'.id = wiz.id /\ wiz'.hash = wiz.hash
    BY <1>w, <2>1 DEF WizType
  <2> QED BY <1>f, <2>1, <2>2, <2>3 DEF WizardInv, FilesInv
<1>2. CASE FlushTmp
  <2>0. wiz.pc = "flush" /\ wiz.id = 12 /\ wiz.hash \in {"hash", "hash2"}
    BY <1>2 DEF FlushTmp, WizardInv
  <2> DEFINE w == Written(12, wiz.hash)
  <2>w. w \in Seq(IniLine) /\ Len(w) = 2
    <3>1. wiz.hash \in Texts
      BY <2>0, Zenon DEF Texts
    <3> QED BY <3>1, WrittenFacts, Zenon
  <2>1. PICK n \in 0..2 :
          /\ disk' = [disk EXCEPT !.tmp.lines = SubSeq(w, 1, n)]
          /\ wiz' = IF n = 2 THEN [wiz EXCEPT !.pc = "sync"] ELSE NoWizard
    BY <1>2, <2>0, Zenon DEF FlushTmp
  <2> HIDE DEF w
  <2>2. SubSeq(w, 1, n) \in Seq(IniLine) /\ (n = 2 => SubSeq(w, 1, n) = w)
    <3>1. n \in 0..Len(w)
      BY <2>w
    <3> QED BY <2>w, <3>1, PrefixOfLines, Zenon
  <2>3. /\ disk'.cfg = disk.cfg /\ disk'.old = disk.old /\ disk' \in D
        /\ disk'.tmp.lines = SubSeq(w, 1, n)
    BY <1>d, <2>1, <2>2, Zenon DEF IniFile
  <2>4. UNCHANGED boot
    BY <1>2, SMTT(20) DEF FlushTmp
  <2>5. CASE n = 2
    <3>1. wiz' \in WizType /\ wiz'.pc = "sync" /\ wiz'.id = 12 /\ wiz'.hash = wiz.hash
      BY <1>w, <2>0, <2>1, <2>5 DEF WizType
    <3> QED BY <1>f, <2>0, <2>2, <2>3, <2>4, <2>5, <3>1 DEF WizardInv, FilesInv, w
  <2>6. CASE n # 2
    BY <1>f, <2>1, <2>3, <2>4, <2>6, NoWizardFacts DEF WizardInv, FilesInv
  <2> QED BY <2>5, <2>6
<1>3. CASE SyncTmp
  <2>0. wiz.pc = "sync" /\ UNCHANGED boot
    BY <1>3 DEF SyncTmp
  <2>1. CASE disk' = [disk EXCEPT !.tmp.synced = TRUE]
             /\ wiz' = [wiz EXCEPT !.pc = "rename"]
    <3>1. /\ disk'.cfg = disk.cfg /\ disk'.old = disk.old /\ disk' \in D
          /\ disk'.tmp.lines = disk.tmp.lines /\ disk'.tmp.synced = TRUE
      BY <1>d, <2>1, Zenon DEF IniFile
    <3>2. wiz' \in WizType /\ wiz'.pc = "rename" /\ wiz'.id = wiz.id /\ wiz'.hash = wiz.hash
      BY <1>w, <2>1 DEF WizType
    <3> QED BY <1>f, <2>0, <3>1, <3>2 DEF WizardInv, FilesInv
  <2>2. CASE wiz' = NoWizard /\ UNCHANGED disk
    BY <1>d, <1>f, <2>0, <2>2, NoWizardFacts, SMTT(20) DEF WizardInv, FilesInv
  <2> QED BY <1>3, <2>1, <2>2 DEF SyncTmp
<1>4. CASE RenameTmp
  <2>0. wiz' = NoWizard /\ UNCHANGED boot /\ wiz.pc = "rename"
    BY <1>4, SMTT(20) DEF RenameTmp
  <2>1. CASE disk' = [cfg |-> disk.tmp, tmp |-> Absent, old |-> disk.cfg]
    <3>1. disk'.cfg = disk.tmp /\ disk'.old = disk.cfg /\ disk' \in D
      BY <1>a, <1>d, <2>1, SMTT(20)
    <3>2. disk.tmp.synced /\ disk.tmp.lines \in Whole
      BY <2>0 DEF WizardInv, Whole, Saved
    <3> QED BY <1>f, <2>0, <3>1, <3>2, NoWizardFacts DEF WizardInv, FilesInv
  <2>2. CASE UNCHANGED disk
    BY <1>d, <1>f, <2>0, <2>2, NoWizardFacts, SMTT(20) DEF WizardInv, FilesInv
  <2> QED BY <1>4, <2>1, <2>2 DEF RenameTmp
<1>5. CASE PowerLoss
  <2>0. wiz' = NoWizard /\ boot' = Down
    BY <1>5 DEF PowerLoss
  <2>1. PICK cfg \in AfterPowerLoss(disk.cfg) \cup {disk.old}, tmp \in AfterPowerLoss(disk.tmp) :
          disk' = [cfg |-> cfg, tmp |-> tmp, old |-> cfg]
    BY <1>5 DEF PowerLoss
  <2>2. cfg = disk.cfg \/ cfg = disk.old
    BY DEF AfterPowerLoss, FilesInv
  <2>3. tmp \in IniFile
    <3>1. [disk.tmp EXCEPT !.lines = <<>>, !.synced = TRUE] \in IniFile
      <4>1. \A lines \in Seq(IniLine), b \in BOOLEAN :
              [disk.tmp EXCEPT !.lines = lines, !.synced = b] \in IniFile
        BY <1>d, Zenon DEF IniFile
      <4>2. <<>> \in Seq(IniLine) /\ TRUE \in BOOLEAN
        OBVIOUS
      <4> QED BY <4>1, <4>2, Zenon
    <3> QED BY <1>d, <3>1 DEF AfterPowerLoss
  <2> QED BY <1>d, <1>f, <2>0, <2>1, <2>2, <2>3, NoWizardFacts, SMTT(20)
          DEF WizardInv, FilesInv
<1>6. CASE UserAddsKey
  <2> DEFINE lines == Append(disk.cfg.lines, KeyLine)
  <2>k. KeyLine \in IniLine
    BY DEF KeyLine, Line, IniLine, Keys, Texts
  <2>0. read_ini_key(disk.cfg, "rsa_pem") = "" /\ UNCHANGED <<wiz, boot>>
    BY <1>6, Zenon DEF UserAddsKey
  <2>1. disk' = [disk EXCEPT !.cfg = File(lines)]
    BY <1>6, Zenon DEF UserAddsKey, KeyLine
  <2>2. File(lines) \in IniFile /\ File(lines).lines = lines /\ File(lines).synced = TRUE
    BY <1>d, <2>k DEF File, IniFile
  <2>3. disk' \in D /\ disk'.cfg = File(lines) /\ disk'.old = disk.old
        /\ disk'.tmp = disk.tmp
    BY <1>d, <2>1, <2>2
  <2>4. lines \in Whole
    <3>1. \A t \in Seq(IniLine) : disk.cfg.lines # Append(t, KeyLine)
      BY <1>d, <2>0, ReadKey, Zenon
    <3>2. first.lines \in Seq(IniLine)
      BY DEF SType, IniFile
    <3>3. \A hash \in {"hash", "hash2"} : Written(12, hash) \in Seq(IniLine)
      <4>1. "hash" \in Texts /\ "hash2" \in Texts
        BY DEF Texts
      <4> QED BY <4>1, WrittenFacts, Zenon
    <3>4. disk.cfg.lines \in Whole
      BY DEF FilesInv
    <3> QED BY <3>1, <3>2, <3>3, <3>4, Zenon DEF Whole, Saved, KeyLine
  <2> QED BY <1>f, <1>w, <2>0, <2>2, <2>3, <2>4, Zenon DEF WizardInv, FilesInv
<1> QED BY <1>1, <1>2, <1>3, <1>4, <1>5, <1>6

\* Every step keeps the invariant.
LEMMA NextSetup == SetupInv /\ [SNext]_svars => SetupInv'
<1> SUFFICES ASSUME SetupInv, [SNext]_svars PROVE SetupInv'
  OBVIOUS
<1>1. CASE UNCHANGED svars
  BY <1>1 DEF svars, SetupInv, SType, WizardInv, FilesInv, Whole
<1>2. CASE SNext
  BY <1>2, AskSetup, StartSetup, DiskSetup DEF SNext
<1> QED BY <1>1, <1>2, SMTT(20)

(***************************************************************************)
(* Wherever a wizard is killed or the power fails, config.ini holds what   *)
(* it held at first or the whole of what some wizard was given.            *)
(***************************************************************************)
THEOREM ConfigStaysWhole == SSpec => []ConfigWhole
<1>1. SetupInv => ConfigWhole
  BY WholeIs DEF SetupInv, FilesInv
<1> QED BY InitSetup, NextSetup, <1>1, PTL DEF SSpec

\* A start that has read its api_id from a file has the id of that file.
LoadInv ==
  /\ boot.pc \in {"hash", "ready", "refused"} /\ boot.pem # "" =>
       boot.file.lines \in Whole
  /\ boot.pc = "hash" /\ env = [id |-> "", hash |-> ""] =>
       boot.id = atoi(read_ini_key(boot.file, "api_id"))
  /\ SavedIsLoaded

\* A whole file was not written for the refused hash.
LEMMA WholeNotCut ==
  ASSUME SetupInv, first \in FirstFiles
  PROVE  Whole \cap Saved("cut") = {}
<1>1. first.lines \notin Saved("cut") /\ Append(first.lines, KeyLine) \notin Saved("cut")
  BY NoForgery, Zenon DEF KeyLine
<1>2. ASSUME NEW hash \in {"hash", "hash2"}, NEW t \in Saved(hash) PROVE t \notin Saved("cut")
  <2> DEFINE f == File(t)
  <2>t. hash \in Texts /\ "cut" \in Texts
    BY Zenon DEF Texts
  <2>1. t \in Seq(IniLine)
    <3>1. KeyLine \in IniLine
      BY DEF KeyLine, Line, IniLine, Keys, Texts
    <3>2. \A w \in Seq(IniLine) : Append(w, KeyLine) \in Seq(IniLine)
      BY <3>1
    <3>3. Written(12, hash) \in Seq(IniLine)
      BY <2>t, WrittenFacts, Zenon
    <3> QED BY <3>2, <3>3, Zenon DEF Saved, KeyLine
  <2>2. f \in IniFile /\ f.lines = t
    BY <2>1 DEF File, IniFile
  <2> HIDE DEF f
  <2>3. read_ini_key(f, "api_hash") = hash
    BY <2>t, <2>2, ReadSaved
  <2>4. t \in Saved("cut") => read_ini_key(f, "api_hash") = "cut"
    BY <2>t, <2>2, ReadSaved
  <2> QED BY <2>3, <2>4
<1> QED BY <1>1, <1>2, Zenon DEF Whole

\* Every step keeps what a start has loaded.
LEMMA NextLoad ==
  ASSUME SetupInv, first \in FirstFiles, LoadInv, [SNext]_svars
  PROVE  LoadInv'
<1>f. UNCHANGED <<env, first>>
  BY Zenon DEF SNext, svars, config_wizard_run_batch, config_wizard_run_interactive,
       AskId,
         AskHash, OpenTmp, FlushTmp, SyncTmp, RenameTmp, WizardDies, PowerLoss,
         app_bootstrap, load_api_id, load_api_hash, Quit, UserAddsKey
<1>w. Whole' = Whole
  BY <1>f DEF Whole
<1>t. /\ boot \in [pc : {"down", "id", "hash", "ready", "refused"}, id : Int,
               hash : Texts, pem : Texts, file : IniFile, torn : BOOLEAN]
      /\ disk.cfg \in IniFile
  BY DEF SetupInv, SType
<1>1. CASE UNCHANGED boot
  BY <1>f, <1>w, <1>1, Zenon DEF LoadInv, SavedIsLoaded
<1>2. CASE boot' = Down
  BY <1>2, Zenon DEF LoadInv, SavedIsLoaded, Down
<1>3. CASE app_bootstrap
  <2>1. Down.pem = ""
        /\ Down \in [pc : {"down", "id", "hash", "ready", "refused"}, id : Int,
               hash : Texts, pem : Texts, file : IniFile, torn : BOOLEAN]
    BY DEF Down, Texts, Absent, IniFile
  <2>2. boot'.pc = "id" \/ (boot'.pc = "refused" /\ boot'.pem = "")
    <3>1. \/ boot' = [Down EXCEPT !.pc = "id", !.pem = "pem"]
          \/ boot' = [Down EXCEPT !.pc = "refused"]
      BY <1>3, Zenon DEF app_bootstrap
    <3>2. DOMAIN Down = {"pc", "id", "hash", "pem", "file", "torn"}
      BY DEF Down
    <3>3. [Down EXCEPT !.pc = "id", !.pem = "pem"].pc = "id"
      BY <3>2, Zenon
    <3>4. [Down EXCEPT !.pc = "refused"].pc = "refused"
          /\ [Down EXCEPT !.pc = "refused"].pem = Down.pem
      BY <3>2, Zenon
    <3> QED BY <2>1, <3>1, <3>3, <3>4, Zenon
  <2> QED BY <2>2, Zenon DEF LoadInv, SavedIsLoaded
<1>4. CASE load_api_id
  <2>1. /\ boot'.pc = "hash" /\ boot'.file = disk.cfg
        /\ boot'.id = IF atoi(env.id) # 0 THEN atoi(env.id)
                       ELSE atoi(read_ini_key(disk.cfg, "api_id"))
    BY <1>4, <1>t DEF load_api_id
  <2>2. env = [id |-> "", hash |-> ""] => atoi(env.id) = 0
    <3>1. [id |-> "", hash |-> ""].id = ""
      OBVIOUS
    <3>2. atoi("") = 0
      BY DEF atoi
    <3> QED BY <3>1, <3>2, Zenon
  <2>3. disk.cfg.lines \in Whole
    BY DEF SetupInv, FilesInv
  <2> QED BY <1>f, <1>w, <2>1, <2>2, <2>3, Zenon DEF LoadInv, SavedIsLoaded
<1>5. CASE load_api_hash
  <2>0. /\ boot.pc = "hash" /\ boot'.file = boot.file /\ boot'.pem = boot.pem
        /\ boot'.id = boot.id /\ boot'.torn = (disk.cfg # boot.file)
        /\ boot'.pc \in {"ready", "refused"}
    BY <1>5, <1>t DEF load_api_hash
  <2>1. ASSUME boot'.pem # "", ~boot'.torn, env = [id |-> "", hash |-> ""],
               NEW hash \in HashTexts, boot'.file.lines \in Saved(hash)
        PROVE  boot'.pc = "ready" /\ boot'.id = 12 /\ boot'.hash = hash
    <3>1. disk.cfg = boot.file /\ boot.file.lines \in Whole
      BY <2>0, <2>1, Zenon DEF LoadInv
    <3>2. hash \in {"hash", "hash2"} /\ hash \in Texts
      BY <2>0, <2>1, <3>1, WholeNotCut, Zenon DEF HashTexts, Texts
    <3>3. read_ini_key(disk.cfg, "api_id") = "12"
          /\ read_ini_key(disk.cfg, "api_hash") = hash
      BY <1>t, <2>0, <2>1, <3>1, <3>2, ReadSaved, Zenon
    <3>4. boot.id = 12
      BY <2>0, <2>1, <3>1, <3>3, Zenon DEF LoadInv, atoi
    <3>5. env.hash = "" /\ is_valid_api_hash(hash) /\ hash # ""
      BY <2>1, <3>2, Zenon DEF is_valid_api_hash
    <3>6. boot' = [boot EXCEPT !.hash = hash, !.torn = disk.cfg # boot.file, !.pc = "ready"]
      <4> DEFINE text == IF env.hash # "" THEN env.hash
                         ELSE read_ini_key(disk.cfg, "api_hash")
                 unseen == env.hash # "" /\ atoi(env.id) = 0
                 h == IF unseen \/ is_valid_api_hash(text) THEN text ELSE ""
      <4>1. text = hash
        BY <3>3, <3>5, Zenon
      <4>2. h = hash
        BY <3>5, <4>1, Zenon
      <4>3. boot' = [boot EXCEPT !.hash = h, !.torn = disk.cfg # boot.file,
                        !.pc = IF boot.id = 0 \/ h = "" THEN "refused" ELSE "ready"]
        BY <1>5, Zenon DEF load_api_hash
      <4> HIDE DEF h, text, unseen
      <4>4. ~(boot.id = 0 \/ h = "")
        <5>1. h # ""
          BY <3>5, <4>2, Zenon
        <5>2. boot.id # 0
          BY <3>4
        <5> QED BY <5>1, <5>2, Zenon
      <4> QED BY <4>2, <4>3, <4>4, Zenon
    <3> QED BY <1>t, <2>0, <3>4, <3>6
  <2> QED BY <1>f, <1>w, <2>0, <2>1, Zenon DEF LoadInv, SavedIsLoaded
<1> QED BY <1>1, <1>2, <1>3, <1>4, <1>5, Zenon
        DEF SNext, svars, config_wizard_run_batch, config_wizard_run_interactive, AskId,
         AskHash, OpenTmp, FlushTmp, SyncTmp, RenameTmp, WizardDies, PowerLoss, Quit, UserAddsKey

(***************************************************************************)
(* What the wizard saved a start loads: credentials_load accepts every     *)
(* file write_config makes and finds in it the pair the user typed.        *)
(***************************************************************************)
THEOREM WizardFilesLoad == SSpec => []SavedIsLoaded
<1>1. SInit => SetupInv /\ first \in FirstFiles /\ LoadInv
  <2> SUFFICES ASSUME SInit PROVE first \in FirstFiles /\ LoadInv
    BY InitSetup
  <2>1. first \in FirstFiles /\ boot.pc = "down"
    BY Zenon DEF SInit, Down
  <2> QED BY <2>1 DEF LoadInv, SavedIsLoaded
<1>2. ASSUME SetupInv, first \in FirstFiles, LoadInv, [SNext]_svars
      PROVE  SetupInv' /\ (first \in FirstFiles)' /\ LoadInv'
  <2>1. UNCHANGED first
    BY <1>2, Zenon DEF SNext, svars, config_wizard_run_batch,
         config_wizard_run_interactive,
         AskId,
         AskHash, OpenTmp, FlushTmp, SyncTmp, RenameTmp, WizardDies, PowerLoss,
         app_bootstrap, load_api_id, load_api_hash, Quit, UserAddsKey
  <2> QED BY <1>2, <2>1, NextSetup, NextLoad
<1>3. LoadInv => SavedIsLoaded
  BY Zenon DEF LoadInv
<1> QED BY <1>1, <1>2, <1>3, PTL DEF SSpec
=============================================================================
