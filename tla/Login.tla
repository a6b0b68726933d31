-------------------------------- MODULE Login --------------------------------
(***************************************************************************)
(* How a tg-cli process gets an authorized session: app/auth_flow.c, its   *)
(* persistence in session.bin, app/dc_session.c and auth_transfer.c for    *)
(* the other data centres, and --logout.  One process at a time runs, and  *)
(* may die anywhere; session.bin is used through whole saves and loads     *)
(* (SessionStore justifies that for one writer).  A network failure, a     *)
(* refusal by the server and a failing prompt all end a step with -1.      *)
(***************************************************************************)
EXTENDS StoreFormat

CONSTANTS StartDc,         \* cfg->start_dc, or DEFAULT_DC_ID
          MaxMigrations,   \* AUTH_MAX_MIGRATIONS
          NoKey,           \* has_auth_key = 0
          SaveFaults       \* {"disk"} if a save may fail, {} if it does not

\* Test DCs have negative ids: -N shares the endpoint of N.
ASSUME SignAssumption == \A dc \in DC : -dc \in DC
ASSUME StartAssumption == StartDc \subseteq DC
ASSUME NoKeyAssumption == NoKey \notin Key
ASSUME MigrationAssumption == MaxMigrations \in Nat
ASSUME FaultAssumption == SaveFaults \subseteq {"disk"}

VARIABLES pc,           \* the next call the process makes
          s,            \* the auth key of the home session
          current_dc,
          migrations,
          start,        \* the DC this login started from
          codeFor,      \* the key under which sent.phone_code_hash was issued
          x,            \* the DcSession of another DC
          store,        \* session.bin
          issued,       \* the keys that handshakes made so far
          signed        \* the keys a server ever bound to the account

local == <<s, current_dc, migrations, start, codeFor, x>>
vars == <<pc, s, current_dc, migrations, start, codeFor, x, store, issued, signed>>

NoDc == [dc |-> 0, key |-> NoKey, authorized |-> 0]

LoginStep == {"connect", "send_code", "resend_code", "get_code", "sign_in", "sign_up",
              "get_password", "check_password"}
ForeignStep == {"export", "import"}
Steps == LoginStep \cup ForeignStep \cup {"idle", "save", "ready", "foreign", "logout"}

\* A process that has not started yet, and session.bin of a new user.
Init ==
  /\ pc = "idle" /\ s = NoKey /\ current_dc = 0 /\ migrations = 0 /\ start = 0
  /\ codeFor = NoKey /\ x = NoDc /\ store = EmptyFile /\ issued = {} /\ signed = {}

\* The process ends.
Leave ==
  /\ pc' = "idle" /\ s' = NoKey /\ current_dc' = 0 /\ migrations' = 0 /\ start' = 0
  /\ codeFor' = NoKey /\ x' = NoDc

\* mtproto_auth_key_gen with a DC makes the next of its keys.
Fresh(dc) ==
  {k \in Key \ issued :
     k.dc = dc /\ \A j \in Key \ issued : j.dc = dc => j.gen >= k.gen}

\* upsert as its callers see it: it needs a slot, and the disk may fail; its
\* callers go on either way.
Persist(dc, key, set_home) ==
  store' \in {IF Fits(store, dc) THEN Upserted(store, dc, key, set_home) ELSE store}
              \cup {store : fault \in SaveFaults}

HomeKey == store.entries[find_entry(store, store.home)].key

\* auth_flow_login up to the end of its fast path: a stored home session is
\* taken as it is if its DC can be reached.
Restore ==
  /\ pc = "idle"
  /\ store.home # 0 /\ HasEntry(store, store.home)
  /\ pc' = "ready" /\ s' = HomeKey /\ current_dc' = store.home
  /\ UNCHANGED <<migrations, start, codeFor, x, store, issued, signed>>

\* Nothing stored, or the stored session's DC cannot be reached.
StartLogin ==
  /\ pc = "idle"
  /\ \E dc \in StartDc : start' = dc /\ current_dc' = dc
  /\ pc' = "connect"
  /\ UNCHANGED <<s, migrations, codeFor, x, store, issued, signed>>

\* connect_dc_ex and get_phone.
Connect ==
  /\ pc = "connect"
  /\ \E k \in Fresh(current_dc) : s' = k /\ issued' = issued \cup {k}
  /\ pc' = "send_code"
  /\ UNCHANGED <<current_dc, migrations, start, codeFor, x, store, signed>>

\* auth_send_code answers with a hash; sentCodeTypeApp asks for a resend.
SendCode ==
  /\ pc = "send_code" /\ s # NoKey
  /\ codeFor' = s
  /\ pc' \in {"resend_code", "get_code"}
  /\ UNCHANGED <<s, current_dc, migrations, start, x, store, issued, signed>>

\* What PHONE_MIGRATE_X, NETWORK_MIGRATE_X and the like can name.
Redirect == {dc \in DC : dc > 0}

\* A target that forgets which environment the session is in.
TargetUnsigned(dc) == dc

Target(dc) == IF current_dc < 0 THEN -dc ELSE dc

\* SendCodeMigrate whose migrate does not reset the session.
SendCodeMigrateKeepsKey ==
  /\ pc = "send_code" /\ s # NoKey
  /\ migrations < MaxMigrations
  /\ migrations' = migrations + 1
  /\ \E dc \in Redirect : current_dc' = Target(dc)
  /\ UNCHANGED <<pc, s, start, codeFor, x, store, issued, signed>>

\* auth_send_code answers with a redirect.  migrate resets the session and
\* makes a key at the target; when that fails, migrate_soft only reconnects,
\* and the session stays reset.
SendCodeMigrate ==
  /\ pc = "send_code" /\ s # NoKey
  /\ migrations < MaxMigrations
  /\ migrations' = migrations + 1
  /\ \E dc \in Redirect :
       /\ current_dc' = Target(dc)
       /\ \/ \E k \in Fresh(Target(dc)) : s' = k /\ issued' = issued \cup {k}
          \/ s' = NoKey /\ UNCHANGED issued
  /\ UNCHANGED <<pc, start, codeFor, x, store, signed>>

\* auth_resend_code: a failure is ignored.
ResendCode ==
  /\ pc = "resend_code"
  /\ pc' = "get_code"
  /\ UNCHANGED <<local, store, issued, signed>>

\* cb->get_code.
GetCode ==
  /\ pc = "get_code"
  /\ pc' = "sign_in"
  /\ UNCHANGED <<local, store, issued, signed>>

\* A server signs a key in with a code it issued under that key.
Bind == codeFor = s /\ signed' = signed \cup {s}

\* auth_sign_in: signed in, or the account is new, or it has a password.
SignIn ==
  /\ pc = "sign_in"
  /\ \/ pc' = "save" /\ Bind
     \/ pc' \in {"sign_up", "get_password"} /\ UNCHANGED signed
  /\ UNCHANGED <<local, store, issued>>

\* SignInMigrate that goes on with the sign-in at the target.
SignInMigrateContinues ==
  /\ pc = "sign_in"
  /\ migrations < MaxMigrations
  /\ migrations' = migrations + 1
  /\ \E dc \in Redirect :
       /\ current_dc' = Target(dc)
       /\ \E k \in Fresh(Target(dc)) : s' = k /\ issued' = issued \cup {k}
  /\ UNCHANGED <<pc, start, codeFor, x, store, signed>>

\* auth_sign_in answers with a redirect: a key is made at the target and the
\* login still ends with -1.
SignInMigrate ==
  /\ pc = "sign_in"
  /\ migrations < MaxMigrations
  /\ \E dc \in Redirect, k \in Key : k \in Fresh(Target(dc)) /\ issued' = issued \cup {k}
  /\ Leave
  /\ UNCHANGED <<store, signed>>

\* auth_sign_up for a new account.
SignUp ==
  /\ pc = "sign_up"
  /\ pc' = "save" /\ Bind
  /\ UNCHANGED <<local, store, issued>>

\* auth_2fa_get_password and cb->get_password.
GetPassword ==
  /\ pc = "get_password"
  /\ pc' = "check_password"
  /\ UNCHANGED <<local, store, issued, signed>>

\* auth_2fa_check_password.
CheckPassword ==
  /\ pc = "check_password"
  /\ pc' = "save" /\ Bind
  /\ UNCHANGED <<local, store, issued>>

\* session_store_save; its failure is only logged.
Save ==
  /\ pc = "save"
  /\ Persist(current_dc, s, TRUE)
  /\ pc' = "ready" /\ codeFor' = NoKey /\ migrations' = 0 /\ start' = 0
  /\ UNCHANGED <<s, current_dc, x, issued, signed>>

\* Every step of the login may return -1.
LoginFails ==
  /\ pc \in LoginStep
  /\ Leave
  /\ UNCHANGED <<store, issued, signed>>

\* OpenForeign that stores a fresh key with session_store_save.
OpenForeignAsHome ==
  /\ pc = "ready"
  /\ \E dc \in Redirect \ {current_dc}, k \in Key :
       /\ k \in Fresh(dc)
       /\ issued' = issued \cup {k}
       /\ x' = [dc |-> dc, key |-> k, authorized |-> 0]
       /\ Persist(dc, k, TRUE)
       /\ pc' = "export"
  /\ UNCHANGED <<s, current_dc, migrations, start, codeFor, signed>>

\* dc_session_open after FILE_MIGRATE_X: a stored key counts as authorized,
\* a fresh one is stored before it is.  The code does not compare X with the
\* home DC; that a server never redirects to itself is assumed of the server.
OpenForeign ==
  /\ pc = "ready"
  /\ \E dc \in Redirect \ {current_dc} :
       \/ /\ HasEntry(store, dc)
          /\ x' = [dc |-> dc, key |-> store.entries[find_entry(store, dc)].key,
                   authorized |-> 1]
          /\ pc' = "foreign"
          /\ UNCHANGED <<store, issued>>
       \/ \E k \in Fresh(dc) :
            /\ issued' = issued \cup {k}
            /\ x' = [dc |-> dc, key |-> k, authorized |-> 0]
            /\ Persist(dc, k, FALSE)
            /\ pc' = "export"
  /\ UNCHANGED <<s, current_dc, migrations, start, codeFor, signed>>

\* dc_session_ensure_authorized: auth_transfer_export at home, which needs a
\* signed-in key ...
Export ==
  /\ pc = "export" /\ s \in signed
  /\ pc' = "import"
  /\ UNCHANGED <<local, store, issued, signed>>

\* Import that stores the key with session_store_save.
ImportAsHome ==
  /\ pc = "import"
  /\ signed' = signed \cup {x.key}
  /\ x' = [x EXCEPT !.authorized = 1]
  /\ Persist(x.dc, x.key, TRUE)
  /\ pc' = "foreign"
  /\ UNCHANGED <<s, current_dc, migrations, start, codeFor, issued>>

\* ... and auth_transfer_import there.  auth.authorization binds the key,
\* auth.authorizationSignUpRequired does not; the code takes both for success.
Import ==
  /\ pc = "import"
  /\ signed' \in {signed, signed \cup {x.key}}
  /\ x' = [x EXCEPT !.authorized = 1]
  /\ Persist(x.dc, x.key, FALSE)
  /\ pc' = "foreign"
  /\ UNCHANGED <<s, current_dc, migrations, start, codeFor, issued>>

\* The export, the import, or the retried call at the other DC is over;
\* dc_session_close.
CloseForeign ==
  /\ pc \in ForeignStep \cup {"foreign"}
  /\ pc' = "ready" /\ x' = NoDc
  /\ UNCHANGED <<s, current_dc, migrations, start, codeFor, store, issued, signed>>

\* --logout loads the home session and asks the server to forget it ...
StartLogout ==
  /\ pc = "idle"
  /\ pc' = "logout"
  /\ UNCHANGED <<local, store, issued, signed>>

\* ... and whatever the server says, session_store_clear.  A process that
\* dies in between (Exit) leaves a session the server may have forgotten;
\* signed, which only grows, does not record that.
Logout ==
  /\ pc = "logout"
  /\ store' = EmptyFile
  /\ Leave
  /\ UNCHANGED <<issued, signed>>

\* The command is done, or the process is killed.
Exit ==
  /\ pc # "idle"
  /\ Leave
  /\ UNCHANGED <<store, issued, signed>>

Next ==
  \/ Restore \/ StartLogin \/ Connect \/ SendCode \/ SendCodeMigrate \/ ResendCode
  \/ GetCode \/ SignIn \/ SignInMigrate \/ SignUp \/ GetPassword \/ CheckPassword
  \/ Save \/ LoginFails \/ OpenForeign \/ Export \/ Import \/ CloseForeign
  \/ StartLogout \/ Logout \/ Exit

Spec == Init /\ [][Next]_vars

-----------------------------------------------------------------------------
\* Every variable has its type, and a login follows at most MaxMigrations
\* redirects.
TypeOK ==
  /\ pc \in Steps
  /\ s \in Key \cup {NoKey} /\ codeFor \in Key \cup {NoKey}
  /\ current_dc \in DC \cup {0} /\ start \in StartDc \cup {0}
  /\ migrations \in 0 .. MaxMigrations
  /\ x \in [dc : DC \cup {0}, key : Key \cup {NoKey}, authorized : {0, 1}]
  /\ store \in StoreFile /\ issued \subseteq Key /\ signed \subseteq Key

\* session.bin never holds, for a DC, a key that another DC made: through
\* every migration, full or soft, the session that is saved is one of the DC
\* it is saved for.
StoredKeysMatch == WellFormed(store)

\* The session auth_flow_login returns with has been signed in, also when it
\* comes from session.bin: no half-finished login and no key of another DC
\* is ever restored as the home session.  (Whether the server has revoked it
\* since, the client cannot know.)
ReadyIsSignedIn ==
  pc \in ForeignStep \cup {"ready", "foreign"} => s \in signed

\* auth.signIn, auth.signUp and auth.checkPassword go out under the very key
\* that phone_code_hash was issued for, whatever redirects came before.
CodeFromSameKey ==
  pc \in {"get_code", "sign_in", "sign_up", "get_password", "check_password"} =>
    s # NoKey /\ codeFor = s

\* A login that starts at a test DC ends at a test DC and one that starts at
\* a production DC at a production DC.
SameEnvironment == start # 0 => (start < 0 <=> current_dc < 0)

\* session_store_save_dc "without changing home_dc_id": nothing a command
\* does at other DCs changes which session the next run restores.
HomeKept ==
  [][(pc \in ForeignStep \cup {"ready", "foreign"}) => store'.home = store.home]_vars
=============================================================================
