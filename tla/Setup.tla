-------------------------------- MODULE Setup --------------------------------
(***************************************************************************)
(* config.ini: the `login` wizard that writes it, and a program start that *)
(* reads the server key, api_id and api_hash from it.  A file is the       *)
(* sequence of its key=value lines.  The wizard writes config.ini.tmp,     *)
(* flushes, syncs and renames; it may be killed anywhere, and the power    *)
(* may fail, which loses what was not synced and may undo a rename.        *)
(***************************************************************************)
EXTENDS Integers, Sequences

CONSTANTS
    MAX_RETRIES,  \* how often the wizard asks for one value
    FirstFiles,   \* what config.ini may hold before the first wizard
    Environments  \* the environment's TG_CLI_API_ID and TG_CLI_API_HASH

ASSUME RetriesAssumption == MAX_RETRIES \in Nat \ {0}

\* The keys a start reads, and the values the conversions below tell apart.
Keys == {"rsa_pem", "api_id", "api_hash"}
Texts == {"", "0", "12", "12x", "word", "hash", "hash2", "cut", "pem"}

ASSUME FilesAssumption ==
    FirstFiles \subseteq [there : BOOLEAN, synced : {TRUE},
                          lines : Seq([key : Keys, val : Texts])]
ASSUME EnvironmentsAssumption == Environments \subseteq [id : Texts, hash : Texts]

VARIABLES
    env,    \* what the environment sets, "" for nothing
    first,  \* config.ini at the beginning
    disk,   \* config.ini, config.ini.tmp, and config.ini before the last rename
    wiz,    \* the wizard
    boot    \* a program's start, up to its credentials

svars == <<env, first, disk, wiz, boot>>

Absent == [there |-> FALSE, lines |-> <<>>, synced |-> TRUE]
File(lines) == [there |-> TRUE, lines |-> lines, synced |-> TRUE]
Line(key, val) == [key |-> key, val |-> val]

NoWizard == [pc |-> "idle", id |-> 0, hash |-> "", tries |-> 0]
Down == [pc |-> "down", id |-> 0, hash |-> "", pem |-> "", file |-> Absent, torn |-> FALSE]

SInit ==
    /\ env \in Environments
    /\ first \in FirstFiles
    /\ disk = [cfg |-> first, tmp |-> Absent, old |-> first]
    /\ wiz = NoWizard
    /\ boot = Down

---------------------------------------------------------------------------
(* Values: what the conversions make of the texts a user can give.         *)

\* atoi: the leading number, 0 where there is none.
atoi(text) == IF text \in {"12", "12x"} THEN 12 ELSE 0

\* strtol over the whole text, and positive.
parse_api_id(text) == IF text = "12" THEN 12 ELSE -1

\* 32 lowercase hexadecimal digits; "cut" is a hash with its end missing.
is_valid_api_hash(text) == text \in {"hash", "hash2"}

MutantValidate(text) == text # ""
validate_api_hash(text) == text \in {"hash", "hash2"}

\* The last line of the key counts; an empty value is as good as none.
read_ini_key(file, key) ==
    LET hits == {i \in 1..Len(file.lines) : file.lines[i].key = key}
    IN  IF hits = {} THEN ""
        ELSE file.lines[CHOOSE i \in hits : \A j \in hits : j <= i].val

---------------------------------------------------------------------------
(* The wizard.                                                             *)

file_nonempty(file) == file.there /\ file.lines # <<>>

IdTexts == {"12", "12x", "word"}
HashTexts == {"hash", "hash2", "cut"}

\* `login --api-id I --api-hash H [--force]`.
config_wizard_run_batch(id, hash, force) ==
    /\ wiz.pc = "idle"
    /\ parse_api_id(id) > 0
    /\ validate_api_hash(hash)
    /\ force \/ ~file_nonempty(disk.cfg)
    /\ wiz' = [pc |-> "open", id |-> parse_api_id(id), hash |-> hash, tries |-> 0]
    /\ UNCHANGED <<env, first, disk, boot>>

\* `login [--force]` looks at the file first and asks afterwards.
config_wizard_run_interactive(force) ==
    /\ wiz.pc = "idle"
    /\ force \/ ~file_nonempty(disk.cfg)
    /\ wiz' = [NoWizard EXCEPT !.pc = "id"]
    /\ UNCHANGED <<env, first, disk, boot>>

\* One more wrong answer; the last allowed one ends the wizard.
Wrong == IF wiz.tries = MAX_RETRIES - 1 THEN NoWizard
         ELSE [wiz EXCEPT !.tries = @ + 1]

AskId(id) ==
    /\ wiz.pc = "id"
    /\ wiz' = IF parse_api_id(id) > 0
              THEN [wiz EXCEPT !.pc = "hash", !.id = parse_api_id(id), !.tries = 0]
              ELSE Wrong
    /\ UNCHANGED <<env, first, disk, boot>>

AskHash(hash) ==
    /\ wiz.pc = "hash"
    /\ wiz' = IF validate_api_hash(hash)
              THEN [wiz EXCEPT !.pc = "open", !.hash = hash] ELSE Wrong
    /\ UNCHANGED <<env, first, disk, boot>>

---------------------------------------------------------------------------
(* write_config, one step per system call.                                 *)

Step(from, to) == wiz.pc = from /\ wiz' = [wiz EXCEPT !.pc = to]

\* O_TRUNC: what an earlier wizard left in the file goes.
OpenTmp ==
    /\ Step("open", "flush")
    /\ disk' = [disk EXCEPT !.tmp = [File(<<>>) EXCEPT !.synced = FALSE]]
    /\ UNCHANGED <<env, first, boot>>

\* What the wizard has been told, as lines.
Written(id, hash) ==
    <<Line("api_id", IF id = 12 THEN "12" ELSE "0"), Line("api_hash", hash)>>

\* fflush fails half way, or hands everything to the kernel.
FlushTmp ==
    /\ wiz.pc = "flush"
    /\ \E n \in 0..2 :
        /\ disk' = [disk EXCEPT !.tmp.lines = SubSeq(Written(wiz.id, wiz.hash), 1, n)]
        /\ wiz' = IF n = 2 THEN [wiz EXCEPT !.pc = "sync"] ELSE NoWizard
    /\ UNCHANGED <<env, first, boot>>

MutantSync ==
    /\ wiz.pc = "sync"
    /\ UNCHANGED disk
    /\ wiz' = [wiz EXCEPT !.pc = "rename"]
    /\ UNCHANGED <<env, first, boot>>

SyncTmp ==
    /\ wiz.pc = "sync"
    /\ \/ /\ disk' = [disk EXCEPT !.tmp.synced = TRUE]
          /\ wiz' = [wiz EXCEPT !.pc = "rename"]
       \/ wiz' = NoWizard /\ UNCHANGED disk
    /\ UNCHANGED <<env, first, boot>>

RenameTmp ==
    /\ wiz.pc = "rename"
    /\ \/ disk' = [cfg |-> disk.tmp, tmp |-> Absent, old |-> disk.cfg]
       \/ UNCHANGED disk
    /\ wiz' = NoWizard
    /\ UNCHANGED <<env, first, boot>>

\* Ctrl-C, end of input, or a kill.
WizardDies ==
    /\ wiz.pc # "idle"
    /\ wiz' = NoWizard
    /\ UNCHANGED <<env, first, disk, boot>>

\* Data never synced may be gone; the directory may still have the old entry.
AfterPowerLoss(file) == {file} \cup
    IF file.synced THEN {} ELSE {[file EXCEPT !.lines = <<>>, !.synced = TRUE]}

PowerLoss ==
    /\ \E cfg \in AfterPowerLoss(disk.cfg) \cup {disk.old},
          tmp \in AfterPowerLoss(disk.tmp) :
        disk' = [cfg |-> cfg, tmp |-> tmp, old |-> cfg]
    /\ wiz' = NoWizard /\ boot' = Down
    /\ UNCHANGED <<env, first>>

---------------------------------------------------------------------------
(* A program start.                                                        *)

\* Only `tg-cli login` goes on without a server key; a value that is no key
\* is not loaded.
app_bootstrap ==
    /\ boot.pc = "down"
    /\ LET pem == read_ini_key(disk.cfg, "rsa_pem")
       IN  boot' = IF pem = "pem" THEN [Down EXCEPT !.pc = "id", !.pem = pem]
                    ELSE [Down EXCEPT !.pc = "refused"]
    /\ UNCHANGED <<env, first, disk, wiz>>

\* credentials_load opens the file once for each value it still misses; a
\* hash from the environment is looked at only when the id is from there too.
load_api_id ==
    /\ boot.pc = "id"
    /\ boot' = [boot EXCEPT
                   !.pc = "hash", !.file = disk.cfg,
                   !.id = IF atoi(env.id) # 0 THEN atoi(env.id)
                          ELSE atoi(read_ini_key(disk.cfg, "api_id"))]
    /\ UNCHANGED <<env, first, disk, wiz>>

load_api_hash ==
    /\ boot.pc = "hash"
    /\ LET text == IF env.hash # "" THEN env.hash
                   ELSE read_ini_key(disk.cfg, "api_hash")
           unseen == env.hash # "" /\ atoi(env.id) = 0
           hash == IF unseen \/ is_valid_api_hash(text) THEN text ELSE ""
       IN  boot' = [boot EXCEPT
                       !.hash = hash, !.torn = disk.cfg # boot.file,
                       !.pc = IF boot.id = 0 \/ hash = "" THEN "refused" ELSE "ready"]
    /\ UNCHANGED <<env, first, disk, wiz>>

Quit ==
    /\ boot.pc \in {"ready", "refused"}
    /\ boot' = Down
    /\ UNCHANGED <<env, first, disk, wiz>>

\* The user adds the server key, as the message of app_bootstrap asks.
UserAddsKey ==
    /\ read_ini_key(disk.cfg, "rsa_pem") = ""
    /\ disk' = [disk EXCEPT !.cfg = File(Append(@.lines, Line("rsa_pem", "pem")))]
    /\ UNCHANGED <<env, first, wiz, boot>>

SNext ==
    \/ \E id \in IdTexts, hash \in HashTexts, force \in BOOLEAN :
        config_wizard_run_batch(id, hash, force)
    \/ \E force \in BOOLEAN : config_wizard_run_interactive(force)
    \/ \E id \in IdTexts : AskId(id)
    \/ \E hash \in HashTexts : AskHash(hash)
    \/ OpenTmp \/ FlushTmp \/ SyncTmp \/ RenameTmp \/ WizardDies \/ PowerLoss
    \/ app_bootstrap \/ load_api_id \/ load_api_hash \/ Quit \/ UserAddsKey

SSpec == SInit /\ [][SNext]_svars

---------------------------------------------------------------------------
(* Properties.                                                             *)

\* config.ini with the values a wizard was given, before or after the user
\* added the server key.
Saved(hash) ==
    LET base == Written(12, hash) IN {base, Append(base, Line("rsa_pem", "pem"))}

\* Nobody but the wizard writes what it writes: a file of before is none it
\* would have made of the hash it refuses.
ASSUME NoForgery ==
    \A file \in FirstFiles :
        {file.lines, Append(file.lines, Line("rsa_pem", "pem"))} \cap Saved("cut") = {}

\* Wherever a wizard is killed, fails or loses power, config.ini holds either
\* what it held at first or the whole of what some wizard was given: the
\* temporary file is complete and on disk before write_config renames it.
ConfigWhole ==
    disk.cfg.lines \in {first.lines, Append(first.lines, Line("rsa_pem", "pem"))}
                         \cup UNION {Saved(hash) : hash \in {"hash", "hash2"}}

\* What the wizard saved a start loads: with nothing in the environment and
\* no wizard finishing between its two reads, credentials_load accepts every
\* file write_config makes and finds in it the pair the user typed.
SavedIsLoaded ==
    /\ boot.pc \in {"ready", "refused"} /\ boot.pem # "" /\ ~boot.torn
    /\ env = [id |-> "", hash |-> ""]
    => \A hash \in HashTexts :
        boot.file.lines \in Saved(hash) =>
            boot.pc = "ready" /\ boot.id = 12 /\ boot.hash = hash
=============================================================================
