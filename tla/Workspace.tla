------------------------------ MODULE Workspace ------------------------------
(***************************************************************************)
(* An organisation's workspace server and the machines of one of its users *)
(* (server/src, core/src/workspace_server).  The server hands out accounts *)
(* with their keys and holds one backup of the user's settings; a machine  *)
(* takes the accounts, uploads its settings when their file has changed,   *)
(* and can restore them.                                                   *)
(*                                                                         *)
(* A machine has two files: settings.json with an entry for each model     *)
(* account, marked when the server manages it, and auth.json with the      *)
(* keys.  A search account has a key and no entry; its key is marked.      *)
(* Here a file maps an account to whose it is.  The rest of the settings,  *)
(* the policy and what a backup may run are left out.                      *)
(***************************************************************************)
EXTENDS Naturals, FiniteSets

CONSTANTS
  Machines,
  Models, Searches,   \* the names of model accounts and of search accounts
  NoBackup,
  Uploaders,          \* <<m, "loop">> for the triggers of a session that runs on m,
                      \* <<m, "hand">> for the uploads its user asks for
  MaxPuts,            \* bound on the uploads sent
  MaxEdits, MaxGrants, MaxCommands, MaxClears  \* bounds on the surroundings

ASSUME NamesAssumption == Models \cap Searches = {}
ASSUME UploadersAssumption == Uploaders \subseteq Machines \X {"loop", "hand"}
ASSUME BoundsAssumption ==
  \A n \in {MaxPuts, MaxEdits, MaxGrants, MaxCommands, MaxClears} : n \in Nat

Names == Models \cup Searches
Owners == {"none", "own", "company"}
Account == [entry : Owners, key : Owners]
Absent == [entry |-> "none", key |-> "none"]
Backups == [Names -> Account]
ASSUME NoBackupAssumption == NoBackup \notin Backups

Puts == 1..MaxPuts

\* The machines on which a session runs.
Loops == {m \in Machines : <<m, "loop">> \in Uploaders}

VARIABLES
  version, backup,   \* the row of user_settings; version 0 when there is none
  put,               \* the uploads sent to the server
  entitled,          \* the accounts the server hands out
  sessions,          \* the machines whose session the server accepts
  account,           \* machine -> name -> entry and key
  signedIn,          \* the machines that hold a session
  upload,            \* uploader -> how far its upload is
  command,           \* machine -> the command that waits for the server
  changed,           \* machines whose settings file the loop has not looked at
  pending,           \* machines where the loop waits for the writes to stop
  untried,           \* history: machines with a change no upload was built from
  granted,           \* history: machine -> what its last pull was handed
  edits, grants, commands, clears

serverVars == <<version, backup, put>>
fileVars == <<changed, pending, untried>>
bounds == <<edits, grants, commands, clears>>
vars == <<serverVars, entitled, sessions, account, signedIn, upload, command, fileVars,
          granted, bounds>>

NoUpload == [pc |-> "idle", payload |-> NoBackup, put |-> 0]
NoCommand == [kind |-> "none", got |-> {}]

Fresh == [state |-> "new", expected |-> 0, value |-> NoBackup]
Over(outcome) == [state |-> outcome, expected |-> 0, value |-> NoBackup]

Init ==
  /\ version = 0 /\ backup = NoBackup
  /\ put = [p \in Puts |-> Fresh]
  /\ entitled = {} /\ sessions = Machines
  /\ account = [m \in Machines |-> [n \in Names |-> Absent]]
  /\ signedIn = Machines
  /\ upload = [u \in Uploaders |-> NoUpload]
  /\ command = [m \in Machines |-> NoCommand]
  /\ changed = {} /\ pending = {} /\ untried = {}
  /\ granted = [m \in Machines |-> {}]
  /\ edits = 0 /\ grants = 0 /\ commands = 0 /\ clears = 0

-----------------------------------------------------------------------------
(* What the server's accounts and a backup do to the two files.             *)

managed_by(a) == {n \in Models : a[n].entry = "company"}

\* Mutant: the keys of the company's accounts go up with the user's own.
BuildWithKeys(a) ==
  [n \in Names |-> IF n \in managed_by(a) THEN [entry |-> "none", key |-> a[n].key] ELSE a[n]]

\* sync::build leaves out what the settings say the server manages.
Build(a) == [n \in Names |-> IF n \in managed_by(a) THEN Absent ELSE a[n]]

\* sync::apply: entries are replaced, but those the server manages stay; a key that
\* is there stays.
Restored(b, a) ==
  [n \in Names |->
     IF n \in managed_by(a) THEN a[n]
     ELSE [entry |-> b[n].entry, key |-> IF a[n].key = "none" THEN b[n].key ELSE a[n].key]]

Company(n) == [entry |-> IF n \in Models THEN "company" ELSE "none", key |-> "company"]

\* An account of the user's that the server's does not replace.
IsOwn(n, acc) == IF n \in Models THEN acc.entry = "own" ELSE acc.key = "own"

IsManaged(n, acc) == IF n \in Models THEN acc.entry = "company" ELSE acc.key = "company"

\* Mutant: the user's own model accounts are replaced too.
PulledOver(list, a) ==
  [n \in Names |-> CASE n \in list /\ (n \in Searches => ~IsOwn(n, a[n])) -> Company(n)
                     [] n \notin list /\ IsManaged(n, a[n]) -> Absent
                     [] OTHER -> a[n]]

\* Mutant: a withdrawn account loses its entry and keeps its key.
PulledLeavingKeys(list, a) ==
  [n \in Names |-> CASE n \in list /\ ~IsOwn(n, a[n]) -> Company(n)
                     [] n \notin list /\ IsManaged(n, a[n]) -> [a[n] EXCEPT !.entry = "none"]
                     [] OTHER -> a[n]]

\* providers::apply and search_providers::apply: what is offered is written, unless it
\* is the user's own, and what is no longer offered goes with its key.
Pulled(list, a) ==
  [n \in Names |-> CASE n \in list /\ ~IsOwn(n, a[n]) -> Company(n)
                     [] n \notin list /\ IsManaged(n, a[n]) -> Absent
                     [] OTHER -> a[n]]

\* Mutant: only the model accounts are forgotten.
ForgottenModels(a) == [n \in Names |-> IF n \in managed_by(a) THEN Absent ELSE a[n]]

\* providers::forget and search_providers::forget.
Forgotten(a) == [n \in Names |-> IF IsManaged(n, a[n]) THEN Absent ELSE a[n]]

-----------------------------------------------------------------------------
(* The server: backup.rs, and who is entitled to what.                      *)

\* put reads the version under one lock ...
Check(p) ==
  /\ put[p].state = "sent"
  /\ put' = [put EXCEPT ![p] = IF @.expected = version THEN [@ EXCEPT !.state = "checked"]
                               ELSE Over("refused")]
  /\ UNCHANGED <<version, backup, entitled, sessions, account, signedIn, upload, command,
                 fileVars, granted, bounds>>

\* Mutant: the version is not part of the WHERE.
WriteUnasked(p) ==
  /\ put[p].state = "checked"
  /\ version' = put[p].expected + 1 /\ backup' = put[p].value
  /\ put' = [put EXCEPT ![p] = Over("stored")]
  /\ UNCHANGED <<entitled, sessions, account, signedIn, upload, command, fileVars, granted,
                 bounds>>

\* ... and writes under another: a row that is there already fails the insert, one that
\* moved on the update.
Write(p) ==
  /\ put[p].state = "checked"
  /\ IF put[p].expected = version
     THEN /\ version' = version + 1 /\ backup' = put[p].value
          /\ put' = [put EXCEPT ![p] = Over("stored")]
     ELSE /\ put' = [put EXCEPT ![p] = Over("refused")]
          /\ UNCHANGED <<version, backup>>
  /\ UNCHANGED <<entitled, sessions, account, signedIn, upload, command, fileVars, granted,
                 bounds>>

\* Mutant: the version outlives the row.
ClearKeepingVersion ==
  /\ clears < MaxClears /\ clears' = clears + 1
  /\ backup' = NoBackup
  /\ UNCHANGED <<version, put, entitled, sessions, account, signedIn, upload, command, fileVars,
                 granted, edits, grants, commands>>

ClearBackup ==
  /\ clears < MaxClears /\ clears' = clears + 1
  /\ version' = 0 /\ backup' = NoBackup
  /\ UNCHANGED <<put, entitled, sessions, account, signedIn, upload, command, fileVars, granted,
                 edits, grants, commands>>

\* An administrator assigns an account or takes it away.
Assign(n) ==
  /\ grants < MaxGrants /\ grants' = grants + 1
  /\ entitled' = IF n \in entitled THEN entitled \ {n} ELSE entitled \cup {n}
  /\ UNCHANGED <<serverVars, sessions, account, signedIn, upload, command, fileVars, granted,
                 edits, commands, clears>>

-----------------------------------------------------------------------------
(* A machine's files.                                                       *)

\* settings.json is written: its timestamp moves.
Saved(m) ==
  /\ changed' = changed \cup ({m} \cap Loops) /\ untried' = untried \cup ({m} \cap Loops)
  /\ UNCHANGED pending

\* A login of the user's own writes a key, and knows of no entry.
OwnKey(m, n) ==
  /\ edits < MaxEdits /\ edits' = edits + 1
  /\ account' = [account EXCEPT ![m][n].key = "own"]
  /\ UNCHANGED <<serverVars, entitled, sessions, signedIn, upload, command, fileVars, granted,
                 grants, commands, clears>>

\* An account of the user's own gets its entry.
OwnEntry(m, n) ==
  /\ edits < MaxEdits /\ edits' = edits + 1
  /\ n \in Models /\ account[m][n].entry = "none" /\ account[m][n].key # "company"
  /\ account' = [account EXCEPT ![m][n] = [entry |-> "own", key |-> "own"]]
  /\ Saved(m)
  /\ UNCHANGED <<serverVars, entitled, sessions, signedIn, upload, command, granted,
                 grants, commands, clears>>

-----------------------------------------------------------------------------
(* Uploads: session.rs.                                                     *)

\* upload reads both files, then asks the server for the version it will replace.
Begin(m, by) ==
  /\ <<m, by>> \in Uploaders
  /\ upload[<<m, by>>].pc = "idle"
  /\ upload' = [upload EXCEPT ![<<m, by>>] =
                  [NoUpload EXCEPT !.pc = "asking", !.payload = Build(account[m])]]
  /\ untried' = untried \ {m}

\* One look at the settings file, between two uploads.
Poll(m) ==
  /\ m \in Loops
  /\ upload[<<m, "loop">>].pc = "idle"
  /\ \/ /\ m \in changed
        /\ changed' = changed \ {m} /\ pending' = pending \cup {m}
        /\ UNCHANGED <<upload, untried>>
     \/ /\ m \notin changed /\ m \in pending
        /\ pending' = pending \ {m}
        /\ Begin(m, "loop")
        /\ UNCHANGED changed
  /\ UNCHANGED <<serverVars, entitled, sessions, account, signedIn, command, granted, bounds>>

\* workspace sync.
SyncNow(m) ==
  /\ commands < MaxCommands /\ commands' = commands + 1
  /\ m \in signedIn
  /\ Begin(m, "hand")
  /\ UNCHANGED <<serverVars, entitled, sessions, account, signedIn, command, changed, pending,
                 granted, edits, grants, clears>>

\* The server names its version, and the payload goes out to replace that.
Versioned(u) ==
  /\ upload[u].pc = "asking" /\ u[1] \in sessions
  /\ \E p \in Puts :
       /\ put[p] = Fresh /\ \A q \in Puts : q < p => put[q] # Fresh
       /\ put' = [put EXCEPT ![p] = [state |-> "sent", expected |-> version,
                                     value |-> upload[u].payload]]
       /\ upload' = [upload EXCEPT ![u] = [pc |-> "putting", payload |-> NoBackup, put |-> p]]
  /\ UNCHANGED <<version, backup, entitled, sessions, account, signedIn, command, fileVars,
                 granted, bounds>>

\* Mutant: what changed while an upload ran counts as uploaded with it.
UploadEndsAndLooks(u) ==
  /\ upload[u].pc # "idle"
  /\ upload' = [upload EXCEPT ![u] = NoUpload]
  /\ changed' = changed \ {u[1]}
  /\ UNCHANGED <<serverVars, entitled, sessions, account, signedIn, command, pending, untried,
                 granted, bounds>>

\* It is answered, refused or given up after 15 s, which a put on its way survives.
\* Whatever it was, the loop goes on.
UploadEnds(u) ==
  /\ upload[u].pc # "idle"
  /\ upload' = [upload EXCEPT ![u] = NoUpload]
  /\ UNCHANGED <<serverVars, entitled, sessions, account, signedIn, command, fileVars, granted,
                 bounds>>

-----------------------------------------------------------------------------
(* Commands: one at a time on a machine.                                    *)

Free(m) == command[m].kind = "none"

Issue(m) ==
  /\ commands < MaxCommands /\ commands' = commands + 1
  /\ Free(m)

\* The pull of a session's start, of a login, or /workspace pull.
FetchProviders(m) ==
  /\ Issue(m) /\ m \in signedIn /\ m \in sessions
  /\ command' = [command EXCEPT ![m] = [kind |-> "pull", got |-> entitled]]
  /\ UNCHANGED <<serverVars, entitled, sessions, account, signedIn, upload, fileVars, granted,
                 edits, grants, clears>>

pull_providers(m) ==
  /\ command[m].kind = "pull"
  /\ command' = [command EXCEPT ![m] = NoCommand]
  /\ account' = [account EXCEPT ![m] = Pulled(command[m].got, @)]
  /\ granted' = [granted EXCEPT ![m] = command[m].got]
  /\ IF command[m].got # {} \/ account'[m] # account[m] THEN Saved(m) ELSE UNCHANGED fileVars
  /\ UNCHANGED <<serverVars, entitled, sessions, signedIn, upload, bounds>>

\* workspace restore reads the backup, and asks the user before it goes on.
FetchBackup(m) ==
  /\ Issue(m) /\ m \in signedIn /\ m \in sessions
  /\ backup # NoBackup
  /\ command' = [command EXCEPT ![m] = [kind |-> "restore", got |-> backup]]
  /\ UNCHANGED <<serverVars, entitled, sessions, account, signedIn, upload, fileVars, granted,
                 edits, grants, clears>>

restore(m) ==
  /\ command[m].kind = "restore"
  /\ command' = [command EXCEPT ![m] = NoCommand]
  /\ account' = [account EXCEPT ![m] = Restored(command[m].got, @)]
  /\ Saved(m)
  /\ UNCHANGED <<serverVars, entitled, sessions, signedIn, upload, granted, bounds>>

\* The server may be out of reach; the machine forgets its session all the same.
Logout(m) ==
  /\ Issue(m) /\ m \in signedIn
  /\ sessions' \in {sessions, sessions \ {m}}
  /\ signedIn' = signedIn \ {m}
  /\ account' = [account EXCEPT ![m] = Forgotten(@)]
  /\ granted' = [granted EXCEPT ![m] = {}]
  /\ Saved(m)
  /\ UNCHANGED <<serverVars, entitled, upload, command, edits, grants, clears>>

\* A login pulls at once.
Login(m) ==
  /\ Issue(m) /\ m \notin signedIn
  /\ signedIn' = signedIn \cup {m} /\ sessions' = sessions \cup {m}
  /\ command' = [command EXCEPT ![m] = [kind |-> "pull", got |-> entitled]]
  /\ Saved(m)
  /\ UNCHANGED <<serverVars, entitled, account, upload, granted, edits, grants, clears>>

-----------------------------------------------------------------------------
Next ==
  \/ ClearBackup
  \/ \E p \in Puts : Check(p) \/ Write(p)
  \/ \E n \in Names : Assign(n)
  \/ \E u \in Uploaders : Versioned(u) \/ UploadEnds(u)
  \/ \E m \in Machines :
       \/ Poll(m) \/ SyncNow(m) \/ FetchProviders(m) \/ pull_providers(m)
       \/ FetchBackup(m) \/ restore(m) \/ Logout(m) \/ Login(m)
       \/ \E n \in Names : OwnKey(m, n) \/ OwnEntry(m, n)

\* The loop's timer ticks as long as its session runs, and a request has a timeout.
Fairness ==
  /\ \A m \in Loops : WF_vars(Poll(m))
  /\ \A u \in Uploaders : WF_vars(UploadEnds(u))

Spec == Init /\ [][Next]_vars
FairSpec == Spec /\ Fairness

-----------------------------------------------------------------------------
(* Properties.                                                              *)

Put == [state : {"new", "sent", "checked", "stored", "refused"}, expected : Nat,
        value : Backups \cup {NoBackup}]

Upload == [pc : {"idle", "asking", "putting"}, payload : Backups \cup {NoBackup},
           put : Puts \cup {0}]

Command == [kind : {"none", "pull"}, got : SUBSET Names]
             \cup [kind : {"restore"}, got : Backups]

TypeOK ==
  /\ version \in Nat /\ backup \in Backups \cup {NoBackup}
  /\ version = 0 <=> backup = NoBackup
  /\ put \in [Puts -> Put]
  /\ \A p \in Puts : put[p].state \in {"sent", "checked"} => put[p].value \in Backups
  /\ entitled \in SUBSET Names /\ sessions \in SUBSET Machines
  /\ account \in [Machines -> Backups] /\ signedIn \in SUBSET Machines
  /\ upload \in [Uploaders -> Upload]
  /\ \A u \in Uploaders : upload[u].pc = "asking" => upload[u].payload \in Backups
  /\ command \in [Machines -> Command]
  /\ changed \in SUBSET Loops /\ pending \in SUBSET Loops /\ untried \in SUBSET Loops
  /\ granted \in [Machines -> SUBSET Names]
  /\ {edits, grants, commands, clears} \subseteq Nat

\* The two locks of a put make one atomic step: the backup is a versioned register
\* whatever writers, clears and lost answers come between them.
Register == INSTANCE VersionedRegister WITH
  Writes <- Puts, Values <- Backups, Nothing <- NoBackup, value <- backup,
  asked <- [p \in Puts |->
              [put[p] EXCEPT !.state = IF @ \in {"sent", "checked"} THEN "asked" ELSE @]]

ServesARegister == Register!Spec

Payloads ==
  {b \in {backup} \cup {put[p].value : p \in Puts} \cup {upload[u].payload : u \in Uploaders} :
     b # NoBackup}

\* The key of a model account the company hands out never leaves the machine, by
\* whatever pulls, restores and logouts it came there.
ModelKeysStayHome == \A b \in Payloads, n \in Models : b[n].key # "company"

KeysOf(m) == {n \in Names : account[m][n].key = "company"}

\* A machine holds the key of a model account no longer than the last list it was
\* handed says, and none without a session.
ModelKeysEndWithTheirEntitlement == \A m \in Machines : KeysOf(m) \cap Models \subseteq granted[m]

\* After a logout no key of the company's is left, of either kind, until the next
\* login: not by a restore, a pull or an upload under way.
LogoutForgets == \A m \in Machines : m \notin signedIn /\ Free(m) => KeysOf(m) = {}

\* The key of an account the user configured, with an entry if it is a model account,
\* is never replaced or lost to what the server offers or a backup holds.
OwnAccountsSurvive ==
  [][\A m \in Machines, n \in Names :
       IsOwn(n, account[m][n]) /\ account[m][n].key = "own" => account'[m][n].key = "own"]_vars

\* Every change of the settings file is followed by an upload built from it or from a
\* later one.
ChangesAreTried == \A m \in Loops : m \in untried ~> m \notin untried

\* A backup hands no key back after its entitlement is gone (sync.rs, Payload): of
\* either kind, a machine has only keys it was handed or is entitled to now.
KeysEndWithTheirEntitlement ==
  \A m \in Machines : KeysOf(m) \subseteq granted[m] \cup entitled

=============================================================================
