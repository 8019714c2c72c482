-------------------------- MODULE Workspace_proofs --------------------------
(***************************************************************************)
(* What holds of Workspace for any machines, accounts, uploads and bounds. *)
(***************************************************************************)
EXTENDS Workspace, TLAPS

-----------------------------------------------------------------------------
(* What the operations do to a machine's accounts.                         *)

LEMMA AccountFields ==
  ASSUME NEW a \in Backups, NEW n \in Names
  PROVE  a[n] \in Account /\ a[n].entry \in Owners /\ a[n].key \in Owners
  BY DEF Backups, Account

LEMMA CompanyIsAccount ==
  ASSUME NEW n
  PROVE  Company(n) \in Account /\ Absent \in Account
  BY DEF Company, Account, Owners, Absent

LEMMA BuildTypes ==
  ASSUME NEW a \in Backups
  PROVE  Build(a) \in Backups
  BY CompanyIsAccount DEF Build, Backups

LEMMA ForgottenTypes ==
  ASSUME NEW a \in Backups
  PROVE  Forgotten(a) \in Backups
  BY CompanyIsAccount DEF Forgotten, Backups

LEMMA PulledTypes ==
  ASSUME NEW a \in Backups, NEW list
  PROVE  Pulled(list, a) \in Backups
  BY CompanyIsAccount DEF Pulled, Backups

LEMMA RestoredTypes ==
  ASSUME NEW a \in Backups, NEW b \in Backups
  PROVE  Restored(b, a) \in Backups
<1>1. ASSUME NEW n \in Names
      PROVE  [entry |-> b[n].entry, key |-> IF a[n].key = "none" THEN b[n].key ELSE a[n].key]
               \in Account
  BY AccountFields DEF Account
<1> QED
  BY <1>1 DEF Restored, Backups

(* A file in which whatever key of a model account is the company's stands  *)
(* by an entry that says so, and a backup that has no such key.             *)
Marked(a) == \A n \in Models : a[n].key = "company" => a[n].entry = "company"
Clean(b) == \A n \in Models : b[n].key # "company"

LEMMA BuildCleans ==
  ASSUME NEW a \in Backups, Marked(a)
  PROVE  Clean(Build(a))
  BY DEF Marked, Clean, Build, managed_by, Absent, Names

LEMMA RestoredKeys ==
  ASSUME NEW a \in Backups, NEW b \in Backups, Marked(a), Clean(b)
  PROVE  /\ Marked(Restored(b, a))
         /\ \A n \in Models : Restored(b, a)[n].key = "company" => a[n].key = "company"
  BY DEF Marked, Clean, Restored, managed_by, Names

LEMMA PulledKeys ==
  ASSUME NEW a \in Backups, NEW list, Marked(a)
  PROVE  /\ Marked(Pulled(list, a))
         /\ \A n \in Models : Pulled(list, a)[n].key = "company" => n \in list
  BY DEF Marked, Pulled, Company, Absent, IsOwn, IsManaged, Names

LEMMA ForgottenKeys ==
  ASSUME NEW a \in Backups, Marked(a)
  PROVE  /\ Marked(Forgotten(a))
         /\ \A n \in Names : Forgotten(a)[n].key # "company"
  BY DEF Marked, Forgotten, Absent, IsManaged, Names

-----------------------------------------------------------------------------
(* Types.                                                                  *)

Bounded == {edits, grants, commands, clears} \subseteq Nat

ServerTypes ==
  /\ version \in Nat /\ backup \in Backups \cup {NoBackup}
  /\ version = 0 <=> backup = NoBackup
  /\ put \in [Puts -> Put]
  /\ \A p \in Puts : put[p].state \in {"sent", "checked"} => put[p].value \in Backups

UploadTypes ==
  /\ upload \in [Uploaders -> Upload]
  /\ \A u \in Uploaders : upload[u].pc = "asking" => upload[u].payload \in Backups

MachineTypes ==
  /\ entitled \in SUBSET Names /\ sessions \in SUBSET Machines
  /\ account \in [Machines -> Backups] /\ signedIn \in SUBSET Machines
  /\ command \in [Machines -> Command]
  /\ granted \in [Machines -> SUBSET Names]

FileTypes == changed \in SUBSET Loops /\ pending \in SUBSET Loops /\ untried \in SUBSET Loops

LEMMA TypeParts == TypeOK <=> ServerTypes /\ UploadTypes /\ MachineTypes /\ FileTypes /\ Bounded
  BY DEF TypeOK, ServerTypes, UploadTypes, MachineTypes, FileTypes, Bounded

LEMMA TypePartsNext ==
  ServerTypes' /\ UploadTypes' /\ MachineTypes' /\ FileTypes' /\ Bounded' => TypeOK'
  BY DEF TypeOK, ServerTypes, UploadTypes, MachineTypes, FileTypes, Bounded

LEMMA InitTypes == Init => TypeOK
<1> SUFFICES ASSUME Init PROVE TypeOK
  OBVIOUS
<1> USE DEF Init
<1>1. ServerTypes
  BY DEF ServerTypes, Put, Fresh
<1>2. UploadTypes
  BY DEF UploadTypes, Upload, NoUpload
<1>3. MachineTypes
  <2>1. [n \in Names |-> Absent] \in Backups
    BY CompanyIsAccount DEF Backups
  <2>2. NoCommand \in Command
    BY DEF NoCommand, Command
  <2> QED
    BY <2>1, <2>2 DEF MachineTypes
<1>4. FileTypes /\ Bounded
  BY DEF FileTypes, Bounded
<1> QED
  BY <1>1, <1>2, <1>3, <1>4, TypeParts

(* The outcome of a put, and one that begins, are puts.                    *)
LEMMA PutsAreTyped ==
  ASSUME NEW p \in Puts, ServerTypes
  PROVE  /\ put[p] \in Put /\ put[p].expected \in Nat
         /\ [put[p] EXCEPT !.state = "checked"] \in Put
         /\ Over("stored") \in Put /\ Over("refused") \in Put /\ Fresh \in Put
  BY DEF ServerTypes, Put, Over, Fresh

LEMMA OtherPut ==
  ASSUME NEW p \in Puts, NEW r \in Put, ServerTypes,
         put' = [put EXCEPT ![p] = r],
         r.state \in {"sent", "checked"} => r.value \in Backups
  PROVE  /\ put' \in [Puts -> Put]
         /\ \A q \in Puts : put'[q].state \in {"sent", "checked"} => put'[q].value \in Backups
  BY DEF ServerTypes

LEMMA CheckTypes ==
  ASSUME ServerTypes, NEW p \in Puts, Check(p)
  PROVE  ServerTypes'
<1> DEFINE r == IF put[p].expected = version THEN [put[p] EXCEPT !.state = "checked"]
                ELSE Over("refused")
<1>1. put' = [put EXCEPT ![p] = r] /\ UNCHANGED <<version, backup>>
  BY DEF Check, ServerTypes
<1>2. r \in Put
  BY PutsAreTyped
<1>3. r.state \in {"sent", "checked"} => r.value \in Backups
  BY DEF Check, ServerTypes, Put, Over
<1> HIDE DEF r
<1> QED
  BY <1>1, <1>2, <1>3, OtherPut DEF ServerTypes

LEMMA WriteTypes ==
  ASSUME ServerTypes, NEW p \in Puts, Write(p)
  PROVE  ServerTypes'
<1>1. PICK r \in {Over("stored"), Over("refused")} : put' = [put EXCEPT ![p] = r]
  BY DEF Write
<1>2. r \in Put /\ (r.state \in {"sent", "checked"} => r.value \in Backups)
  <2>1. Over("stored") \in Put /\ Over("refused") \in Put
    BY PutsAreTyped
  <2>2. r.state \notin {"sent", "checked"}
    BY DEF Over
  <2> QED
    BY <2>1, <2>2
<1>3. put' \in [Puts -> Put]
        /\ \A q \in Puts : put'[q].state \in {"sent", "checked"} => put'[q].value \in Backups
  BY <1>1, <1>2, OtherPut
<1>4. /\ version' \in Nat /\ backup' \in Backups \cup {NoBackup}
      /\ version' = 0 <=> backup' = NoBackup
  <2>1. put[p].value \in Backups
    BY DEF Write, ServerTypes
  <2>2. put[p].value # NoBackup
    BY <2>1, NoBackupAssumption
  <2> QED
    BY <2>1, <2>2 DEF Write, ServerTypes
<1> QED
  BY <1>3, <1>4 DEF ServerTypes

LEMMA VersionedTypes ==
  ASSUME ServerTypes, UploadTypes, NEW u \in Uploaders, Versioned(u)
  PROVE  ServerTypes' /\ UploadTypes'
<1>1. PICK p \in Puts :
        /\ put' = [put EXCEPT ![p] = [state |-> "sent", expected |-> version,
                                      value |-> upload[u].payload]]
        /\ upload' = [upload EXCEPT ![u] = [pc |-> "putting", payload |-> NoBackup, put |-> p]]
  BY DEF Versioned
<1>2. upload[u].payload \in Backups
  BY DEF Versioned, UploadTypes
<1>3. [state |-> "sent", expected |-> version, value |-> upload[u].payload] \in Put
  BY <1>2 DEF Put, ServerTypes
<1>4. ServerTypes'
  BY <1>1, <1>2, <1>3, OtherPut DEF Versioned, ServerTypes
<1>5. [pc |-> "putting", payload |-> NoBackup, put |-> p] \in Upload
  BY DEF Upload
<1>6. UploadTypes'
  BY <1>1, <1>5 DEF UploadTypes
<1> QED
  BY <1>4, <1>6

LEMMA BeginTypes ==
  ASSUME MachineTypes, UploadTypes, FileTypes, NEW m \in Machines, NEW by, Begin(m, by)
  PROVE  UploadTypes' /\ untried' \in SUBSET Loops
<1> DEFINE new == [NoUpload EXCEPT !.pc = "asking", !.payload = Build(account[m])]
<1>1. Build(account[m]) \in Backups
  BY BuildTypes DEF MachineTypes
<1>2. new \in Upload /\ new.payload \in Backups
  BY <1>1 DEF Upload, NoUpload
<1>3. upload' = [upload EXCEPT ![<<m, by>>] = new]
  BY DEF Begin
<1> HIDE DEF new
<1> QED
  BY <1>2, <1>3 DEF Begin, UploadTypes, FileTypes

LEMMA SavedTypes ==
  ASSUME FileTypes, NEW m, Saved(m) \/ UNCHANGED fileVars
  PROVE  FileTypes'
  BY DEF FileTypes, Saved, fileVars

(* A command that begins and one that is over.                             *)
LEMMA CommandsAreTyped ==
  ASSUME MachineTypes
  PROVE  /\ NoCommand \in Command
         /\ [kind |-> "pull", got |-> entitled] \in Command
         /\ backup \in Backups => [kind |-> "restore", got |-> backup] \in Command
         /\ \A m \in Machines :
              /\ command[m].kind = "pull" => command[m].got \in SUBSET Names
              /\ command[m].kind = "restore" => command[m].got \in Backups
  BY DEF MachineTypes, Command, NoCommand

LEMMA MachineStepTypes ==
  ASSUME TypeOK, NEW m \in Machines,
         FetchProviders(m) \/ pull_providers(m) \/ FetchBackup(m) \/ restore(m)
           \/ Logout(m) \/ Login(m)
  PROVE  TypeOK'
<1> USE TypeParts
<1>1. account[m] \in Backups
  BY DEF MachineTypes
<1>2. ServerTypes' /\ UploadTypes'
  BY DEF FetchProviders, pull_providers, FetchBackup, restore, Logout, Login, serverVars,
         ServerTypes, UploadTypes
<1>3. FileTypes'
  BY SavedTypes DEF FetchProviders, pull_providers, FetchBackup, restore, Logout, Login
<1>4. Bounded'
  BY DEF FetchProviders, pull_providers, FetchBackup, restore, Logout, Login, Issue, bounds,
         Bounded
<1>5. MachineTypes'
  <2>1. CASE FetchProviders(m)
    BY <2>1, CommandsAreTyped DEF FetchProviders, MachineTypes
  <2>2. CASE pull_providers(m)
    <3>1. Pulled(command[m].got, account[m]) \in Backups /\ command[m].got \in SUBSET Names
      BY <2>2, <1>1, PulledTypes, CommandsAreTyped DEF pull_providers
    <3>2. account' = [account EXCEPT ![m] = Pulled(command[m].got, account[m])]
      BY <2>2, <1>1 DEF pull_providers, MachineTypes
    <3> QED
      BY <2>2, <3>1, <3>2, CommandsAreTyped DEF pull_providers, MachineTypes
  <2>3. CASE FetchBackup(m)
    BY <2>3, CommandsAreTyped DEF FetchBackup, MachineTypes, ServerTypes
  <2>4. CASE restore(m)
    <3>1. Restored(command[m].got, account[m]) \in Backups
      BY <2>4, <1>1, RestoredTypes, CommandsAreTyped DEF restore
    <3>2. account' = [account EXCEPT ![m] = Restored(command[m].got, account[m])]
      BY <2>4, <1>1 DEF restore, MachineTypes
    <3> QED
      BY <2>4, <3>1, <3>2, CommandsAreTyped DEF restore, MachineTypes
  <2>5. CASE Logout(m)
    <3>1. Forgotten(account[m]) \in Backups
      BY <1>1, ForgottenTypes
    <3>2. account' = [account EXCEPT ![m] = Forgotten(account[m])]
      BY <2>5, <1>1 DEF Logout, MachineTypes
    <3> QED
      BY <2>5, <3>1, <3>2 DEF Logout, MachineTypes
  <2>6. CASE Login(m)
    BY <2>6, CommandsAreTyped DEF Login, MachineTypes
  <2> QED
    BY <2>1, <2>2, <2>3, <2>4, <2>5, <2>6
<1> QED
  BY <1>2, <1>3, <1>4, <1>5, TypePartsNext

(* The user's own two ways to an account: one record of the file changes,   *)
(* and has a key of the user's.                                            *)
LEMMA UserSteps ==
  ASSUME NEW m \in Machines, NEW n \in Names, account[m][n] \in Account,
         OwnKey(m, n) \/ OwnEntry(m, n)
  PROVE  \E acc \in Account :
           /\ account' = [account EXCEPT ![m] = [account[m] EXCEPT ![n] = acc]]
           /\ acc.key = "own"
<1>1. CASE OwnKey(m, n)
  <2>1. /\ [account[m][n] EXCEPT !.key = "own"] \in Account
        /\ [account[m][n] EXCEPT !.key = "own"].key = "own"
    BY DEF Account, Owners
  <2>2. account' = [account EXCEPT ![m] = [account[m] EXCEPT ![n] =
                                             [account[m][n] EXCEPT !.key = "own"]]]
    BY <1>1 DEF OwnKey
  <2> QED
    BY <2>1, <2>2
<1>2. CASE OwnEntry(m, n)
  <2>1. [entry |-> "own", key |-> "own"] \in Account
    BY DEF Account, Owners
  <2>2. account' = [account EXCEPT ![m] = [account[m] EXCEPT ![n] =
                                             [entry |-> "own", key |-> "own"]]]
    BY <1>2 DEF OwnEntry
  <2> DEFINE own == [entry |-> "own", key |-> "own"]
  <2>3. own.key = "own"
    OBVIOUS
  <2> HIDE DEF own
  <2> QED
    BY <2>1, <2>2, <2>3 DEF own
<1> QED
  BY <1>1, <1>2

LEMMA UserStepTypes ==
  ASSUME TypeOK, NEW m \in Machines, NEW n \in Names, OwnKey(m, n) \/ OwnEntry(m, n)
  PROVE  TypeOK'
<1> USE TypeParts
<1>1. account[m] \in Backups /\ account[m][n] \in Account
  BY AccountFields DEF MachineTypes
<1>2. PICK acc \in Account : account' = [account EXCEPT ![m] = [account[m] EXCEPT ![n] = acc]]
  BY <1>1, UserSteps
<1>3. [account[m] EXCEPT ![n] = acc] \in Backups
  BY <1>1 DEF Backups
<1>4. account' \in [Machines -> Backups]
  BY <1>2, <1>3 DEF MachineTypes
<1>5. ServerTypes' /\ UploadTypes' /\ MachineTypes'
  BY <1>4 DEF OwnKey, OwnEntry, serverVars, ServerTypes, UploadTypes, MachineTypes
<1>6. FileTypes'
  BY SavedTypes DEF OwnKey, OwnEntry
<1>7. Bounded'
  BY DEF OwnKey, OwnEntry, Bounded
<1> QED
  BY <1>5, <1>6, <1>7, TypePartsNext

LEMMA UploadStepTypes ==
  ASSUME TypeOK, NEW m \in Machines, Poll(m) \/ SyncNow(m)
  PROVE  TypeOK'
<1> USE TypeParts
<1>1. UploadTypes' /\ untried' \in SUBSET Loops
  BY BeginTypes DEF Poll, SyncNow, UploadTypes, FileTypes
<1>2. FileTypes'
  BY <1>1 DEF Poll, SyncNow, FileTypes
<1>3. ServerTypes' /\ MachineTypes' /\ Bounded'
  BY DEF Poll, SyncNow, serverVars, bounds, ServerTypes, MachineTypes, Bounded
<1> QED
  BY <1>1, <1>2, <1>3, TypePartsNext

LEMMA ServerStepTypes ==
  ASSUME TypeOK,
         \/ ClearBackup
         \/ \E p \in Puts : Check(p) \/ Write(p)
         \/ \E n \in Names : Assign(n)
         \/ \E u \in Uploaders : Versioned(u) \/ UploadEnds(u)
  PROVE  TypeOK'
<1> USE TypeParts
<1>1. CASE ClearBackup
  BY <1>1, TypePartsNext DEF ClearBackup, fileVars, ServerTypes, UploadTypes, MachineTypes,
     FileTypes, Bounded
<1>2. ASSUME NEW p \in Puts, Check(p) \/ Write(p) PROVE TypeOK'
  <2>1. ServerTypes'
    BY <1>2, CheckTypes, WriteTypes
  <2>2. UploadTypes' /\ MachineTypes' /\ FileTypes' /\ Bounded'
    BY <1>2 DEF Check, Write, fileVars, bounds, UploadTypes, MachineTypes, FileTypes, Bounded
  <2> QED
    BY <2>1, <2>2, TypePartsNext
<1>3. ASSUME NEW n \in Names, Assign(n) PROVE TypeOK'
  BY <1>3, TypePartsNext DEF Assign, serverVars, fileVars, ServerTypes, UploadTypes,
     MachineTypes, FileTypes, Bounded
<1>4. ASSUME NEW u \in Uploaders, Versioned(u) PROVE TypeOK'
  <2>1. MachineTypes' /\ FileTypes' /\ Bounded'
    BY <1>4 DEF Versioned, fileVars, bounds, MachineTypes, FileTypes, Bounded
  <2> QED
    BY <2>1, <1>4, VersionedTypes, TypePartsNext
<1>5. ASSUME NEW u \in Uploaders, UploadEnds(u) PROVE TypeOK'
  <2>1. UploadTypes'
    BY <1>5 DEF UploadEnds, UploadTypes, Upload, NoUpload
  <2>2. ServerTypes' /\ MachineTypes' /\ FileTypes' /\ Bounded'
    BY <1>5 DEF UploadEnds, serverVars, fileVars, bounds, ServerTypes, MachineTypes, FileTypes,
       Bounded
  <2> QED
    BY <2>1, <2>2, TypePartsNext
<1> QED
  BY <1>1, <1>2, <1>3, <1>4, <1>5

LEMMA StutterTypes == TypeOK /\ UNCHANGED vars => TypeOK'
  BY DEF TypeOK, vars, serverVars, fileVars, bounds

(* Every reachable state is well typed: in particular the server has a     *)
(* version just when it has a backup, and what is uploaded is a backup.    *)
THEOREM TypeCorrect == Spec => []TypeOK
<1>1. TypeOK /\ [Next]_vars => TypeOK'
  <2> SUFFICES ASSUME TypeOK, [Next]_vars PROVE TypeOK'
    OBVIOUS
  <2> QED
    BY ServerStepTypes, UploadStepTypes, MachineStepTypes, UserStepTypes, StutterTypes DEF Next
<1> QED
  BY InitTypes, <1>1, PTL DEF Spec

-----------------------------------------------------------------------------
(* The backup is a versioned register.                                     *)

Asked(r) == [r EXCEPT !.state = IF @ \in {"sent", "checked"} THEN "asked" ELSE @]

LEMMA AskedFields ==
  ASSUME NEW r \in Put
  PROVE  /\ Asked(r) = [state |-> IF r.state \in {"sent", "checked"} THEN "asked" ELSE r.state,
                        expected |-> r.expected, value |-> r.value]
  BY DEF Asked, Put

asked == [p \in Puts |-> Asked(put[p])]

(* A step of one put, with what it is asked for before and after.          *)
LEMMA AskedStep ==
  ASSUME ServerTypes, NEW p \in Puts, NEW r, put' = [put EXCEPT ![p] = r]
  PROVE  asked' = [asked EXCEPT ![p] = Asked(r)]
  BY DEF ServerTypes, asked

LEMMA FreshAsked ==
  /\ Asked(Fresh) = Register!Fresh
  /\ \A o \in {"stored", "refused"} : Asked(Over(o)) = Register!Over(o)
  BY DEF Asked, Fresh, Over, Register!Fresh, Register!Over

(* The actions of the register, with its writes read off this module.      *)
LEMMA RegisterActions ==
  ASSUME NEW p \in Puts
  PROVE  /\ Register!Ask(p) <=>
              /\ asked[p] = Register!Fresh
              /\ asked' = [asked EXCEPT ![p] = [state |-> "asked", expected |-> asked'[p].expected,
                                               value |-> asked'[p].value]]
              /\ asked'[p].expected \in Nat /\ asked'[p].value \in Backups
              /\ UNCHANGED <<version, backup>>
         /\ Register!Store(p) <=>
              /\ asked[p].state = "asked" /\ asked[p].expected = version
              /\ version' = version + 1 /\ backup' = asked[p].value
              /\ asked' = [asked EXCEPT ![p] = Register!Over("stored")]
         /\ Register!Refuse(p) <=>
              /\ asked[p].state = "asked" /\ asked[p].expected # version
              /\ asked' = [asked EXCEPT ![p] = Register!Over("refused")]
              /\ UNCHANGED <<version, backup>>
  BY DEF Register!Ask, Register!Store, Register!Refuse, asked, Asked

RegisterStep ==
  \/ version' = 0 /\ backup' = NoBackup /\ UNCHANGED asked
  \/ \E p \in Puts : Register!Ask(p) \/ Register!Store(p) \/ Register!Refuse(p)
  \/ UNCHANGED <<version, backup, asked>>

LEMMA CheckServes ==
  ASSUME ServerTypes, NEW p \in Puts, Check(p)
  PROVE  RegisterStep
<1>1. put[p] \in Put /\ put[p].state = "sent"
  BY DEF Check, ServerTypes
<1>2. asked[p] = Asked(put[p]) /\ asked \in [Puts -> {Asked(put[q]) : q \in Puts}]
  BY DEF asked
<1>3. Asked(put[p]).state = "asked" /\ Asked(put[p]).expected = put[p].expected
  BY <1>1, AskedFields
<1>4. UNCHANGED <<version, backup>>
  BY DEF Check
<1>5. CASE put[p].expected = version
  <2>1. put' = [put EXCEPT ![p] = [put[p] EXCEPT !.state = "checked"]]
    BY <1>5 DEF Check, ServerTypes
  <2>2. Asked([put[p] EXCEPT !.state = "checked"]) = Asked(put[p])
    BY <1>1 DEF Asked, Put
  <2>3. asked' = [asked EXCEPT ![p] = Asked(put[p])]
    BY <2>1, <2>2, AskedStep
  <2>4. UNCHANGED asked
    BY <2>3, <1>2
  <2> QED
    BY <1>4, <2>4 DEF RegisterStep
<1>6. CASE put[p].expected # version
  <2>1. put' = [put EXCEPT ![p] = Over("refused")]
    BY <1>6 DEF Check, ServerTypes
  <2>2. asked' = [asked EXCEPT ![p] = Register!Over("refused")]
    BY <2>1, AskedStep, FreshAsked
  <2>3. Register!Refuse(p)
    BY <1>2, <1>3, <1>4, <1>6, <2>2, RegisterActions
  <2> QED
    BY <2>3 DEF RegisterStep
<1> QED
  BY <1>5, <1>6

LEMMA WriteServes ==
  ASSUME ServerTypes, NEW p \in Puts, Write(p)
  PROVE  RegisterStep
<1>1. put[p] \in Put /\ put[p].state = "checked"
  BY DEF Write, ServerTypes
<1>2. asked[p] = Asked(put[p])
  BY DEF asked
<1>3. /\ Asked(put[p]).state = "asked" /\ Asked(put[p]).expected = put[p].expected
      /\ Asked(put[p]).value = put[p].value
  BY <1>1, AskedFields
<1>4. CASE put[p].expected = version
  <2>1. version' = version + 1 /\ backup' = put[p].value /\ put' = [put EXCEPT ![p] = Over("stored")]
    BY <1>4 DEF Write
  <2>2. asked' = [asked EXCEPT ![p] = Register!Over("stored")]
    BY <2>1, AskedStep, FreshAsked
  <2>3. Register!Store(p)
    BY <1>2, <1>3, <1>4, <2>1, <2>2, RegisterActions
  <2> QED
    BY <2>3 DEF RegisterStep
<1>5. CASE put[p].expected # version
  <2>1. UNCHANGED <<version, backup>> /\ put' = [put EXCEPT ![p] = Over("refused")]
    BY <1>5 DEF Write
  <2>2. asked' = [asked EXCEPT ![p] = Register!Over("refused")]
    BY <2>1, AskedStep, FreshAsked
  <2>3. Register!Refuse(p)
    BY <1>2, <1>3, <1>5, <2>1, <2>2, RegisterActions
  <2> QED
    BY <2>3 DEF RegisterStep
<1> QED
  BY <1>4, <1>5

LEMMA VersionedServes ==
  ASSUME ServerTypes, UploadTypes, NEW u \in Uploaders, Versioned(u)
  PROVE  RegisterStep
<1> DEFINE r(p) == [state |-> "sent", expected |-> version, value |-> upload[u].payload]
<1>1. PICK p \in Puts : put[p] = Fresh /\ put' = [put EXCEPT ![p] = r(p)]
  BY DEF Versioned
<1>2. upload[u].payload \in Backups /\ version \in Nat /\ UNCHANGED <<version, backup>>
  BY DEF Versioned, UploadTypes, ServerTypes
<1>3. r(p) \in Put
  BY <1>2 DEF Put
<1>4. Asked(r(p)) = [state |-> "asked", expected |-> version, value |-> upload[u].payload]
  BY <1>3, AskedFields
<1>5. asked' = [asked EXCEPT ![p] = Asked(r(p))]
  BY <1>1, AskedStep
<1>6. asked[p] = Register!Fresh
  BY <1>1, FreshAsked DEF asked
<1>7. asked'[p] = Asked(r(p))
  BY <1>5 DEF asked
<1> HIDE DEF r
<1>8. asked'[p].expected = version /\ asked'[p].value = upload[u].payload
  BY <1>4, <1>7
<1>9. Register!Ask(p)
  BY <1>2, <1>4, <1>5, <1>6, <1>8, RegisterActions
<1> QED
  BY <1>9 DEF RegisterStep

LEMMA NextServes ==
  ASSUME TypeOK, [Next]_vars
  PROVE  RegisterStep
<1> USE TypeParts
<1>1. CASE ClearBackup
  BY <1>1 DEF ClearBackup, asked, RegisterStep
<1>2. CASE \E p \in Puts : Check(p) \/ Write(p)
  BY <1>2, CheckServes, WriteServes
<1>3. CASE \E u \in Uploaders : Versioned(u)
  BY <1>3, VersionedServes
<1>4. CASE UNCHANGED <<version, backup, put>>
  BY <1>4 DEF asked, RegisterStep
<1>5. ASSUME \/ \E u \in Uploaders : UploadEnds(u)
             \/ \E n \in Names : Assign(n)
             \/ \E m \in Machines :
                  \/ Poll(m) \/ SyncNow(m) \/ FetchProviders(m) \/ pull_providers(m)
                  \/ FetchBackup(m) \/ restore(m) \/ Logout(m) \/ Login(m)
                  \/ \E n \in Names : OwnKey(m, n) \/ OwnEntry(m, n)
             \/ UNCHANGED vars
      PROVE  UNCHANGED <<version, backup, put>>
  BY <1>5 DEF UploadEnds, Assign, Poll, SyncNow, FetchProviders, pull_providers, FetchBackup,
     restore, Logout, Login, OwnKey, OwnEntry, vars, serverVars
<1> QED
  BY <1>1, <1>2, <1>3, <1>4, <1>5 DEF Next

(* The two locks of backup.rs's put, a clear between them, two writers and  *)
(* lost answers notwithstanding, every put takes effect at one moment.     *)
THEOREM BackupIsARegister == Spec => ServesARegister
<1>1. Init => Register!Init
  BY FreshAsked DEF Init, Register!Init, Asked
<1>2. TypeOK /\ [Next]_vars =>
        [Register!Next]_<<version, backup,
          [p \in Puts |-> [put[p] EXCEPT !.state = IF @ \in {"sent", "checked"} THEN "asked"
                                                   ELSE @]]>>
  <2> SUFFICES ASSUME TypeOK, [Next]_vars
               PROVE  Register!Next \/ UNCHANGED <<version, backup, asked>>
    BY DEF asked, Asked
  <2>1. RegisterStep
    BY NextServes
  <2>2. version' = 0 /\ backup' = NoBackup /\ UNCHANGED asked => Register!Clear
    BY DEF Register!Clear, asked, Asked
  <2> QED
    BY <2>1, <2>2 DEF RegisterStep, Register!Next
<1> QED
  BY TypeCorrect, <1>1, <1>2, PTL DEF Spec, ServesARegister, Register!Spec

-----------------------------------------------------------------------------
(* Keys.  That the key of a model account stays at home is inductive only   *)
(* together with the mark in the settings, which is what build looks at;   *)
(* and the backup a restore holds in its hands counts as well.             *)

InHand(m) == command[m].kind = "restore" => Clean(command[m].got)

KeysAreMarked ==
  /\ \A m \in Machines : Marked(account[m]) /\ InHand(m)
  /\ backup # NoBackup => Clean(backup)
  /\ \A p \in Puts : put[p].value # NoBackup => Clean(put[p].value)
  /\ \A u \in Uploaders : upload[u].payload # NoBackup => Clean(upload[u].payload)

LEMMA InitKeys == Init => KeysAreMarked
  BY DEF Init, KeysAreMarked, InHand, Marked, Absent, NoCommand, Fresh, NoUpload, Names

LEMMA PutStepKeys ==
  ASSUME TypeOK, KeysAreMarked, NEW p \in Puts, Check(p) \/ Write(p)
  PROVE  KeysAreMarked'
<1>1. ServerTypes
  BY TypeParts
<1>2. PICK r : /\ put' = [put EXCEPT ![p] = r]
               /\ r.value # NoBackup => r.value = put[p].value
  <2>1. \A o : Over(o).value = NoBackup
    BY DEF Over
  <2>2. [put[p] EXCEPT !.state = "checked"].value = put[p].value
    BY <1>1 DEF ServerTypes, Put
  <2>3. CASE Check(p)
    BY <1>1, <2>1, <2>2, <2>3 DEF Check, ServerTypes
  <2>4. CASE Write(p)
    BY <2>1, <2>4 DEF Write
  <2> QED
    BY <2>3, <2>4
<1>3. \A q \in Puts : put'[q].value # NoBackup => Clean(put'[q].value)
  BY <1>1, <1>2 DEF ServerTypes, KeysAreMarked
<1>4. backup' # NoBackup => Clean(backup')
  <2>1. Write(p) => put[p].value \in Backups
    BY <1>1 DEF Write, ServerTypes
  <2> QED
    BY <2>1, NoBackupAssumption DEF Check, Write, KeysAreMarked
<1>5. UNCHANGED <<account, upload, command>>
  BY DEF Check, Write
<1> QED
  BY <1>3, <1>4, <1>5 DEF KeysAreMarked, InHand

LEMMA VersionedKeys ==
  ASSUME TypeOK, KeysAreMarked, NEW u \in Uploaders, Versioned(u)
  PROVE  KeysAreMarked'
<1>1. ServerTypes /\ UploadTypes
  BY TypeParts
<1>2. PICK p \in Puts :
        /\ put' = [put EXCEPT ![p] = [state |-> "sent", expected |-> version,
                                      value |-> upload[u].payload]]
        /\ upload' = [upload EXCEPT ![u] = [pc |-> "putting", payload |-> NoBackup, put |-> p]]
  BY DEF Versioned
<1>3. \A q \in Puts : put'[q].value # NoBackup => Clean(put'[q].value)
  BY <1>1, <1>2 DEF ServerTypes, KeysAreMarked
<1>4. \A w \in Uploaders : upload'[w].payload # NoBackup => Clean(upload'[w].payload)
  BY <1>1, <1>2 DEF UploadTypes, KeysAreMarked
<1> QED
  BY <1>3, <1>4 DEF Versioned, KeysAreMarked, InHand

LEMMA UploadKeys ==
  ASSUME TypeOK, KeysAreMarked, NEW m \in Machines, Poll(m) \/ SyncNow(m)
  PROVE  KeysAreMarked'
<1>1. UploadTypes /\ account[m] \in Backups
  BY TypeParts DEF MachineTypes
<1>2. Clean(Build(account[m]))
  BY <1>1, BuildCleans DEF KeysAreMarked
<1>3. ASSUME NEW by, Begin(m, by)
      PROVE  \A u \in Uploaders : upload'[u].payload # NoBackup => Clean(upload'[u].payload)
  BY <1>1, <1>2, <1>3 DEF Begin, NoUpload, UploadTypes, KeysAreMarked
<1>4. \A u \in Uploaders : upload'[u].payload # NoBackup => Clean(upload'[u].payload)
  BY <1>3 DEF Poll, SyncNow, KeysAreMarked
<1> QED
  BY <1>4 DEF Poll, SyncNow, serverVars, KeysAreMarked, InHand

LEMMA UserKeys ==
  ASSUME TypeOK, KeysAreMarked, NEW m \in Machines, NEW n \in Names,
         OwnKey(m, n) \/ OwnEntry(m, n)
  PROVE  /\ KeysAreMarked'
         /\ \A k \in Machines, x \in Names :
              account'[k][x].key = "company" => account[k][x].key = "company"
<1>1. account \in [Machines -> Backups] /\ account[m] \in Backups /\ account[m][n] \in Account
  BY TypeParts, AccountFields DEF MachineTypes
<1>2. PICK acc \in Account : /\ account' = [account EXCEPT ![m] = [account[m] EXCEPT ![n] = acc]]
                             /\ acc.key = "own"
  BY <1>1, UserSteps
<1>3. \A k \in Machines, x \in Names :
        account'[k][x] = account[k][x] \/ account'[k][x].key = "own"
  BY <1>1, <1>2 DEF Backups
<1>4. \A k \in Machines : Marked(account'[k])
  BY <1>3 DEF KeysAreMarked, Marked, Names
<1>5. UNCHANGED <<backup, put, upload, command>>
  BY DEF OwnKey, OwnEntry, serverVars
<1> QED
  BY <1>3, <1>4, <1>5 DEF KeysAreMarked, InHand

(* What a command does to the keys of its machine, and of no other.        *)
LEMMA PullKeys ==
  ASSUME TypeOK, KeysAreMarked, NEW m \in Machines, pull_providers(m)
  PROVE  /\ KeysAreMarked'
         /\ \A n \in Models : account'[m][n].key = "company" => n \in granted'[m]
         /\ \A k \in Machines \ {m} : account'[k] = account[k] /\ granted'[k] = granted[k]
<1>1. MachineTypes /\ account[m] \in Backups
  BY TypeParts DEF MachineTypes
<1>2. account' = [account EXCEPT ![m] = Pulled(command[m].got, account[m])]
  BY <1>1 DEF pull_providers, MachineTypes
<1>3. /\ Marked(Pulled(command[m].got, account[m]))
      /\ \A n \in Models : Pulled(command[m].got, account[m])[n].key = "company"
                           => n \in command[m].got
  BY <1>1, PulledKeys DEF KeysAreMarked
<1>4. account'[m] = Pulled(command[m].got, account[m]) /\ granted'[m] = command[m].got
  BY <1>1, <1>2 DEF pull_providers, MachineTypes
<1>5. \A k \in Machines \ {m} : /\ account'[k] = account[k] /\ granted'[k] = granted[k]
                                /\ command'[k] = command[k]
  BY <1>1, <1>2 DEF pull_providers, MachineTypes
<1>6. InHand(m)'
  BY <1>1 DEF pull_providers, InHand, MachineTypes, NoCommand
<1>7. UNCHANGED <<backup, put, upload>>
  BY DEF pull_providers, serverVars
<1> QED
  BY <1>3, <1>4, <1>5, <1>6, <1>7 DEF KeysAreMarked, InHand

LEMMA RestoreKeys ==
  ASSUME TypeOK, KeysAreMarked, NEW m \in Machines, restore(m)
  PROVE  /\ KeysAreMarked'
         /\ \A n \in Models : account'[m][n].key = "company" => account[m][n].key = "company"
         /\ \A k \in Machines \ {m} : account'[k] = account[k]
<1>1. MachineTypes /\ account[m] \in Backups
  BY TypeParts DEF MachineTypes
<1>2. command[m].got \in Backups
  BY <1>1, CommandsAreTyped DEF restore
<1>3. account' = [account EXCEPT ![m] = Restored(command[m].got, account[m])]
  BY <1>1 DEF restore, MachineTypes
<1>4. /\ Marked(Restored(command[m].got, account[m]))
      /\ \A n \in Models : Restored(command[m].got, account[m])[n].key = "company"
                           => account[m][n].key = "company"
  BY <1>1, <1>2, RestoredKeys DEF KeysAreMarked, InHand, restore
<1>5. account'[m] = Restored(command[m].got, account[m])
  BY <1>1, <1>3 DEF MachineTypes
<1>6. \A k \in Machines \ {m} : account'[k] = account[k] /\ command'[k] = command[k]
  BY <1>1, <1>3 DEF restore, MachineTypes
<1>7. InHand(m)'
  BY <1>1 DEF restore, InHand, MachineTypes, NoCommand
<1>8. UNCHANGED <<backup, put, upload>>
  BY DEF restore, serverVars
<1> QED
  BY <1>4, <1>5, <1>6, <1>7, <1>8 DEF KeysAreMarked, InHand

LEMMA LogoutKeys ==
  ASSUME TypeOK, KeysAreMarked, NEW m \in Machines, Logout(m)
  PROVE  /\ KeysAreMarked'
         /\ \A n \in Names : account'[m][n].key # "company"
         /\ \A k \in Machines \ {m} : account'[k] = account[k] /\ granted'[k] = granted[k]
<1>1. MachineTypes /\ account[m] \in Backups
  BY TypeParts DEF MachineTypes
<1>2. account' = [account EXCEPT ![m] = Forgotten(account[m])]
  BY <1>1 DEF Logout, MachineTypes
<1>3. Marked(Forgotten(account[m])) /\ \A n \in Names : Forgotten(account[m])[n].key # "company"
  BY <1>1, ForgottenKeys DEF KeysAreMarked
<1>4. account'[m] = Forgotten(account[m])
  BY <1>1, <1>2 DEF MachineTypes
<1>5. \A k \in Machines \ {m} : account'[k] = account[k] /\ granted'[k] = granted[k]
  BY <1>1, <1>2 DEF Logout, MachineTypes
<1>6. UNCHANGED <<backup, put, upload, command>>
  BY DEF Logout, serverVars
<1> QED
  BY <1>3, <1>4, <1>5, <1>6 DEF KeysAreMarked, InHand

LEMMA FetchKeys ==
  ASSUME TypeOK, KeysAreMarked, NEW m \in Machines,
         FetchProviders(m) \/ FetchBackup(m) \/ Login(m)
  PROVE  KeysAreMarked'
<1>1. MachineTypes
  BY TypeParts
<1>2. \A k \in Machines : InHand(k)'
  BY <1>1 DEF FetchProviders, FetchBackup, Login, KeysAreMarked, InHand, MachineTypes
<1> QED
  BY <1>2 DEF FetchProviders, FetchBackup, Login, serverVars, KeysAreMarked

LEMMA SurroundingKeys ==
  ASSUME TypeOK, KeysAreMarked,
         \/ ClearBackup \/ \E n \in Names : Assign(n)
         \/ \E u \in Uploaders : UploadEnds(u)
         \/ UNCHANGED vars
  PROVE  KeysAreMarked'
<1>1. UploadTypes
  BY TypeParts
<1>2. \A u \in Uploaders : upload'[u] = upload[u] \/ upload'[u].payload = NoBackup
  BY <1>1 DEF UploadTypes, ClearBackup, Assign, UploadEnds, NoUpload, vars
<1> QED
  BY <1>2 DEF ClearBackup, Assign, UploadEnds, vars, serverVars, KeysAreMarked, InHand

LEMMA NextKeys == TypeOK /\ KeysAreMarked /\ [Next]_vars => KeysAreMarked'
  BY PutStepKeys, VersionedKeys, UploadKeys, UserKeys, PullKeys, RestoreKeys, LogoutKeys,
     FetchKeys, SurroundingKeys DEF Next

(* No model key of the company's is in a backup or on its way to one,       *)
(* whatever sequence of pulls, uploads, restores and logouts, on however   *)
(* many machines, came before.                                             *)
THEOREM ModelKeysNeverLeave == Spec => []ModelKeysStayHome
<1>1. KeysAreMarked => ModelKeysStayHome
  BY DEF KeysAreMarked, ModelKeysStayHome, Payloads, Clean
<1> QED
  BY TypeCorrect, InitKeys, NextKeys, <1>1, PTL DEF Spec

-----------------------------------------------------------------------------
(* How long a machine keeps a key.                                         *)

Handed(m) == \A n \in Models : account[m][n].key = "company" => n \in granted[m]

KeysAreHanded == \A m \in Machines : Handed(m)

LEMMA NextHanded ==
  ASSUME TypeOK, KeysAreMarked, KeysAreHanded, [Next]_vars
  PROVE  KeysAreHanded'
<1> USE DEF KeysAreHanded
<1>1. CASE UNCHANGED <<account, granted>>
  BY <1>1 DEF Handed
<1>2. ASSUME NEW m \in Machines, pull_providers(m) PROVE \A k \in Machines : Handed(k)'
  BY <1>2, PullKeys DEF Handed
<1>3. ASSUME NEW m \in Machines, restore(m) PROVE \A k \in Machines : Handed(k)'
  BY <1>3, RestoreKeys DEF Handed, restore
<1>4. ASSUME NEW m \in Machines, Logout(m) PROVE \A k \in Machines : Handed(k)'
  BY <1>4, LogoutKeys DEF Handed, Names
<1>5. ASSUME NEW m \in Machines, NEW n \in Names, OwnKey(m, n) \/ OwnEntry(m, n)
      PROVE  \A k \in Machines : Handed(k)'
  BY <1>5, UserKeys DEF Handed, Names, OwnKey, OwnEntry
<1>6. ASSUME \/ ClearBackup
             \/ \E p \in Puts : Check(p) \/ Write(p)
             \/ \E n \in Names : Assign(n)
             \/ \E u \in Uploaders : Versioned(u) \/ UploadEnds(u)
             \/ \E m \in Machines : \/ Poll(m) \/ SyncNow(m) \/ FetchProviders(m)
                                     \/ FetchBackup(m) \/ Login(m)
             \/ UNCHANGED vars
      PROVE  UNCHANGED <<account, granted>>
  BY <1>6 DEF ClearBackup, Check, Write, Assign, Versioned, UploadEnds, Poll, SyncNow,
     FetchProviders, FetchBackup, Login, vars
<1> QED
  BY <1>1, <1>2, <1>3, <1>4, <1>5, <1>6 DEF Next

(* A machine has a model key of the company's only while its last list had  *)
(* the account on it; a logout empties the list.                           *)
THEOREM ModelKeysAreHanded == Spec => []ModelKeysEndWithTheirEntitlement
<1>1. Init => KeysAreHanded
  BY DEF Init, KeysAreHanded, Handed, Absent, Names
<1>2. KeysAreHanded => ModelKeysEndWithTheirEntitlement
  BY DEF KeysAreHanded, Handed, ModelKeysEndWithTheirEntitlement, KeysOf
<1> QED
  BY TypeCorrect, InitKeys, NextKeys, NextHanded, <1>1, <1>2, PTL DEF Spec

(* A machine without a session runs no command, since a logout is one, and  *)
(* a login the only one it can begin.                                      *)
SignedOut(m) == m \notin signedIn => Free(m) /\ \A n \in Names : account[m][n].key # "company"

SignedOutIsFree == \A m \in Machines : SignedOut(m)

LEMMA NextSignedOut ==
  ASSUME TypeOK, KeysAreMarked, SignedOutIsFree, [Next]_vars
  PROVE  SignedOutIsFree'
<1> USE DEF SignedOutIsFree
<1>1. CASE UNCHANGED <<account, signedIn, command>>
  BY <1>1 DEF SignedOut, Free
<1>2. ASSUME NEW m \in Machines, pull_providers(m) \/ restore(m)
      PROVE  \A k \in Machines : SignedOut(k)'
  <2>1. m \in signedIn' /\ signedIn' = signedIn
    BY <1>2 DEF pull_providers, restore, SignedOut, Free
  <2>2. \A k \in Machines \ {m} : account'[k] = account[k] /\ command'[k] = command[k]
    BY <1>2, PullKeys, RestoreKeys, TypeParts DEF pull_providers, restore, MachineTypes
  <2> QED
    BY <2>1, <2>2 DEF SignedOut, Free
<1>3. ASSUME NEW m \in Machines, Logout(m) PROVE \A k \in Machines : SignedOut(k)'
  BY <1>3, LogoutKeys DEF SignedOut, Free, Logout, Issue
<1>4. ASSUME NEW m \in Machines, FetchProviders(m) \/ FetchBackup(m) \/ Login(m)
      PROVE  \A k \in Machines : SignedOut(k)'
  <2>1. m \in signedIn' /\ signedIn \subseteq signedIn' /\ account' = account
    BY <1>4 DEF FetchProviders, FetchBackup, Login
  <2>2. \A k \in Machines \ {m} : command'[k] = command[k]
    BY <1>4, TypeParts DEF FetchProviders, FetchBackup, Login, MachineTypes
  <2> QED
    BY <2>1, <2>2 DEF SignedOut, Free
<1>5. ASSUME NEW m \in Machines, NEW n \in Names, OwnKey(m, n) \/ OwnEntry(m, n)
      PROVE  \A k \in Machines : SignedOut(k)'
  BY <1>5, UserKeys DEF SignedOut, Free, OwnKey, OwnEntry
<1>6. ASSUME \/ ClearBackup
             \/ \E p \in Puts : Check(p) \/ Write(p)
             \/ \E n \in Names : Assign(n)
             \/ \E u \in Uploaders : Versioned(u) \/ UploadEnds(u)
             \/ \E m \in Machines : Poll(m) \/ SyncNow(m)
             \/ UNCHANGED vars
      PROVE  UNCHANGED <<account, signedIn, command>>
  BY <1>6 DEF ClearBackup, Check, Write, Assign, Versioned, UploadEnds, Poll, SyncNow, vars
<1> QED
  BY <1>1, <1>2, <1>3, <1>4, <1>5, <1>6 DEF Next

(* After a logout no key of the company's is left until the next login.    *)
THEOREM LogoutsForget == Spec => []LogoutForgets
<1>1. Init => SignedOutIsFree
  BY DEF Init, SignedOutIsFree, SignedOut
<1>2. SignedOutIsFree => LogoutForgets
  BY DEF SignedOutIsFree, SignedOut, LogoutForgets, KeysOf
<1> QED
  BY TypeCorrect, InitKeys, NextKeys, NextSignedOut, <1>1, <1>2, PTL DEF Spec

-----------------------------------------------------------------------------
(* The user's own accounts.                                                *)

Kept(a, b) == \A n \in Names : IsOwn(n, a[n]) /\ a[n].key = "own" => b[n].key = "own"

LEMMA OwnIsKept ==
  ASSUME NEW a \in Backups
  PROVE  /\ \A list : Kept(a, Pulled(list, a))
         /\ \A b : Kept(a, Restored(b, a))
         /\ Kept(a, Forgotten(a))
<1>1. ASSUME NEW list, NEW n \in Names, IsOwn(n, a[n]), a[n].key = "own"
      PROVE  Pulled(list, a)[n] = a[n]
  BY <1>1 DEF Pulled, IsOwn, IsManaged
<1>2. ASSUME NEW b, NEW n \in Names, IsOwn(n, a[n]), a[n].key = "own"
      PROVE  Restored(b, a)[n].key = "own"
  BY <1>2 DEF Restored, managed_by
<1>3. ASSUME NEW n \in Names, IsOwn(n, a[n]), a[n].key = "own"
      PROVE  Forgotten(a)[n] = a[n]
  BY <1>3 DEF Forgotten, IsOwn, IsManaged
<1> QED
  BY <1>1, <1>2, <1>3 DEF Kept

LEMMA StepKeepsOwn ==
  ASSUME TypeOK, [Next]_vars
  PROVE  \A m \in Machines : Kept(account[m], account'[m])
<1>1. MachineTypes
  BY TypeParts
<1>2. CASE UNCHANGED account
  BY <1>2 DEF Kept
<1>3. ASSUME NEW m \in Machines, NEW new, account' = [account EXCEPT ![m] = new],
             Kept(account[m], new)
      PROVE  \A k \in Machines : Kept(account[k], account'[k])
  BY <1>1, <1>3 DEF MachineTypes, Kept
<1>4. ASSUME NEW m \in Machines, pull_providers(m) \/ restore(m) \/ Logout(m)
      PROVE  \A k \in Machines : Kept(account[k], account'[k])
  <2>1. \/ account' = [account EXCEPT ![m] = Pulled(command[m].got, account[m])]
        \/ account' = [account EXCEPT ![m] = Restored(command[m].got, account[m])]
        \/ account' = [account EXCEPT ![m] = Forgotten(account[m])]
    BY <1>1, <1>4 DEF pull_providers, restore, Logout, MachineTypes
  <2> QED
    BY <1>1, <1>3, <2>1, OwnIsKept DEF MachineTypes
<1>5. ASSUME NEW m \in Machines, NEW n \in Names, OwnKey(m, n) \/ OwnEntry(m, n)
      PROVE  \A k \in Machines : Kept(account[k], account'[k])
  <2>1. account[m] \in Backups /\ account[m][n] \in Account
    BY <1>1, AccountFields DEF MachineTypes
  <2>2. PICK acc \in Account :
          /\ account' = [account EXCEPT ![m] = [account[m] EXCEPT ![n] = acc]]
          /\ acc.key = "own"
    BY <1>5, <2>1, UserSteps
  <2>3. Kept(account[m], [account[m] EXCEPT ![n] = acc])
    BY <2>1, <2>2 DEF Kept, Backups
  <2> QED
    BY <1>3, <2>2, <2>3
<1>6. ASSUME \/ ClearBackup
             \/ \E p \in Puts : Check(p) \/ Write(p)
             \/ \E n \in Names : Assign(n)
             \/ \E u \in Uploaders : Versioned(u) \/ UploadEnds(u)
             \/ \E m \in Machines : \/ Poll(m) \/ SyncNow(m) \/ FetchProviders(m)
                                     \/ FetchBackup(m) \/ Login(m)
             \/ UNCHANGED vars
      PROVE  UNCHANGED account
  BY <1>6 DEF ClearBackup, Check, Write, Assign, Versioned, UploadEnds, Poll, SyncNow,
     FetchProviders, FetchBackup, Login, vars
<1> QED
  BY <1>2, <1>4, <1>5, <1>6 DEF Next

(* A key of the user's, under an entry of the user's if it is a model       *)
(* account, survives every list the server hands out, every backup and     *)
(* every logout.                                                           *)
THEOREM OwnKeysSurvive == Spec => OwnAccountsSurvive
<1>1. TypeOK /\ [Next]_vars =>
        [\A m \in Machines, n \in Names :
           IsOwn(n, account[m][n]) /\ account[m][n].key = "own"
             => account'[m][n].key = "own"]_vars
  BY StepKeepsOwn DEF Kept
<1> QED
  BY TypeCorrect, <1>1, PTL DEF Spec, OwnAccountsSurvive

=============================================================================
