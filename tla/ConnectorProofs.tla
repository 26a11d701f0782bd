-------------------------- MODULE ConnectorProofs --------------------------
(***************************************************************************)
(* What the connector does for its user is right for every value of the    *)
(* constants: one registration, one connection and one session at a time,  *)
(* until the user signs out (Session); read markers and delivered ticks    *)
(* are set where their message is (BridgeReceipts); a redaction reaches    *)
(* every piece of its event, and what was taken back stays gone (Outgoing);*)
(* groups that never had the same members never share a room, typing       *)
(* notices and receipts keep apart as they do, and aliases lead to rooms   *)
(* (GroupRouting).                                                         *)
(***************************************************************************)
EXTENDS Session, Outgoing, BridgeReceipts, GroupRouting, FiniteSetTheorems, SequenceTheorems,
        TLAPS

-----------------------------------------------------------------------------
(* Session.  What the row, session.json, the keystore, the client in use    *)
(* and a login flow hold is one registration's.                             *)

(* What an accepted session references is in the keystore. *)
Keyed(s) == mounted /\ s.reg \in keystore

(* The numbers of registrations, and the types. *)
SessionShape ==
  /\ SessionTypeOK
  /\ regs \in 0..MaxRegs /\ kept \in 0..regs /\ login.session.reg \in 0..regs
  /\ signedOut \cup escaped \subseteq 1..regs
  /\ \A s \in expired : s.ver < MaxRefreshes

(* The row and the file that hold a session hold one of the registration   *)
(* last completed, and their histories say when they hold none.            *)
RememberedInv ==
  /\ ~row.there => row = NoLoginRow
  /\ row.session # Nothing => row.session.reg = kept
  /\ backup.session # Nothing => backup.session.reg = kept
  /\ ~rowLost => row.session # Nothing
  /\ ~backupLost => backup.session # Nothing

(* The login flow: a session it found or made has its keys, and belongs to *)
(* the registration of the row if the row has one.                         *)
LoginInv ==
  /\ login.stage \in {"device", "passcode", "handle", "saved"} => login.session # Nothing
  /\ login.session # Nothing =>
       Keyed(login.session) /\ (row.session # Nothing => row.session.reg = login.session.reg)
  /\ login.stage = "saved" => login.session.reg = kept

(* The client in use.  One that is loaded has the session of the row, which*)
(* may have lost its keys; past that the row's session has its keys.       *)
CurrentInv ==
  /\ current # 0 =>
       /\ up /\ row.there /\ client[current].session.reg \in 0..regs
       /\ client[current].stage = "loaded" =>
            client[current].session = row.session /\ client[current].pending = Nothing
       /\ client[current].stage = "connected" \/ client[current].pending # Nothing =>
            row.session # Nothing /\ client[current].session # Nothing
       /\ client[current].stage = "connected" =>
            client[current].session.reg = row.session.reg
       /\ client[current].pending # Nothing => client[current].pending.reg = row.session.reg
       /\ rebuild = "asked" => client[current].stage = "connected" \/ client[current].flow
       /\ rebuild = "stopped" => ~client[current].open \/ client[current].flow
  /\ up /\ row.session # Nothing =>
       \/ Keyed(row.session)
       \/ current # 0 /\ client[current].stage = "loaded" /\ login.stage = "idle"

(* Only the client in use is connected, but for those of login flows. *)
OpenInv == \A c \in Clients : client[c].open /\ ~client[c].flow => c = current

(* A process that is down has forgotten everything but its files. *)
DownInv ==
  ~up => /\ current = 0 /\ login = NoLogin /\ rebuild = "no" /\ ~signout
         /\ \A c \in Clients : ~client[c].open

(* Registrations that were signed out are nowhere, once the files are       *)
(* removed.                                                                *)
SignedOutInv ==
  /\ LoggedOutStaysOut
  /\ \/ signout /\ ~row.there
     \/ {backup.session.reg, login.session.reg} \cap (signedOut \ escaped) = {}

SavedInv == saved # Nothing /\ row.session # Nothing => row.session = saved

SessionInv ==
  /\ SessionShape /\ RememberedInv /\ LoginInv /\ CurrentInv /\ OpenInv /\ DownInv
  /\ SignedOutInv /\ SavedInv /\ RegistersOnce

-----------------------------------------------------------------------------
LEMMA EmptyRecords ==
  /\ Nothing \in Sessions /\ NoClient \in ClientRecords /\ NoLogin \in LoginFlows
  /\ NoLoginRow \in LoginRows /\ NoBackup \in Backups
BY SessionAssumption DEF Nothing, Sessions, NoClient, NoLogin, ClientRecords, LoginFlows,
   NoLoginRow, NoBackup, LoginRows, Backups

(* The clients are numbered as they are made. *)
LEMMA NextClient == Made \in Nat /\ (Made < MaxClients => Made + 1 \in Clients)
<1>1. IsFiniteSet(1..MaxClients)
  BY SessionAssumption, FS_Interval
<1>2. IsFiniteSet({c \in Clients : client[c].stage # "none"})
  BY <1>1, FS_Subset DEF Clients
<1>3. Made \in Nat
  BY <1>2, FS_CardinalityType DEF Made
<1> QED BY <1>3, SessionAssumption DEF Clients

LEMMA ClosedClients ==
  ASSUME NEW c \in Clients, SessionTypeOK PROVE Disconnected(c) \in [Clients -> ClientRecords]
<1>1. client \in [Clients -> ClientRecords]
  BY DEF SessionTypeOK
<1>2. [client[c] EXCEPT !.stage = "closed", !.open = FALSE,
         !.pending = IF @ = Nothing THEN client[c].session ELSE @] \in ClientRecords
  BY <1>1 DEF ClientRecords
<1> QED BY <1>1, <1>2 DEF Disconnected

LEMMA LoadedTypes ==
  ASSUME SessionTypeOK, NEW r \in LoginRows, LoadUserLogin(r)
  PROVE  /\ client' \in [Clients -> ClientRecords] /\ current' \in Clients
         /\ backup' \in Backups /\ backupLost' \in BOOLEAN /\ saved' \in Sessions
<1>1. client \in [Clients -> ClientRecords] /\ Made + 1 \in Clients
  BY NextClient DEF SessionTypeOK, LoadUserLogin
<1>2. [NoClient EXCEPT !.stage = "loaded", !.open = TRUE, !.session = r.session] \in ClientRecords
  BY EmptyRecords DEF ClientRecords, LoginRows
<1>3. BackupCopy(r) \in Backups
  BY DEF SessionTypeOK, BackupCopy, LoginRows, Backups
<1> QED BY <1>1, <1>2, <1>3, EmptyRecords DEF SessionTypeOK, LoadUserLogin

(* The cached session is that of the row or of the file. *)
LEMMA ReusableType == SessionTypeOK => Reusable \in Sessions
BY EmptyRecords DEF Reusable, CachedSession, SessionTypeOK, LoginRows, Backups

LEMMA SessionStepType == ASSUME SessionInv, [SessionNext]_sessionVars PROVE SessionTypeOK'
<1>0. /\ SessionTypeOK /\ regs \in 0..MaxRegs /\ login.session.reg \in 0..regs
      /\ signedOut \subseteq 1..regs /\ \A s \in expired : s.ver < MaxRefreshes
  BY DEF SessionInv, SessionShape
<1> USE DEF SessionTypeOK
<1>1. CASE StartBridge
  <2>1. CASE row.there /\ LoadUserLogin(row) /\ UNCHANGED <<row, rowLost>>
    BY <1>0, <1>1, <2>1, LoadedTypes, SessionAssumption DEF StartBridge, disk, Clients
  <2>2. CASE row' = TryAutoRestore /\ rowLost' = FALSE /\ LoadUserLogin(TryAutoRestore)
    <3>1. TryAutoRestore \in LoginRows
      BY <1>0 DEF TryAutoRestore, LoginRows, Backups
    <3>2. /\ client' \in [Clients -> ClientRecords] /\ current' \in 0..MaxClients
          /\ backup' \in Backups /\ backupLost' \in BOOLEAN /\ saved' \in Sessions
      BY <1>0, <2>2, <3>1, LoadedTypes, SessionAssumption DEF Clients
    <3>3. row' \in LoginRows /\ rowLost' \in BOOLEAN
      BY <2>2, <3>1
    <3> QED BY <1>0, <1>1, <3>2, <3>3 DEF StartBridge, disk
  <2> QED BY <1>0, <1>1, <2>1, <2>2 DEF StartBridge, disk
<1>2. CASE ConnectWithoutKeys
  BY <1>0, <1>2, EmptyRecords DEF ConnectWithoutKeys, disk, LoginRows, ClientRecords
<1>3. CASE ConnectFails \/ WatchdogFires
  BY <1>0, <1>3 DEF ConnectFails, WatchdogFires, disk, hist, ClientRecords
<1>4. CASE Connect
  <2>1. client[current] \in ClientRecords /\ current \in Clients
    BY <1>0, <1>4, SessionAssumption DEF Connect, Clients
  <2>2. client[current].session \in Sessions
    BY <2>1 DEF ClientRecords
  <2>3. ChosenHandle(row.handle, Handles) \in Handles
    BY SessionAssumption DEF ChosenHandle
  <2>4. [client EXCEPT ![current].stage = "connected"] \in [Clients -> ClientRecords]
    BY <1>0, <2>1 DEF ClientRecords
  <2>5. [row EXCEPT !.handle = ChosenHandle(row.handle, Handles), !.session = client[current].session]
          \in LoginRows
    BY <1>0, <2>2, <2>3 DEF LoginRows
  <2> QED BY <1>0, <1>4, <2>2, <2>4, <2>5 DEF Connect, disk, hist
<1>5. CASE BeginRebuild
  <2>1. current \in Clients
    BY <1>0, <1>5, SessionAssumption DEF BeginRebuild, Clients
  <2> QED BY <1>0, <1>5, <2>1, ClosedClients DEF BeginRebuild, StopExisting, disk, hist
<1>6. CASE FinishRebuild
  BY <1>0, <1>6, LoadedTypes, SessionAssumption DEF FinishRebuild, disk, Clients
<1>7. ASSUME NEW c \in Clients, UpdateUsers(c) PROVE SessionTypeOK'
  <2> DEFINE fresher == [client[c].session EXCEPT !.ver = @ + 1]
  <2>1. client[c] \in ClientRecords
    BY <1>0
  <2>2. fresher \in Sessions
    BY <1>7, <2>1, SessionAssumption DEF UpdateUsers, ClientRecords, Sessions
  <2> HIDE DEF fresher
  <2>3. [client EXCEPT ![c].session = fresher, ![c].pending = fresher] \in [Clients -> ClientRecords]
    BY <1>0, <2>2 DEF ClientRecords
  <2>4. client' = [client EXCEPT ![c].session = fresher, ![c].pending = fresher]
    BY <1>7 DEF UpdateUsers, fresher
  <2> QED BY <1>0, <1>7, <2>3, <2>4 DEF UpdateUsers, disk, hist
<1>8. ASSUME NEW c \in Clients, PeriodicStateSave(c) PROVE SessionTypeOK'
  BY <1>0, <1>8 DEF PeriodicStateSave, disk, hist, ClientRecords
<1>9. ASSUME NEW c \in Clients, PersistState(c) PROVE SessionTypeOK'
  BY <1>0, <1>9, EmptyRecords DEF PersistState, disk, hist, ClientRecords, LoginRows
<1>10. CASE LoginStart
  <2>1. login' \in LoginFlows
    BY <1>0, <1>10, ReusableType, EmptyRecords, SessionAssumption DEF LoginStart, LoginFlows, Sessions
  <2> QED BY <1>0, <1>10, <2>1 DEF LoginStart, disk, hist
<1>11. CASE Needs2fa \/ SelectDevice \/ JoinKeychain \/ LoginEnds
  BY ZenonT(40), <1>0, <1>11, EmptyRecords DEF Needs2fa, SelectDevice, JoinKeychain, LoginEnds, disk, hist, LoginFlows
<1>12. CASE FinishLogin
  <2>1. ASSUME Reusable = Nothing PROVE regs < MaxRegs /\ [reg |-> regs + 1, ver |-> 0] \in Sessions
    BY <1>0, <1>12, <2>1, SessionAssumption DEF FinishLogin, Sessions
  <2>0. Renewed(Reusable) \in Sessions
    BY <1>0, ReusableType, SessionAssumption DEF Renewed, Sessions
  <2>2. (IF Reusable # Nothing THEN Renewed(Reusable) ELSE [reg |-> regs + 1, ver |-> 0]) \in Sessions
    BY <1>0, <2>0, <2>1
  <2>3. login' \in LoginFlows
    <3> DEFINE found == IF Reusable # Nothing THEN Renewed(Reusable) ELSE [reg |-> regs + 1, ver |-> 0]
    <3>1. PICK s \in AfterRegistration : login' = [login EXCEPT !.stage = s, !.session = found]
      BY <1>12 DEF FinishLogin
    <3> HIDE DEF found
    <3>2. s \in {"device", "passcode", "handle"}
      BY DEF AfterRegistration
    <3> QED BY <1>0, <2>2, <3>1, <3>2 DEF LoginFlows, found
  <2>4. CASE Reusable # Nothing
    BY <1>0, <1>12, <2>3, <2>4 DEF FinishLogin, disk
  <2>5. CASE Reusable = Nothing
    <3>1. /\ keystore' \subseteq keystore \cup {regs + 1} /\ needless' \subseteq needless \cup {regs + 1}
          /\ mounted' = TRUE /\ UNCHANGED clique /\ regs + 1 \in 1..MaxRegs
      BY <1>0, <1>12, <2>1, <2>5, SessionAssumption DEF FinishLogin
    <3> QED BY <1>0, <1>12, <2>3, <3>1 DEF FinishLogin
  <2> QED BY <2>4, <2>5
<1>13. ASSUME NEW h \in Handles, SaveSessionState(h) PROVE SessionTypeOK'
  BY <1>0, <1>13 DEF SaveSessionState, disk, LoginFlows, Backups
<1>14. CASE NewLogin
  <2>1. login.session \in Sessions /\ backup.handle \in Handles \cup {"none"}
    BY <1>0 DEF LoginFlows, Backups
  <2>2. PICK before \in {client, IF current # 0 THEN Disconnected(current) ELSE client} :
          client' = [c \in Clients |->
              IF c = Made + 1
              THEN [NoClient EXCEPT !.stage = "loaded", !.open = TRUE, !.flow = TRUE,
                                    !.session = login.session]
              ELSE [before[c] EXCEPT !.flow = @ \/ c = current]]
    BY <1>14 DEF NewLogin
  <2>3. before \in [Clients -> ClientRecords]
    BY <1>0, <2>2, ClosedClients, SessionAssumption DEF Clients
  <2>4. [NoClient EXCEPT !.stage = "loaded", !.open = TRUE, !.flow = TRUE, !.session = login.session]
          \in ClientRecords
    BY <2>1, EmptyRecords DEF ClientRecords
  <2>5. ASSUME NEW c \in Clients PROVE [before[c] EXCEPT !.flow = @ \/ c = current] \in ClientRecords
    BY <2>3 DEF ClientRecords
  <2>6. client' \in [Clients -> ClientRecords]
    BY <2>2, <2>4, <2>5
  <2>7. row' \in LoginRows
    BY <1>14, <2>1 DEF NewLogin, LoginRows
  <2>8. /\ current' = Made + 1 /\ Made < MaxClients
        /\ saved' = Nothing /\ login' = NoLogin /\ rowLost' = FALSE
    BY <1>14 DEF NewLogin
  <2>9. /\ UNCHANGED <<up, disk, backup, expired, rebuild, signout, backupLost, needless, signedOut>>
        /\ escaped' \subseteq escaped \cup {login.session.reg}
    BY <1>14 DEF NewLogin
  <2>11. login.session.reg \in keystore
    BY <1>14 DEF NewLogin, SessionInv, LoginInv, Keyed
  <2>10. current' \in 0..MaxClients
    BY <2>8, NextClient, SessionAssumption DEF Clients
  <2> QED BY <1>0, <2>6, <2>7, <2>8, <2>9, <2>10, <2>11, EmptyRecords DEF disk
<1>15. CASE Logout \/ LogoutAgain
  <2>1. CachedSession.reg \in 0..MaxRegs
    BY <1>0 DEF CachedSession, LoginRows, Backups, Sessions
  <2>2. CASE Logout
    <3>1. current \in Clients /\ client[current].session.reg \in 0..MaxRegs
      BY <1>0, <2>2, SessionAssumption DEF Logout, Clients, ClientRecords, Sessions
    <3>2. signedOut' \subseteq 1..MaxRegs
      BY <1>0, <2>1, <2>2, <3>1, SessionAssumption DEF Logout
    <3> QED BY <1>0, <2>2, <3>1, <3>2, ClosedClients, EmptyRecords, SessionAssumption
               DEF Logout, disk, Clients
  <2>3. CASE LogoutAgain
    <3>1. signedOut' \subseteq 1..MaxRegs
      BY <1>0, <2>1, <2>3, SessionAssumption DEF LogoutAgain
    <3> QED BY <1>0, <2>3, <3>1 DEF LogoutAgain, disk
  <2> QED BY <1>15, <2>2, <2>3
<1>16. CASE ClearLocalSessionBackup
  <2>1. {backup.session.reg, login.session.reg} \ {0} \subseteq 1..MaxRegs
    BY <1>0, SessionAssumption DEF Backups, LoginFlows, Sessions
  <2>2. escaped' \subseteq 1..MaxRegs
    BY <1>0, <1>16, <2>1 DEF ClearLocalSessionBackup
  <2>3. clique' \in BOOLEAN /\ backup' \in Backups /\ backupLost' \in BOOLEAN
    BY <1>0, <1>16, EmptyRecords DEF ClearLocalSessionBackup
  <2> QED BY <1>0, <1>16, <2>2, <2>3 DEF ClearLocalSessionBackup
<1>17. CASE BridgeDies \/ TornSave
  <2>1. client' \in [Clients -> ClientRecords]
    BY <1>17, EmptyRecords DEF BridgeDies, TornSave, Stopped, ClientRecords
  <2>2. /\ up' = FALSE /\ signout' = FALSE /\ current' = 0 /\ saved' = Nothing
        /\ login' = NoLogin /\ rebuild' = "no"
    BY <1>17 DEF BridgeDies, TornSave, Stopped
  <2>3. /\ mounted' \in BOOLEAN /\ clique' \in BOOLEAN /\ rowLost' \in BOOLEAN /\ row' = row
        /\ keystore' = keystore /\ needless' = needless /\ signedOut' = signedOut
        /\ backup' \in Backups /\ backupLost' \in BOOLEAN /\ expired' = expired
    BY <1>0, <1>17, EmptyRecords DEF BridgeDies, TornSave, disk
  <2>8. escaped' \subseteq 1..MaxRegs
    BY <1>0, <1>17, SessionAssumption DEF BridgeDies, TornSave, Stopped, Backups, Sessions
  <2>4. current' \in 0..MaxClients
    BY <2>2, SessionAssumption
  <2>7. up' \in BOOLEAN /\ signout' \in BOOLEAN
    BY <2>2, Zenon
  <2>5. login' \in LoginFlows /\ saved' \in Sessions /\ rebuild' \in {"no", "asked", "stopped"}
    BY <2>2, EmptyRecords
  <2>6. (keystore \cup needless \cup signedOut \cup escaped)' \subseteq 1..MaxRegs /\ row' \in LoginRows
    BY <1>0, <2>3, <2>8
  <2> QED BY <1>0, <2>1, <2>3, <2>4, <2>5, <2>6, <2>7
<1>18. CASE ResetDatabase \/ KeystoreMoves
  BY <1>0, <1>18, EmptyRecords DEF ResetDatabase, KeystoreMoves, disk, hist
<1>20. CASE RegistrationExpires
  <2>1. CachedSession \in Sessions
    BY <1>0 DEF CachedSession, LoginRows, Backups
  <2>2. \A v \in 0..CachedSession.ver : [CachedSession EXCEPT !.ver = v] \in Sessions
    BY <2>1, SessionAssumption DEF Sessions
  <2>3. expired' \subseteq Sessions
    BY <1>0, <1>20, <2>2 DEF RegistrationExpires
  <2> QED BY <1>0, <1>20, <2>3 DEF RegistrationExpires, disk, hist
<1>19. CASE UNCHANGED sessionVars
  BY <1>0, <1>19 DEF sessionVars
<1> HIDE DEF SessionTypeOK
<1> QED BY <1>1, <1>2, <1>3, <1>4, <1>5, <1>6, <1>7, <1>8, <1>9, <1>10, <1>11, <1>12, <1>13, <1>14,
           <1>15, <1>16, <1>17, <1>18, <1>19, <1>20 DEF SessionNext

(* A login registers only when nothing usable is remembered. *)
LEMMA Registers ==
  ASSUME SessionInv, FinishLogin, Reusable = Nothing
  PROVE  row.session = Nothing /\ needless' = needless
<1>1. row.session = Nothing
  BY DEF SessionInv, CurrentInv, FinishLogin, Reusable, CachedSession, Valid, Keyed
<1>2. mounted /\ kept \in keystore => rowLost /\ backupLost
  BY <1>1 DEF SessionInv, RememberedInv, Reusable, CachedSession, Valid
<1> QED BY <1>1, <1>2 DEF FinishLogin

LEMMA SessionStepLogin ==
  ASSUME SessionInv, SessionTypeOK',
         \/ LoginStart \/ Needs2fa \/ FinishLogin \/ SelectDevice \/ JoinKeychain \/ LoginEnds
         \/ \E h \in Handles : SaveSessionState(h)
  PROVE  SessionInv'
<1> USE SessionAssumption DEF SessionInv, SessionShape, SessionTypeOK, RememberedInv, LoginInv,
    CurrentInv, OpenInv, DownInv, SignedOutInv, SavedInv, RegistersOnce, LoggedOutStaysOut, Keyed,
    Sessions, Nothing, NoClient, NoLogin, NoLoginRow, NoBackup, hist, disk,
    LoginRows, Backups, ClientRecords, LoginFlows
<1>1. CASE LoginStart
  BY <1>1 DEF LoginStart
<1>2. CASE Needs2fa
  BY <1>2 DEF Needs2fa
<1>3. CASE SelectDevice \/ JoinKeychain
  BY <1>3 DEF SelectDevice, JoinKeychain
<1>4. CASE LoginEnds
  BY <1>4 DEF LoginEnds
<1>5. ASSUME NEW h \in Handles, SaveSessionState(h) PROVE SessionInv'
  BY <1>5 DEF SaveSessionState
<1> HIDE DEF SessionInv, SessionShape, SessionTypeOK, RememberedInv, LoginInv,
    CurrentInv, OpenInv, DownInv, SignedOutInv, SavedInv, RegistersOnce, LoggedOutStaysOut, Keyed,
    Sessions, Nothing, NoClient, NoLogin, NoLoginRow, NoBackup, hist, disk,
    LoginRows, Backups, ClientRecords, LoginFlows
<1>6. CASE FinishLogin
  <2> DEFINE found == IF Reusable # Nothing THEN Renewed(Reusable) ELSE [reg |-> regs + 1, ver |-> 0]
  <2>0. /\ SessionTypeOK /\ RememberedInv /\ LoginInv /\ CurrentInv /\ SignedOutInv
        /\ SessionShape /\ OpenInv /\ DownInv /\ SavedInv /\ RegistersOnce
    BY DEF SessionInv, SessionShape
  <2>1. PICK s \in AfterRegistration : login' = [login EXCEPT !.stage = s, !.session = found]
    BY <1>6 DEF FinishLogin
  <2>2. /\ login'.session = found /\ login'.stage \in {"device", "passcode", "handle"}
        /\ login.stage # "idle" /\ up /\ up'
    BY <1>6, <2>0, <2>1 DEF AfterRegistration, SessionTypeOK, LoginFlows, FinishLogin
  <2>3. /\ UNCHANGED <<row, backup, client, current, rebuild, signout, sessionFaults, rowLost,
                       backupLost, kept, expired, signedOut, escaped, saved>>
    BY <1>6 DEF FinishLogin
  <2>4. /\ regs \in Nat /\ regs' \in {regs, regs + 1} /\ regs' \in 0..MaxRegs
        /\ backup.session.reg \in Nat /\ row.session.reg \in Nat /\ login.session.reg \in 0..regs
    <3>1. regs \in 0..MaxRegs /\ backup.session.reg \in Nat /\ row.session.reg \in Nat
      BY <2>0 DEF SessionShape, SessionTypeOK, Backups, LoginRows, Sessions
    <3>2. regs' = regs \/ (regs' = regs + 1 /\ regs < MaxRegs)
      BY <1>6 DEF FinishLogin
    <3> QED BY <2>0, <3>1, <3>2, SessionAssumption DEF SessionShape
  <2>5. /\ found # Nothing /\ mounted' /\ found.reg \in keystore'
        /\ (signout /\ ~row.there) \/ found.reg \notin signedOut \ escaped
        /\ (row.session # Nothing => row.session.reg = found.reg) /\ found.reg \in 0..regs'
        /\ (Keyed(row.session) => Keyed(row.session)') /\ needless' = needless
    <3>1. CASE Reusable # Nothing
      <4>1. /\ Reusable = CachedSession /\ Reusable \in Sessions /\ Valid(Reusable) /\ regs' = regs
            /\ UNCHANGED <<mounted, keystore, clique, needless>>
        BY <1>6, <2>0, <3>1, ReusableType DEF Reusable, FinishLogin, disk
      <4>2. found.reg = Reusable.reg /\ found # Nothing
        BY <3>1, <4>1 DEF Renewed, Nothing, Sessions
      <4>3. /\ (row.session # Nothing => row.session.reg = found.reg) /\ found.reg = kept
            /\ (signout /\ ~row.there) \/ found.reg \notin signedOut \ escaped
        BY <2>0, <3>1, <4>1, <4>2 DEF CachedSession, SignedOutInv, LoggedOutStaysOut, RememberedInv
      <4> QED BY <2>0, <2>3, <3>1, <4>1, <4>2, <4>3 DEF Valid, Keyed, SessionShape
    <3>2. CASE Reusable = Nothing
      <4>1. row.session = Nothing /\ needless' = needless
        BY <1>6, <3>2, Registers
      <4>2. found.reg = regs + 1 /\ regs' = regs + 1 /\ found.reg \in keystore' /\ mounted'
        BY <1>6, <3>2 DEF FinishLogin
      <4>3. row.session.reg \notin keystore
        BY <2>0, <4>1 DEF SessionTypeOK, Nothing
      <4>4. found.reg # 0 /\ found.reg \notin signedOut
        BY <2>0, <2>4, <4>2 DEF SessionShape
      <4> QED BY <2>4, <4>1, <4>2, <4>3, <4>4 DEF Nothing, Keyed
    <3> QED BY <3>1, <3>2
  <2> HIDE DEF found
  <2>6. SessionShape'
    BY <2>0, <2>2, <2>3, <2>4, <2>5 DEF SessionShape
  <2>7. LoginInv' /\ SignedOutInv'
    BY <2>0, <2>2, <2>3, <2>5 DEF LoginInv, Keyed, SignedOutInv, LoggedOutStaysOut
  <2>8. CurrentInv'
    BY <2>0, <2>2, <2>3, <2>4, <2>5 DEF CurrentInv
  <2>9. RememberedInv' /\ OpenInv' /\ DownInv' /\ SavedInv' /\ RegistersOnce'
    BY <2>0, <2>2, <2>3, <2>5 DEF RememberedInv, OpenInv, DownInv, SavedInv, RegistersOnce
  <2> QED BY <2>6, <2>7, <2>8, <2>9 DEF SessionInv
<1> QED BY <1>1, <1>2, <1>3, <1>4, <1>5, <1>6

LEMMA SessionStepSave ==
  ASSUME SessionInv, SessionTypeOK',
         \E c \in Clients : UpdateUsers(c) \/ PeriodicStateSave(c) \/ PersistState(c)
  PROVE  SessionInv'
<1>0. /\ SessionTypeOK /\ RememberedInv /\ LoginInv /\ CurrentInv /\ SignedOutInv
      /\ SessionShape /\ OpenInv /\ DownInv /\ SavedInv /\ RegistersOnce
  BY DEF SessionInv, SessionShape
<1>1. ASSUME NEW c \in Clients, UpdateUsers(c) \/ PeriodicStateSave(c) PROVE SessionInv'
  <2>1. client[c] \in ClientRecords /\ DOMAIN client = Clients
    BY <1>0 DEF SessionTypeOK
  <2>2. /\ client[c].stage = "connected" /\ up
        /\ UNCHANGED <<up, mounted, keystore, clique, row, backup, regs, expired, current, rebuild, login,
                       signout, rowLost, backupLost, kept, needless, signedOut, escaped, saved>>
    BY <1>1 DEF UpdateUsers, PeriodicStateSave, disk, hist
  <2>3. /\ client'[c].stage = client[c].stage /\ client'[c].open = client[c].open
        /\ client'[c].flow = client[c].flow /\ client'[c].session.reg = client[c].session.reg
        /\ (client'[c].session = client[c].session \/ client'[c].session.ver > 0)
        /\ client'[c].pending.reg = client[c].session.reg
        /\ \A d \in Clients \ {c} : client'[d] = client[d]
    <3>1. CASE PeriodicStateSave(c)
      BY <2>1, <3>1 DEF PeriodicStateSave, ClientRecords
    <3>2. CASE UpdateUsers(c)
      <4> DEFINE fresher == [client[c].session EXCEPT !.ver = @ + 1]
      <4>1. fresher.reg = client[c].session.reg /\ fresher.ver > 0
        BY <2>1 DEF ClientRecords, Sessions
      <4>2. client' = [client EXCEPT ![c].session = fresher, ![c].pending = fresher]
        BY <3>2 DEF UpdateUsers
      <4> HIDE DEF fresher
      <4> QED BY <2>1, <4>1, <4>2 DEF ClientRecords
    <3> QED BY <1>1, <3>1, <3>2
  <2>4. current = c => client'[c].session # Nothing
    BY <1>0, <2>2, <2>3 DEF CurrentInv, Nothing, Clients
  <2>5. SessionShape' /\ RememberedInv' /\ LoginInv' /\ SavedInv' /\ RegistersOnce'
    BY <1>0, <2>2 DEF SessionShape, RememberedInv, LoginInv, SavedInv, RegistersOnce, Keyed
  <2>6. OpenInv' /\ DownInv' /\ SignedOutInv'
    BY SessionAssumption, <1>0, <2>2, <2>3 DEF OpenInv, DownInv, SignedOutInv, LoggedOutStaysOut, SessionTypeOK, Clients
  <2>7. CurrentInv'
    BY <1>0, <2>2, <2>3, <2>4 DEF CurrentInv, SessionTypeOK, Clients, Keyed
  <2> QED BY <2>5, <2>6, <2>7 DEF SessionInv
<1>2. ASSUME NEW c \in Clients, PersistState(c) PROVE SessionInv'
  <2>1. client[c] \in ClientRecords /\ DOMAIN client = Clients /\ row \in LoginRows
    BY <1>0 DEF SessionTypeOK
  <2>2. /\ client[c].pending # Nothing /\ up
        /\ UNCHANGED <<up, mounted, keystore, clique, backup, regs, expired, current, rebuild, login,
                       signout, rowLost, backupLost, kept, needless, signedOut, escaped>>
    BY <1>2 DEF PersistState, disk, hist
  <2>3. /\ client'[c].stage = client[c].stage /\ client'[c].open = client[c].open
        /\ client'[c].flow = client[c].flow /\ client'[c].session = client[c].session
        /\ client'[c].pending = Nothing
        /\ \A d \in Clients \ {c} : client'[d] = client[d]
    BY <1>2, <2>1 DEF PersistState, ClientRecords
  <2>4. \/ UNCHANGED <<row, saved>>
        \/ /\ current = c /\ row.there /\ row'.there /\ row'.session = saved'
           /\ row'.session # Nothing /\ row.session # Nothing /\ row'.session.reg = row.session.reg
    <3>1. CASE current = c /\ row.there
      <4>1. row' = [row EXCEPT !.session = client[c].pending] /\ saved' = client[c].pending
        BY <1>2, <3>1 DEF PersistState, StillCurrent
      <4>2. current # 0 => row.session # Nothing /\ client[c].pending.reg = row.session.reg
        BY <1>0, <2>2, <3>1 DEF CurrentInv
      <4> QED BY <2>1, <2>2, <3>1, <4>1, <4>2 DEF LoginRows, Clients
    <3>2. CASE ~(current = c /\ row.there)
      BY <1>2, <3>2 DEF PersistState, StillCurrent
    <3> QED BY <3>1, <3>2
  <2>5. SessionShape' /\ RememberedInv' /\ LoginInv' /\ SavedInv' /\ RegistersOnce'
    BY <1>0, <2>2, <2>4 DEF SessionShape, RememberedInv, LoginInv, SavedInv, RegistersOnce, Keyed
  <2>6. OpenInv' /\ DownInv' /\ SignedOutInv'
    BY SessionAssumption, <1>0, <2>2, <2>3, <2>4 DEF OpenInv, DownInv, SignedOutInv, LoggedOutStaysOut, SessionTypeOK, Clients
  <2>7. CurrentInv'
    BY <1>0, <2>2, <2>3, <2>4 DEF CurrentInv, SessionTypeOK, Clients, Keyed
  <2> QED BY <2>5, <2>6, <2>7 DEF SessionInv
<1> QED BY <1>1, <1>2

(* The client in use is one of the records. *)
LEMMA CurrentClient ==
  ASSUME SessionInv, current # 0
  PROVE  current \in Clients /\ client[current] \in ClientRecords /\ DOMAIN client = Clients
BY SessionAssumption DEF SessionInv, SessionShape, SessionTypeOK, Clients

LEMMA SessionStepConnect ==
  ASSUME SessionInv, SessionTypeOK',
         ConnectWithoutKeys \/ ConnectFails \/ Connect \/ WatchdogFires \/ BeginRebuild
  PROVE  SessionInv'
<1>0. /\ SessionTypeOK /\ RememberedInv /\ LoginInv /\ CurrentInv /\ SignedOutInv
      /\ SessionShape /\ OpenInv /\ DownInv /\ SavedInv /\ RegistersOnce
  BY DEF SessionInv, SessionShape
<1>1. /\ up /\ current \in Clients /\ client[current] \in ClientRecords /\ DOMAIN client = Clients
      /\ current # 0
      /\ UNCHANGED <<up, mounted, keystore, clique, backup, regs, expired, current, login, signout, backupLost,
                     kept, needless, signedOut, escaped>>
  BY CurrentClient DEF ConnectWithoutKeys, ConnectFails, Connect, WatchdogFires, BeginRebuild, CurrentInv, SessionInv, disk, hist
<1> USE DEF SessionShape, RememberedInv, LoginInv, CurrentInv, OpenInv, DownInv, SignedOutInv,
    LoggedOutStaysOut, SavedInv, RegistersOnce, Keyed
<1>2. CASE ConnectWithoutKeys
  <2>1. /\ client[current].stage = "loaded" /\ client'[current].stage = "failed"
        /\ client'[current].open = client[current].open /\ client'[current].flow = client[current].flow
        /\ client'[current].session = client[current].session
        /\ client'[current].pending = client[current].pending
        /\ \A c \in Clients \ {current} : client'[c] = client[c]
    BY <1>1, <1>2 DEF ConnectWithoutKeys, ClientRecords
  <2>2. /\ row'.session = Nothing /\ row'.there = row.there /\ (~row.there => row' = NoLoginRow)
        /\ rowLost' /\ saved' = saved /\ rebuild' = rebuild
    BY <1>0, <1>2 DEF ConnectWithoutKeys, SessionTypeOK, LoginRows, NoLoginRow
  <2>3. CurrentInv' /\ OpenInv' /\ DownInv'
    BY <1>0, <1>1, <2>1, <2>2
  <2>4. SignedOutInv'
    BY <1>0, <1>1, <2>1, <2>2 DEF Nothing
  <2>5. SessionShape' /\ RememberedInv' /\ LoginInv' /\ SavedInv' /\ RegistersOnce'
    BY <1>0, <1>1, <2>2
  <2> QED BY <2>3, <2>4, <2>5 DEF SessionInv
<1>3. CASE ConnectFails
  <2>1. /\ client[current].stage = "loaded" /\ client'[current].stage = "failed"
        /\ client'[current].open = client[current].open /\ client'[current].flow = client[current].flow
        /\ client'[current].session = client[current].session
        /\ client'[current].pending = client[current].pending
        /\ \A c \in Clients \ {current} : client'[c] = client[c]
        /\ UNCHANGED <<row, rowLost, saved, rebuild>>
    BY <1>1, <1>3 DEF ConnectFails, ClientRecords, hist
  <2>2. Valid(client[current].session)
    BY <1>3 DEF ConnectFails
  <2>3. CurrentInv' /\ OpenInv' /\ DownInv' /\ SignedOutInv'
    BY <1>0, <1>1, <2>1, <2>2 DEF Valid
  <2>4. SessionShape' /\ RememberedInv' /\ LoginInv' /\ SavedInv' /\ RegistersOnce'
    BY <1>0, <1>1, <2>1
  <2> QED BY <2>3, <2>4 DEF SessionInv
<1>4. CASE Connect
  <2>1. /\ client[current].stage = "loaded" /\ client'[current].stage = "connected"
        /\ client'[current].open = client[current].open /\ client'[current].flow = client[current].flow
        /\ client'[current].session = client[current].session
        /\ client'[current].pending = client[current].pending
        /\ \A c \in Clients \ {current} : client'[c] = client[c]
        /\ UNCHANGED <<rowLost, rebuild>>
    BY <1>1, <1>4 DEF Connect, ClientRecords, hist
  <2>2. /\ client[current].session # Nothing /\ Valid(client[current].session)
        /\ client[current].session = row.session
    BY <1>0, <1>1, <1>4 DEF Connect
  <2>3. row'.session = row.session /\ row'.there = row.there /\ row.there /\ saved' = row.session
    BY <1>0, <1>1, <1>4, <2>2 DEF Connect, SessionTypeOK, LoginRows
  <2>4. CurrentInv' /\ OpenInv' /\ DownInv' /\ SignedOutInv'
    BY <1>0, <1>1, <2>1, <2>2, <2>3 DEF Valid
  <2>5. SessionShape' /\ RememberedInv' /\ LoginInv' /\ SavedInv' /\ RegistersOnce'
    BY <1>0, <1>1, <2>1, <2>3
  <2> QED BY <2>4, <2>5 DEF SessionInv
<1>5. CASE WatchdogFires
  <2>1. UNCHANGED <<row, rowLost, saved, client>> /\ rebuild' = "asked" /\ client[current].stage = "connected"
    BY <1>5 DEF WatchdogFires, hist
  <2> QED BY <1>0, <1>1, <2>1 DEF SessionInv
<1>6. CASE BeginRebuild
  <2>1. UNCHANGED <<row, rowLost, saved>> /\ rebuild = "asked" /\ rebuild' = "stopped"
    BY <1>6 DEF BeginRebuild, hist
  <2>2. \/ client' = client /\ client[current].stage # "connected"
        \/ /\ client[current].stage = "connected" /\ client'[current].stage = "closed"
           /\ client'[current].open = FALSE /\ client'[current].flow = client[current].flow
           /\ client'[current].session = client[current].session
           /\ client'[current].pending \in {client[current].pending, client[current].session}
           /\ \A c \in Clients \ {current} : client'[c] = client[c]
    BY <1>1, <1>6 DEF BeginRebuild, StopExisting, Disconnected, ClientRecords
  <2>3. CurrentInv' /\ OpenInv' /\ DownInv' /\ SignedOutInv'
    BY <1>0, <1>1, <2>1, <2>2
  <2>4. SessionShape' /\ RememberedInv' /\ LoginInv' /\ SavedInv' /\ RegistersOnce'
    BY <1>0, <1>1, <2>1
  <2> QED BY <2>3, <2>4 DEF SessionInv
<1> QED BY <1>2, <1>3, <1>4, <1>5, <1>6

(* A client that is loaded. *)
LEMMA Loaded ==
  ASSUME SessionTypeOK, NEW r, LoadUserLogin(r)
  PROVE  /\ current' \in Clients /\ current' # 0 /\ saved' = Nothing
         /\ client'[current'].stage = "loaded" /\ client'[current'].open
         /\ ~client'[current'].flow /\ client'[current'].session = r.session
         /\ client'[current'].pending = Nothing
         /\ \A c \in Clients \ {current'} : client'[c] = client[c]
         /\ \/ UNCHANGED <<backup, backupLost>> /\ r.session = Nothing
            \/ r.session # Nothing /\ backup'.session = r.session /\ ~backupLost'
<1>1. Made + 1 \in Clients /\ DOMAIN client = Clients /\ 0 \notin Clients
  BY NextClient DEF LoadUserLogin, SessionTypeOK, Clients
<1> QED BY <1>1 DEF LoadUserLogin, NoClient, BackupCopy, SessionTypeOK

LEMMA SessionStepLoad ==
  ASSUME SessionInv, SessionTypeOK', StartBridge \/ FinishRebuild \/ NewLogin
  PROVE  SessionInv'
<1>0. /\ SessionTypeOK /\ RememberedInv /\ LoginInv /\ CurrentInv /\ SignedOutInv
      /\ SessionShape /\ OpenInv /\ DownInv /\ SavedInv /\ RegistersOnce
  BY DEF SessionInv, SessionShape
<1> USE DEF SessionShape, RememberedInv, LoginInv, CurrentInv, OpenInv, DownInv, SignedOutInv,
    LoggedOutStaysOut, SavedInv, RegistersOnce, Keyed
<1>1. CASE StartBridge
  <2>1. /\ ~up /\ up' /\ current = 0 /\ login = NoLogin /\ rebuild = "no"
        /\ \A c \in Clients : ~client[c].open
        /\ UNCHANGED <<mounted, keystore, clique, regs, expired, rebuild, login, kept, needless, signedOut, escaped>>
    BY <1>0, <1>1 DEF StartBridge, disk
  <2>2. login.stage = "idle" /\ login.session = Nothing
    BY <2>1 DEF NoLogin
  <2>3. ASSUME LoadUserLogin(row), UNCHANGED <<row, rowLost>>, row.there PROVE SessionInv'
    <3>1. CurrentInv' /\ OpenInv' /\ DownInv' /\ SignedOutInv'
      BY <1>0, <2>1, <2>2, <2>3, Loaded DEF SessionTypeOK
    <3>2. SessionShape' /\ RememberedInv' /\ LoginInv' /\ SavedInv' /\ RegistersOnce'
      BY <1>0, <2>1, <2>2, <2>3, Loaded
    <3> QED BY <3>1, <3>2 DEF SessionInv
  <2>4. ASSUME ~row.there, Restorable, row' = TryAutoRestore, rowLost' = FALSE, LoadUserLogin(TryAutoRestore)
        PROVE  SessionInv'
    <3>1. /\ row'.session = backup.session /\ row'.there /\ backup.session # Nothing
          /\ TryAutoRestore.session = backup.session
      BY <2>4 DEF TryAutoRestore, Restorable
    <3>2. CurrentInv' /\ OpenInv' /\ DownInv' /\ SignedOutInv'
      BY <1>0, <2>1, <2>2, <2>4, <3>1, Loaded DEF SessionTypeOK
    <3>3. SessionShape' /\ RememberedInv' /\ LoginInv' /\ SavedInv' /\ RegistersOnce'
      BY <1>0, <2>1, <2>2, <2>4, <3>1, Loaded
    <3> QED BY <3>2, <3>3 DEF SessionInv
  <2>5. ASSUME UNCHANGED <<row, rowLost, client, current, backup, backupLost, saved>>, ~row.there
        PROVE  SessionInv'
    <3>1. row.session = Nothing
      BY <1>0, <2>5 DEF NoLoginRow
    <3> QED BY <1>0, <2>1, <2>2, <2>5, <3>1 DEF SessionInv
  <2> QED BY <1>1, <2>3, <2>4, <2>5 DEF StartBridge
<1>2. CASE FinishRebuild
  <2>1. /\ up /\ row.there /\ rebuild = "stopped" /\ rebuild' = "no" /\ LoadUserLogin(row)
        /\ UNCHANGED <<up, mounted, keystore, clique, row, regs, expired, login, rowLost, kept, needless,
                       signedOut, escaped>>
    BY <1>2 DEF FinishRebuild, disk
  <2>2. \A c \in Clients : client[c].open => client[c].flow
    BY <1>0, <2>1 DEF Clients
  <2>3. row.session.reg \in 0..regs
    BY <1>0 DEF Nothing
  <2>4. CurrentInv' /\ OpenInv' /\ DownInv' /\ SignedOutInv'
    BY <1>0, <2>1, <2>2, <2>3, Loaded
  <2>5. SessionShape' /\ RememberedInv' /\ LoginInv' /\ SavedInv' /\ RegistersOnce'
    BY <1>0, <2>1, Loaded
  <2> QED BY <2>4, <2>5 DEF SessionInv
<1>3. CASE NewLogin
  <2>1. /\ up /\ login.stage = "saved" /\ row'.there /\ row'.session = login.session
        /\ ~rowLost' /\ saved' = Nothing /\ login' = NoLogin /\ Made + 1 \in Clients
        /\ current' = Made + 1
        /\ UNCHANGED <<up, mounted, keystore, clique, backup, regs, expired, rebuild, signout,
                       backupLost, kept, needless, signedOut>>
        /\ escaped' = escaped \cup (IF signout THEN {login.session.reg} ELSE {})
    BY <1>3, NextClient DEF NewLogin, disk
  <2>2. login.session # Nothing /\ login.session.reg = kept /\ Keyed(login.session)
    BY <1>0, <2>1
  <2>3. /\ client'[current'].stage = "loaded" /\ client'[current'].flow
        /\ client'[current'].session = login.session /\ client'[current'].pending = Nothing
    <3>1. client'[current'] = [NoClient EXCEPT !.stage = "loaded", !.open = TRUE, !.flow = TRUE,
                                               !.session = login.session]
      BY <1>3, <2>1 DEF NewLogin
    <3> QED BY <3>1 DEF NoClient
  <2>4. ASSUME NEW c \in Clients, c # current', client'[c].open, ~client'[c].flow PROVE FALSE
    <3>1. PICK before \in {client, IF current # 0 THEN Disconnected(current) ELSE client} :
            client'[c] = [before[c] EXCEPT !.flow = @ \/ c = current]
      BY <1>3, <2>1, <2>4 DEF NewLogin
    <3>2. client[c] \in ClientRecords /\ DOMAIN client = Clients
      BY <1>0 DEF SessionTypeOK
    <3>3. before[c] \in ClientRecords
      BY SMTT(30), <1>0, <3>1, ClosedClients, SessionAssumption DEF SessionTypeOK, Clients
    <3>4. before[c].open /\ ~before[c].flow /\ c # current
      BY <2>4, <3>1, <3>3 DEF ClientRecords
    <3>5. client[c].open /\ ~client[c].flow
      BY <3>1, <3>2, <3>4 DEF Disconnected, ClientRecords
    <3> QED BY <1>0, <3>4, <3>5
  <2>5. login'.stage = "idle" /\ login'.session = Nothing
    BY <2>1 DEF NoLogin
  <2>8. /\ Nothing.reg = 0 /\ 0 \notin signedOut /\ login.session.reg \in 1..regs
        /\ backup.session.reg \in {0, kept}
    <3>1. login.session.reg \in 1..MaxRegs
      BY <1>0, <2>2 DEF SessionTypeOK
    <3> QED BY <1>0, <3>1 DEF Nothing
  <2>6. CurrentInv' /\ OpenInv' /\ DownInv'
    BY <1>0, <2>1, <2>2, <2>3, <2>4, <2>5 DEF Nothing
  <2>9. SignedOutInv'
    <3>1. login.session.reg \notin signedOut \ escaped'
      BY <1>0, <2>1
    <3> QED BY <1>0, <2>1, <2>2, <2>3, <2>5, <2>8, <3>1
  <2>7. SessionShape' /\ RememberedInv' /\ LoginInv' /\ SavedInv' /\ RegistersOnce'
    BY <1>0, <2>1, <2>2, <2>5, <2>8 DEF Nothing
  <2> QED BY <2>6, <2>7, <2>9 DEF SessionInv
<1> QED BY <1>1, <1>2, <1>3

LEMMA SessionStepEnds ==
  ASSUME SessionInv, SessionTypeOK',
         \/ Logout \/ LogoutAgain \/ ClearLocalSessionBackup \/ BridgeDies \/ TornSave
         \/ ResetDatabase \/ KeystoreMoves \/ RegistrationExpires
  PROVE  SessionInv'
<1>0. /\ SessionTypeOK /\ RememberedInv /\ LoginInv /\ CurrentInv /\ SignedOutInv
      /\ SessionShape /\ OpenInv /\ DownInv /\ SavedInv /\ RegistersOnce
  BY DEF SessionInv, SessionShape
<1> USE DEF SessionShape, RememberedInv, LoginInv, CurrentInv, OpenInv, DownInv, SignedOutInv,
    LoggedOutStaysOut, SavedInv, RegistersOnce, Keyed
<1>1. CASE Logout
  <2>1. /\ up /\ row' = NoLoginRow /\ current' = 0 /\ rebuild' = "no" /\ saved' = Nothing /\ rowLost'
        /\ client' = Disconnected(current) /\ current # 0 /\ signout'
        /\ UNCHANGED <<up, mounted, keystore, clique, backup, regs, expired, login, backupLost, kept,
                       needless, escaped>>
        /\ signedOut' = signedOut \cup ({CachedSession.reg, client[current].session.reg} \ {0})
    BY <1>1 DEF Logout, disk
  <2>2. row'.session = Nothing /\ Nothing.reg = 0 /\ ~row'.there
    BY <2>1 DEF NoLoginRow, Nothing
  <2>3. \A c \in Clients : client'[c].open => client'[c].flow
    <3>1. /\ client \in [Clients -> ClientRecords] /\ current \in Clients
      BY <1>0, <2>1, CurrentClient DEF SessionTypeOK
    <3> QED BY <1>0, <2>1, <3>1 DEF Disconnected, ClientRecords
  <2>6. signedOut' \subseteq 1..regs
    <3>1. kept \in 0..regs /\ regs \in Nat  BY <1>0
    <3>2. CachedSession.reg \in 0..regs
      BY <1>0, <3>1 DEF CachedSession, Nothing
    <3>3. client[current].session.reg \in 0..regs  BY <1>0, <2>1
    <3> QED  BY <1>0, <2>1, <3>1, <3>2, <3>3
  <2>4. CurrentInv' /\ OpenInv' /\ DownInv' /\ SignedOutInv'
    BY <1>0, <2>1, <2>2, <2>3, <2>6
  <2>5. SessionShape' /\ RememberedInv' /\ LoginInv' /\ SavedInv' /\ RegistersOnce'
    BY <1>0, <2>1, <2>2, <2>6
  <2> QED BY <2>4, <2>5 DEF SessionInv
<1>6. CASE LogoutAgain
  <2>1. /\ up /\ ~row.there /\ signout'
        /\ UNCHANGED <<up, mounted, keystore, clique, row, backup, regs, expired, client, current,
                       rebuild, login, rowLost, backupLost, kept, needless, escaped, saved>>
        /\ signedOut' \subseteq signedOut \cup ({CachedSession.reg} \ {0})
    BY <1>6 DEF LogoutAgain, disk
  <2>2. row.session = Nothing /\ Nothing.reg = 0 /\ current = 0
    BY <1>0, <2>1 DEF NoLoginRow, Nothing
  <2>3. signedOut' \subseteq 1..regs
    <3>1. CachedSession.reg \in 0..regs /\ regs \in Nat
      BY <1>0 DEF CachedSession, Nothing
    <3> QED  BY <1>0, <2>1, <3>1
  <2> QED BY <1>0, <2>1, <2>2, <2>3 DEF SessionInv
<1>2. CASE ClearLocalSessionBackup
  <2>1. UNCHANGED <<up, mounted, keystore, row, regs, expired, client, current, rebuild, login,
                    rowLost, kept, needless, signedOut, saved>>
    BY <1>2 DEF ClearLocalSessionBackup
  <2>2. \/ row.there /\ UNCHANGED <<backup, backupLost, escaped>>
        \/ /\ ~row.there /\ backup'.session = Nothing /\ backupLost'
           /\ escaped' = {login.session.reg} \ {0}
        \/ /\ ~row.there /\ UNCHANGED <<backup, backupLost>>
           /\ escaped' = escaped \cup ({backup.session.reg, login.session.reg} \ {0})
    <3>1. CASE row.there
      BY <1>2, <3>1 DEF ClearLocalSessionBackup
    <3>2. CASE ~row.there /\ backup' = NoBackup /\ backupLost' /\ escaped' = {login.session.reg} \ {0}
      BY <3>2 DEF NoBackup
    <3>3. CASE /\ ~row.there /\ UNCHANGED <<backup, backupLost>>
               /\ escaped' = escaped \cup ({backup.session.reg, login.session.reg} \ {0})
      BY <3>3
    <3> QED BY <1>2, <3>1, <3>2, <3>3 DEF ClearLocalSessionBackup
  <2>3. ~row.there => row.session = Nothing /\ current = 0
    BY <1>0 DEF NoLoginRow
  <2>4. backup.session.reg \in 0..regs /\ regs \in Nat /\ ~signout' /\ Nothing.reg = 0
    BY <1>0, <1>2 DEF Nothing, ClearLocalSessionBackup
  <2>5. escaped' \subseteq 1..regs /\ 0 \notin signedOut
    <3>1. {backup.session.reg, login.session.reg} \ {0} \subseteq 1..regs
      BY <1>0, <2>4
    <3> QED BY <1>0, <2>2, <2>4, <3>1
  <2>6. CurrentInv' /\ OpenInv' /\ DownInv'
    BY <1>0, <2>1, <2>3, <2>4
  <2>8. SignedOutInv'
    BY <1>0, <2>1, <2>2, <2>3, <2>4, <2>5
  <2>7. SessionShape' /\ RememberedInv' /\ LoginInv' /\ SavedInv' /\ RegistersOnce'
    BY <1>0, <2>1, <2>2, <2>5
  <2> QED BY <2>6, <2>7, <2>8 DEF SessionInv
<1>3. CASE BridgeDies \/ TornSave
  <2>1. /\ ~up' /\ current' = 0 /\ login' = NoLogin /\ rebuild' = "no" /\ saved' = Nothing
        /\ ~signout'
        /\ escaped' = escaped \cup (IF signout THEN {backup.session.reg} \ {0} ELSE {})
        /\ UNCHANGED <<mounted, keystore, clique, row, regs, expired, rowLost, kept, needless,
                       signedOut>>
    BY <1>3 DEF BridgeDies, TornSave, Stopped, disk
  <2>2. \A c \in Clients : ~client'[c].open
    BY <1>3 DEF BridgeDies, TornSave, Stopped, NoClient
  <2>3. UNCHANGED <<backup, backupLost>> \/ (backup'.session = Nothing /\ backupLost')
    BY <1>3 DEF BridgeDies, TornSave, NoBackup
  <2>4. login'.session = Nothing /\ login'.stage = "idle" /\ Nothing.reg = 0
    BY <2>1 DEF NoLogin, Nothing
  <2>7. escaped' \subseteq 1..regs /\ 0 \notin signedOut
    <3>1. backup.session.reg \in 0..regs /\ regs \in Nat
      BY <1>0, <2>4
    <3> QED BY <1>0, <2>1, <3>1
  <2>8. SignedOutInv'
    BY <1>0, <2>1, <2>3, <2>4, <2>7
  <2>5. CurrentInv' /\ OpenInv' /\ DownInv'
    BY <1>0, <2>1, <2>2, <2>3, <2>4
  <2>6. SessionShape' /\ RememberedInv' /\ LoginInv' /\ SavedInv' /\ RegistersOnce'
    BY <1>0, <2>1, <2>3, <2>4, <2>7
  <2> QED BY <2>5, <2>6, <2>8 DEF SessionInv
<1>4. CASE ResetDatabase
  <2>1. /\ ~up /\ row' = NoLoginRow /\ rowLost'
        /\ UNCHANGED <<up, mounted, keystore, clique, backup, regs, expired, client, current, rebuild, login,
                       signout, backupLost, kept, needless, signedOut, escaped, saved>>
    BY <1>4 DEF ResetDatabase, disk
  <2>2. row'.session = Nothing /\ Nothing.reg = 0 /\ 0 \notin signedOut
    BY <1>0, <2>1 DEF NoLoginRow, Nothing
  <2>3. CurrentInv' /\ OpenInv' /\ DownInv' /\ SignedOutInv'
    BY <1>0, <2>1, <2>2
  <2>4. SessionShape' /\ RememberedInv' /\ LoginInv' /\ SavedInv' /\ RegistersOnce'
    BY <1>0, <2>1, <2>2
  <2> QED BY <2>3, <2>4 DEF SessionInv
<1>5. CASE KeystoreMoves
  <2>1. /\ ~up /\ UNCHANGED <<up, keystore, clique, row, backup, regs, expired, client, current, rebuild, login,
                              signout, rowLost, backupLost, kept, needless, signedOut, escaped,
                              saved>>
    BY <1>5 DEF KeystoreMoves, hist
  <2>2. login.session = Nothing /\ login.stage = "idle"
    BY <1>0, <2>1 DEF NoLogin
  <2> QED BY <1>0, <2>1, <2>2 DEF SessionInv
<1>7. CASE RegistrationExpires
  <2>1. /\ ~up /\ UNCHANGED <<up, mounted, keystore, clique, row, backup, regs, client, current,
                              rebuild, login, signout, rowLost, backupLost, kept, needless,
                              signedOut, escaped, saved>>
    BY <1>7 DEF RegistrationExpires, disk, hist
  <2>2. CachedSession \in Sessions
    BY <1>0 DEF CachedSession, SessionTypeOK, LoginRows, Backups
  <2>3. \A s \in expired' : s.ver < MaxRefreshes
    BY <1>0, <1>7, <2>2, SessionAssumption DEF RegistrationExpires, Sessions
  <2> QED BY <1>0, <2>1, <2>3 DEF SessionInv
<1> QED BY <1>1, <1>2, <1>3, <1>4, <1>5, <1>6, <1>7

LEMMA SessionInitInv == SessionInit => SessionInv
<1> SUFFICES ASSUME SessionInit PROVE SessionInv
  OBVIOUS
<1> USE SessionAssumption DEF SessionInit
<1>1. SessionTypeOK
  <2>1. /\ up \in BOOLEAN /\ mounted \in BOOLEAN /\ clique \in BOOLEAN /\ signout \in BOOLEAN
        /\ rowLost \in BOOLEAN /\ backupLost \in BOOLEAN
    BY Zenon
  <2> QED BY <2>1, EmptyRecords DEF SessionTypeOK
<1>2. SessionShape /\ RememberedInv /\ LoginInv /\ SavedInv /\ RegistersOnce
  BY <1>1 DEF SessionShape, RememberedInv, LoginInv, SavedInv, RegistersOnce, NoLogin, NoLoginRow,
     NoBackup, Nothing
<1>3. CurrentInv /\ OpenInv /\ DownInv /\ SignedOutInv
  BY DEF CurrentInv, OpenInv, DownInv, SignedOutInv, LoggedOutStaysOut, NoClient, NoLogin
<1> QED BY <1>2, <1>3 DEF SessionInv

LEMMA SessionStep == ASSUME SessionInv, [SessionNext]_sessionVars PROVE SessionInv'
<1>1. SessionTypeOK'
  BY SessionStepType
<1>2. CASE UNCHANGED sessionVars
  BY <1>2 DEF sessionVars, SessionInv, SessionShape, SessionTypeOK, RememberedInv, LoginInv, CurrentInv,
     OpenInv, DownInv, SignedOutInv, LoggedOutStaysOut, SavedInv, RegistersOnce, Keyed
<1> QED BY <1>1, <1>2, SessionStepConnect, SessionStepSave, SessionStepLoad, SessionStepLogin,
           SessionStepEnds DEF SessionNext

(* The inductive invariant: a session that the row or a login flow holds has *)
(* its keys and is the last registration's, but for one a start has loaded   *)
(* and not connected yet; every open connection outside of login flows is    *)
(* the client's in use; a sign-out that got through leaves its registration  *)
(* nowhere but in a login that was in progress.                              *)
THEOREM SessionSafe == SessionSpec => []SessionInv
<1> QED BY SessionInitInv, SessionStep, PTL DEF SessionSpec

(* No login registers a new identity while a usable session is remembered,   *)
(* expired or not (loadCachedSession, LoadUserLogin, LoginSession.finish).   *)
THEOREM OneRegistration == SessionSpec => []RegistersOnce
<1>1. SessionInv => RegistersOnce
  BY DEF SessionInv
<1> QED BY <1>1, SessionSafe, PTL

(* Clients loaded one after the other never share an APNs token              *)
(* (recreateClient, LoadUserLogin, Disconnect).                              *)
THEOREM OneOpenConnection == SessionSpec => []OneConnection
<1>1. SessionInv => OneConnection
  BY DEF SessionInv, OpenInv, OneConnection
<1> QED BY <1>1, SessionSafe, PTL

(* A stalled save of a client that was replaced does not take the row back   *)
(* (persistState).                                                           *)
THEOREM NoStaleSave == SessionSpec => []SuccessorKept
<1>1. SessionInv => SuccessorKept
  <2> SUFFICES ASSUME SessionInv, saved # Nothing, row.session # Nothing
               PROVE  row.session.reg = saved.reg /\ row.session.ver >= saved.ver
    BY DEF SuccessorKept
  <2>1. row.session = saved /\ saved \in Sessions
    BY DEF SessionInv, SavedInv, SessionShape, SessionTypeOK
  <2> QED BY <2>1, SessionAssumption DEF Sessions
<1> QED BY <1>1, SessionSafe, PTL

(* A registration the user signed out of stays out, through restarts and     *)
(* later logins, but for a sign-out that was cut short or crossed a login    *)
(* (fnLogout, clearLocalSessionBackup, tryAutoRestore).                      *)
THEOREM SignedOutForGood == SessionSpec => []LoggedOutStaysOut
<1>1. SessionInv => LoggedOutStaysOut
  BY DEF SessionInv, SignedOutInv
<1> QED BY <1>1, SessionSafe, PTL

-----------------------------------------------------------------------------
(* Receipts.  The group's key changes while handlers are on their way, its *)
(* room does not: what a handler remembers of a key is the room RoomName   *)
(* gives it, and so is the home of a row, before and after the change.     *)

RoomName(k) == IF k = Direct THEN Direct ELSE Group

(* What the callback thread has found out. *)
ReadInv ==
  /\ read.at \in {"idle", "portal", "mark"}
  /\ read.at # "idle" => read.u \in Messages
  /\ read.at = "mark" => read.room = RoomName(read.key) /\ read.u \notin Old

(* What a goroutine knew of the row when its receipt came still holds. *)
TickInv ==
  \A t \in ticking :
    /\ t.u \in Sent
    /\ t.knew => Saved(t.u) /\ t.room = RoomName(rows[t.u].key)

(* The history has its rows of CloudKit from the beginning. *)
HistoryInv == \A u \in Old : Backfilled(u)

ReceiptsInv ==
  ReceiptsTypeOK /\ ReadInv /\ TickInv /\ HistoryInv /\ InItsRoom /\ HistoryUnmarked /\ LateRowsTick

-----------------------------------------------------------------------------
LEMMA Rooms ==
  ASSUME ReceiptsTypeOK, NEW k \in Keys, RoomOf(k) # "none"
  PROVE  RoomOf(k) = RoomName(k)
BY ReceiptsAssumption DEF ReceiptsTypeOK, RoomOf, RoomName, Keys

LEMMA Homes ==
  ASSUME ReceiptsTypeOK, NEW u \in Messages, Saved(u)
  PROVE  rows[u].key \in Keys /\ Home(u) = RoomName(rows[u].key)
<1>1. rows[u].key \in Keys /\ Home(u) # "none"
  BY DEF ReceiptsTypeOK, Saved
<1> QED BY <1>1, ReceiptsAssumption DEF ReceiptsTypeOK, RoomName, Keys, Home

LEMMA ReceiptsInitInv == ASSUME ReceiptsInit PROVE ReceiptsInv
<1>1. ReceiptsTypeOK
  <2>1. PICK k \in {Direct, Group} :
          rows = [u \in Messages |-> IF u \in Old THEN [key |-> k, first |-> TRUE, second |-> TRUE]
                                     ELSE NoRow]
    BY DEF ReceiptsInit
  <2>2. k \in Keys /\ portals[k] # "none"
    BY ReceiptsAssumption DEF ReceiptsInit, Keys
  <2>3. \A u \in Messages : Saved(u) => Home(u) # "none"
    BY <2>1, <2>2 DEF Saved, Home, Messages
  <2>4. rows \in [Messages -> {NoRow} \cup [key : Keys, first : BOOLEAN, second : BOOLEAN]]
    BY <2>1, <2>2
  <2> QED BY <2>3, <2>4, ReceiptsAssumption DEF ReceiptsInit, ReceiptsTypeOK, Keys
<1>2. HistoryInv
  BY ReceiptsAssumption DEF ReceiptsInit, HistoryInv, Backfilled, Messages
<1> QED BY <1>1, <1>2 DEF ReceiptsInit, Idle, ReceiptsInv, ReadInv, TickInv, InItsRoom, HistoryUnmarked, LateRowsTick

(* Rows and keys change in two actions only; both keep every row's room. *)
LEMMA KeptRooms ==
  ASSUME ReceiptsInv,
         (rows' = rows /\ portals' = portals) \/ ReID \/ \E u \in Sent, k \in Keys, f \in BOOLEAN : Save(u, k, f)
  PROVE  \A u \in Messages : Saved(u) => Saved(u)' /\ RoomName(rows'[u].key) = RoomName(rows[u].key)
<1>1. CASE rows' = rows /\ portals' = portals
  BY <1>1 DEF Saved
<1>2. CASE ReID
  <2> SUFFICES ASSUME NEW u \in Messages, Saved(u)
               PROVE  Saved(u)' /\ RoomName(rows'[u].key) = RoomName(rows[u].key)
    OBVIOUS
  <2>1. rows[u] \in [key : Keys, first : BOOLEAN, second : BOOLEAN]
    BY DEF ReceiptsInv, ReceiptsTypeOK, Saved
  <2>2. rows'[u] = IF rows[u].key = Group THEN [rows[u] EXCEPT !.key = Regroup] ELSE rows[u]
    BY <1>2 DEF ReID
  <2> QED BY <2>1, <2>2, ReceiptsAssumption DEF Saved, NoRow, RoomName
<1>3. ASSUME NEW v \in Sent, NEW k \in Keys, NEW f \in BOOLEAN, Save(v, k, f)
      PROVE  \A u \in Messages : Saved(u) => Saved(u)' /\ RoomName(rows'[u].key) = RoomName(rows[u].key)
  BY <1>3 DEF Save, Saved, ReceiptsInv, ReceiptsTypeOK
<1> QED BY <1>1, <1>2, <1>3

LEMMA ReceiptsStepType == ASSUME ReceiptsInv, [ReceiptsNext]_receiptsVars PROVE ReceiptsTypeOK'
<1> USE DEF ReceiptsInv, ReceiptsTypeOK
<1>1. ASSUME NEW u \in Sent, Send(u) PROVE ReceiptsTypeOK'
  BY <1>1 DEF Send, Saved, Home
<1>2. ASSUME NEW u \in Sent, NEW k \in Keys, NEW f \in BOOLEAN, Save(u, k, f) PROVE ReceiptsTypeOK'
  <2>1. u \in Messages
    BY DEF Messages
  <2>2. rows' \in [Messages -> {NoRow} \cup [key : Keys, first : BOOLEAN, second : BOOLEAN]]
    BY <1>2 DEF Save
  <2>3. \A v \in Messages : Saved(v)' => Home(v)' # "none"
    BY <1>2, <2>1 DEF Save, Saved, Home
  <2> QED BY <1>2, <2>2, <2>3 DEF Save
<1>3. CASE ReID
  <2>1. /\ portals' = [portals EXCEPT ![Regroup] = portals[Group], ![Group] = "none"]
        /\ portals[Regroup] = "none" /\ portals[Group] = Group
    BY <1>3, ReceiptsAssumption DEF ReID
  <2>2. /\ portals'[Regroup] = Group /\ portals'[Group] = "none" /\ portals'[Direct] = Direct
        /\ DOMAIN portals' = Keys
    BY <2>1, ReceiptsAssumption DEF Keys
  <2>3. ASSUME NEW v \in Messages
        PROVE  /\ rows'[v] \in {NoRow} \cup [key : Keys, first : BOOLEAN, second : BOOLEAN]
               /\ Saved(v)' => Home(v)' # "none"
    <3>1. rows'[v] = IF rows[v].key = Group THEN [rows[v] EXCEPT !.key = Regroup] ELSE rows[v]
      BY <1>3 DEF ReID
    <3>2. CASE rows[v] = NoRow
      BY <3>1, <3>2, ReceiptsAssumption DEF NoRow, Saved
    <3>3. CASE rows[v] # NoRow
      <4>1. rows[v] \in [key : Keys, first : BOOLEAN, second : BOOLEAN]
        BY <3>3
      <4>2. rows'[v].key \in {Direct, Regroup}
            /\ rows'[v] \in [key : Keys, first : BOOLEAN, second : BOOLEAN]
        BY <3>1, <3>3, <4>1, <2>1 DEF Saved, Home, Keys
      <4> QED BY <4>2, <2>2, ReceiptsAssumption DEF Home
    <3> QED BY <3>2, <3>3
  <2>4. rows' \in [Messages -> {NoRow} \cup [key : Keys, first : BOOLEAN, second : BOOLEAN]]
    BY <1>3, <2>3 DEF ReID
  <2> QED BY <1>3, <2>2, <2>3, <2>4 DEF ReID
<1>4. CASE Opens \/ Restart
  BY <1>4 DEF Opens, Restart, Saved, Home, Outcomes
<1>5. CASE ReadPortal \/ ReadMark
  BY <1>5 DEF ReadPortal, ReadMark, Saved, Home
<1>6. ASSUME NEW u \in Messages, NEW c \in {"record", "read"}, SyncRow(u, c) PROVE ReceiptsTypeOK'
  BY <1>6 DEF SyncRow, Saved, Home
<1>7. ASSUME NEW u \in Messages, NEW guess \in Guesses, NEW isStored \in BOOLEAN,
             ReadArrives(u, guess, isStored) \/ TickArrives(u, guess)
      PROVE  ReceiptsTypeOK'
  <2>1. UNCHANGED <<portals, rows, slow, sends, cloud, gate>>
    BY <1>7 DEF ReadArrives, TickArrives
  <2> QED BY <2>1 DEF Saved, Home
<1>8. ASSUME NEW t \in ticking, Tick(t) PROVE ReceiptsTypeOK'
  BY <1>8 DEF Tick, Saved, Home
<1>9. CASE UNCHANGED receiptsVars
  BY <1>9 DEF receiptsVars, Saved, Home
<1> HIDE DEF ReceiptsInv, ReceiptsTypeOK
<1> QED BY <1>1, <1>2, <1>3, <1>4, <1>5, <1>6, <1>7, <1>8, <1>9 DEF ReceiptsNext

LEMMA ReceiptsStepRead == ASSUME ReceiptsInv, [ReceiptsNext]_receiptsVars PROVE ReadInv' /\ HistoryInv'
<1> USE DEF ReadInv, HistoryInv
<1>1. ASSUME NEW u \in Messages, NEW guess \in Guesses, NEW isStored \in BOOLEAN,
             ReadArrives(u, guess, isStored)
      PROVE  ReadInv' /\ HistoryInv'
  BY <1>1 DEF ReadArrives, Backfilled, Idle, ReceiptsInv
<1>2. CASE ReadPortal
  <2>1. HistoryInv'
    BY <1>2 DEF ReadPortal, Backfilled, ReceiptsInv
  <2>2. ASSUME ~Backfilled(read.u), RoomOf(read.key) # "none",
               read' = [at |-> "mark", u |-> read.u, key |-> read.key, room |-> RoomOf(read.key)]
        PROVE  ReadInv'
    <3>1. read.key \in Keys
      BY <2>2 DEF RoomOf
    <3>2. RoomOf(read.key) = RoomName(read.key)
      BY <2>2, <3>1, Rooms DEF ReceiptsInv
    <3> QED BY <1>2, <2>2, <3>2 DEF ReadPortal, ReceiptsInv
  <2> QED BY <1>2, <2>1, <2>2 DEF ReadPortal, Idle
<1>3. CASE ReadMark
  BY <1>3 DEF ReadMark, Idle, Backfilled, ReceiptsInv
<1>4. ASSUME NEW u \in Sent, Send(u) PROVE ReadInv' /\ HistoryInv'
  <2>1. u \notin Old
    BY ReceiptsAssumption
  <2> QED BY <1>4, <2>1 DEF Send, Handlers, Backfilled, ReceiptsInv, ReceiptsTypeOK, Messages
<1>5. ASSUME NEW u \in Messages, NEW c \in {"record", "read"}, SyncRow(u, c)
      PROVE  ReadInv' /\ HistoryInv'
  BY <1>5 DEF SyncRow, Handlers, Backfilled, ReceiptsInv, ReceiptsTypeOK, Messages
<1>6. CASE Restart
  BY <1>6 DEF Restart, Idle, Backfilled, ReceiptsInv
<1>7. ASSUME UNCHANGED <<read, cloud>> PROVE ReadInv' /\ HistoryInv'
  BY <1>7 DEF Backfilled, ReceiptsInv
<1> HIDE DEF ReadInv, HistoryInv
<1>8. ASSUME \/ \E u \in Sent, k \in Keys, first \in BOOLEAN : Save(u, k, first)
             \/ ReID \/ Opens \/ UNCHANGED receiptsVars
             \/ \E u \in Messages, guess \in Guesses : TickArrives(u, guess)
             \/ \E t \in ticking : Tick(t)
      PROVE  ReadInv' /\ HistoryInv'
  BY <1>7, <1>8 DEF Save, ReID, Opens, receiptsVars, TickArrives, Tick, Handlers
<1> QED BY <1>1, <1>2, <1>3, <1>4, <1>5, <1>6, <1>8 DEF ReceiptsNext

(* A goroutine and its row. *)
LEMMA ReceiptsStepTick == ASSUME ReceiptsInv, [ReceiptsNext]_receiptsVars PROVE TickInv'
<1>1. ASSUME (rows' = rows /\ portals' = portals) \/ ReID
               \/ \E u \in Sent, k \in Keys, f \in BOOLEAN : Save(u, k, f),
             ticking' \subseteq ticking
      PROVE  TickInv'
  BY <1>1, KeptRooms DEF TickInv, ReceiptsInv, Messages
<1>2. ASSUME NEW u \in Messages, NEW guess \in Guesses, TickArrives(u, guess) PROVE TickInv'
  <2> DEFINE room == RoomOf(Target(u, guess))
             new == Goroutine(u, room)
  <2>1. rows' = rows /\ (ticking' = ticking \/ (ticking' = ticking \cup {new} /\ room # "none"))
    <3>1. rows' = rows /\ (room = "none" => ticking' = ticking)
      BY <1>2 DEF TickArrives
    <3>2. room # "none" => ticking' = ticking \cup {new}
      BY <1>2 DEF TickArrives
    <3> QED BY <3>1, <3>2
  <2>2. ASSUME room # "none", Saved(u) PROVE room = RoomName(rows[u].key)
    <3>1. rows[u].key \in Keys /\ Target(u, guess) = rows[u].key
      BY <2>2, Homes DEF Target, ReceiptsInv
    <3> QED BY <2>2, <3>1, Rooms DEF ReceiptsInv
  <2>3. u \in Sent
    BY <1>2 DEF TickArrives, ReceiptsInv, ReceiptsTypeOK
  <2>4. new.u = u /\ new.knew = Saved(u) /\ new.room = room
    BY DEF Goroutine
  <2> HIDE DEF new
  <2>5. ASSUME NEW t \in ticking'
        PROVE  t.u \in Sent /\ (t.knew => Saved(t.u)' /\ t.room = RoomName(rows'[t.u].key))
    <3>1. CASE t \in ticking
      BY <2>1, <3>1 DEF TickInv, Saved, ReceiptsInv
    <3>2. CASE t = new /\ room # "none"
      BY <2>1, <2>2, <2>3, <2>4, <3>2 DEF Saved
    <3> QED BY <2>1, <3>1, <3>2
  <2> QED BY <2>5 DEF TickInv
<1>3. ASSUME NEW t \in ticking, Tick(t) PROVE TickInv'
  <2>1. rows' = rows /\ ticking' \subseteq ticking \cup {[t EXCEPT !.i = @ + 1]}
    BY <1>3 DEF Tick
  <2>2. /\ [t EXCEPT !.i = @ + 1].u = t.u /\ [t EXCEPT !.i = @ + 1].knew = t.knew
        /\ [t EXCEPT !.i = @ + 1].room = t.room
    OBVIOUS
  <2> QED BY <2>1, <2>2 DEF TickInv, Saved, ReceiptsInv
<1>4. CASE Restart
  BY <1>1, <1>4 DEF Restart
<1>5. CASE ReadPortal \/ ReadMark
  BY <1>1, <1>5 DEF ReadPortal, ReadMark
<1>6. ASSUME NEW u \in Messages, NEW guess \in Guesses, NEW isStored \in BOOLEAN,
             ReadArrives(u, guess, isStored)
      PROVE  TickInv'
  BY <1>1, <1>6 DEF ReadArrives
<1>7. ASSUME \/ \E u \in Sent : Send(u) \/ \E k \in Keys, first \in BOOLEAN : Save(u, k, first)
             \/ ReID \/ Opens \/ UNCHANGED receiptsVars
             \/ \E u \in Messages, c \in {"record", "read"} : SyncRow(u, c)
      PROVE  TickInv'
  <2>1. ticking' = ticking
    BY <1>7 DEF Send, Save, ReID, Opens, receiptsVars, SyncRow, Handlers
  <2>2. \/ rows' = rows /\ portals' = portals
        \/ ReID \/ \E u \in Sent, k \in Keys, f \in BOOLEAN : Save(u, k, f)
    BY <1>7 DEF Send, Opens, receiptsVars, SyncRow
  <2> QED BY <1>1, <2>1, <2>2
<1> QED BY <1>2, <1>3, <1>4, <1>5, <1>6, <1>7 DEF ReceiptsNext

(* What was set and what came to nothing. *)
LEMMA StepOutcomes ==
  ASSUME ReceiptsInv, [ReceiptsNext]_receiptsVars
  PROVE  InItsRoom' /\ HistoryUnmarked' /\ LateRowsTick'
<1> USE DEF InItsRoom, HistoryUnmarked, LateRowsTick
<1>1. CASE ReadMark
  <2>1. UNCHANGED <<ticks, dropped>>
    BY <1>1 DEF ReadMark
  <2>2. ASSUME Saved(read.u), SameRoom(rows[read.u], read.key),
               marks' = marks \cup {[u |-> read.u, room |-> read.room, home |-> Home(read.u)]}
        PROVE  read.room = Home(read.u) /\ read.u \notin Old
    <3>1. read.u \in Messages /\ read.room = RoomName(read.key) /\ read.u \notin Old
      BY <1>1 DEF ReadMark, ReadInv, ReceiptsInv
    <3> QED BY <2>2, <3>1, Homes DEF SameRoom, ReceiptsInv
  <2> QED BY <1>1, <2>1, <2>2 DEF ReadMark, ReceiptsInv
<1>2. ASSUME NEW t \in ticking, Tick(t) PROVE InItsRoom' /\ HistoryUnmarked' /\ LateRowsTick'
  <2>1. t.u \in Messages /\ (t.knew => Saved(t.u) /\ t.room = RoomName(rows[t.u].key))
    BY DEF ReceiptsInv, TickInv, Messages
  <2>2. t.knew => t.room = Home(t.u)
    BY <2>1, Homes DEF ReceiptsInv
  <2>3. UNCHANGED marks /\ InItsRoom'
    BY <1>2, <2>2 DEF Tick, ReceiptsInv
  <2>4. LateRowsTick'
    BY <1>2 DEF Tick, LastTry, ReceiptsInv
  <2> QED BY <2>3, <2>4 DEF ReceiptsInv
<1>3. CASE ReadPortal
  BY <1>3 DEF ReadPortal, ReceiptsInv
<1>4. ASSUME NEW u \in Messages, NEW guess \in Guesses, NEW isStored \in BOOLEAN,
             ReadArrives(u, guess, isStored) \/ TickArrives(u, guess)
      PROVE  InItsRoom' /\ HistoryUnmarked' /\ LateRowsTick'
  <2>1. UNCHANGED <<marks, ticks, slow>>
    BY <1>4 DEF ReadArrives, TickArrives
  <2>2. \E w \in {"stored", "sync", "noroom"} : dropped' \subseteq dropped \cup {[u |-> u, why |-> w]}
    <3>1. CASE ReadArrives(u, guess, isStored) /\ isStored
      BY <3>1 DEF ReadArrives
    <3>2. CASE ReadArrives(u, guess, isStored) /\ ~isStored
      BY <3>2 DEF ReadArrives
    <3>3. CASE TickArrives(u, guess)
      BY <3>3 DEF TickArrives
    <3> QED BY <1>4, <3>1, <3>2, <3>3
  <2>3. PICK w \in {"stored", "sync", "noroom"} : dropped' \subseteq dropped \cup {[u |-> u, why |-> w]}
    BY <2>2
  <2> DEFINE new == [u |-> u, why |-> w]
  <2>4. new.why # "norow" /\ dropped' \subseteq dropped \cup {new}
    BY <2>3
  <2> HIDE DEF new
  <2> QED BY <2>1, <2>4 DEF ReceiptsInv
<1>5. ASSUME UNCHANGED <<marks, ticks, dropped, slow>> PROVE InItsRoom' /\ HistoryUnmarked' /\ LateRowsTick'
  BY <1>5 DEF ReceiptsInv
<1> HIDE DEF InItsRoom, HistoryUnmarked, LateRowsTick
<1>6. ASSUME \/ \E u \in Sent : Send(u) \/ \E k \in Keys, first \in BOOLEAN : Save(u, k, first)
             \/ ReID \/ Opens \/ Restart \/ UNCHANGED receiptsVars
             \/ \E u \in Messages, c \in {"record", "read"} : SyncRow(u, c)
      PROVE  InItsRoom' /\ HistoryUnmarked' /\ LateRowsTick'
  BY <1>5, <1>6 DEF Send, Save, ReID, Opens, Restart, receiptsVars, SyncRow, Outcomes
<1> QED BY <1>1, <1>2, <1>3, <1>4, <1>6 DEF ReceiptsNext

(* The inductive invariant: where the handlers' rooms come from, and that    *)
(* CloudKit's messages have their rows from the beginning.                   *)
THEOREM ReceiptsSafe == ReceiptsSpec => []ReceiptsInv
<1>1. ReceiptsInit => ReceiptsInv
  BY ReceiptsInitInv
<1>2. ReceiptsInv /\ [ReceiptsNext]_receiptsVars => ReceiptsInv'
  BY ReceiptsStepType, ReceiptsStepRead, ReceiptsStepTick, StepOutcomes DEF ReceiptsInv
<1> QED BY <1>1, <1>2, PTL DEF ReceiptsSpec

(* Markers and ticks are set in the room their message is in, through the    *)
(* change of a group's key, no message of the history is marked, and a row   *)
(* that is saved within the pauses of the look-up gets its tick              *)
(* (sendGhostReadReceipt, handleDeliveryReceipt).                            *)
THEOREM Placed == ReceiptsSpec => []MarkersInPlace
<1>1. ReceiptsInv => MarkersInPlace
  BY DEF ReceiptsInv, MarkersInPlace
<1> QED BY <1>1, ReceiptsSafe, PTL

-----------------------------------------------------------------------------
(* Outgoing.  One job at a time sends a message of the user, and its rows   *)
(* name what went out.                                                      *)

OwnEvents == UserMessages \X {"main", "caption"}
SendStages == {"route", "relay", "send", "record", "hide", "save"}
SendJobs ==
  {j \in [at : SendStages, e : UserMessages, kind : Kinds, sms : BOOLEAN, i : {1, 2},
          sent : SUBSET Pieces, puppet : BOOLEAN] : j.kind = "text" => j.i = 1}
UnsendJobs == [at : {"unsend"}, ev : OwnEvents, id : Pieces, left : Seq(Pieces), bad : BOOLEAN]
TrackJobs == [at : {"track"}, r : Reactions]
Rows == [ev : Shown, id : Ids, sibling : SUBSET Pieces, conts : Seq(Pieces)]
RemoteEvents == [op : {"show", "remove"}, id : Ids]
Results == {"none", "sent", "refused", "removed", "failed", "died"}
Memos == [verified : BOOLEAN, unreachable : BOOLEAN, relay : Answers, listed : Answers]

OutgoingShape ==
  /\ flag \in BOOLEAN /\ contactOn \in BOOLEAN /\ relayOn \in BOOLEAN /\ relayed \in BOOLEAN
  /\ memo \in Memos
  /\ job \in SendJobs \cup UnsendJobs \cup TrackJobs \cup {NoJob}
  /\ queue \in Seq(RemoteEvents) /\ bridged \subseteq Rows
  /\ stored \in [Ids -> {"none", "live", "dead"}]
  /\ phone \in [Pieces -> {"none", "imessage", "sms", "unsent"}]
  /\ unsends \subseteq Ids /\ ownUnsends \subseteq Pieces /\ echoes \subseteq Reactions
  /\ result \in [UserMessages \cup OwnEvents -> Results]
  /\ retracted \subseteq Incoming /\ sendFaults \in Nat

Apart(e) == <<e, "apart">> \in excused
Untouched(p) == phone[p] = "none" /\ stored[p] = "none"

(* A message is sent by one job, once: before it nothing of it is out, and  *)
(* its events are redacted when it is told as sent.                        *)
UnsentInv ==
  /\ \A e \in UserMessages : result[e] = "none" /\ ~(job.at \in SendStages /\ job.e = e) =>
       Untouched(<<e, 1>>) /\ Untouched(<<e, 2>>) /\ ~Apart(e)
  /\ \A v \in OwnEvents : result[v] # "none" => result[v[1]] = "sent"

(* A piece of which the store knows nothing, unless it was unsent elsewhere; *)
(* one that reached nobody only because of a list that was stale.           *)
Loose(p) == stored[p] = "none" \/ phone[p] = "unsent"
Known(p) == phone[p] = "none" => <<p, "stale">> \in excused

(* The job: which pieces are out, and what is known of the others.  A second *)
(* piece that timed out may have landed.                                    *)
StageInv ==
  job.at \in SendStages =>
    LET a == <<job.e, 1>>
        b == <<job.e, 2>>
    IN /\ result[job.e] = "none" /\ job.sent \subseteq {a, b}
       /\ a \notin job.sent => Untouched(a)
       /\ b \notin job.sent => Loose(b) /\ (job.at # "save" => Untouched(b))
       /\ job.at \in {"route", "relay"} => job.sent = {} /\ job.i = 1
       /\ job.at = "send" => job.sent = (IF job.i = 1 THEN {} ELSE {a})
       /\ job.at = "record" => job.sent = (IF job.i = 1 THEN {a} ELSE {a, b})
       /\ job.at \in {"hide", "save"} => a \in job.sent /\ (job.at = "hide" => b \in job.sent)
       /\ job.puppet <=> Apart(job.e)
       /\ job.puppet => job.at = "save" /\ b \in job.sent /\ job.kind = "captioned"
       /\ (a \in job.sent => Known(a)) /\ (b \in job.sent => Known(b))

(* The row of an event of the user names the pieces the event stands for,   *)
(* but for one that was not recorded.                                       *)
Clear(p) == phone[p] = "imessage" /\ stored[p] # "none" => <<p, "asked">> \in excused
Gone(p) == phone[p] # "imessage" /\ stored[p] = "dead"
OwnRow(w) ==
  LET a == <<w.ev[1], 1>>
      b == <<w.ev[1], 2>>
  IN /\ result[w.ev[1]] = "sent" /\ Known(a) /\ (w.id = b \/ w.conts # <<>> => Known(b))
     /\ \/ Apart(w.ev[1]) /\ w.id \in {a, b} /\ w.sibling = {} /\ w.conts = <<>>
        \/ /\ ~Apart(w.ev[1])
           /\ \/ w.id = b /\ w.sibling = {a} /\ w.conts = <<>>
              \/ w.id = a /\ w.sibling = {} /\ w.conts = <<b>>
              \/ w.id = a /\ w.sibling = {} /\ w.conts = <<>> /\ Clear(b)
RowsInv ==
  /\ \A w \in bridged : IF w.ev \in OwnEvents THEN OwnRow(w) ELSE w.id \in Incoming \cup Reactions
  /\ \A w, v \in bridged : w.ev \in OwnEvents /\ w.ev = v.ev => w = v

(* A redaction under way: what is not left is dealt with, and the piece the *)
(* event is named for comes last.                                           *)
UnsendInv ==
  job.at = "unsend" =>
    /\ result[job.ev[1]] = "sent" /\ result[job.ev] = "none"
    /\ \A n \in DOMAIN job.left : job.left[n][1] = job.ev[1] /\ Known(job.left[n])
    /\ IF job.left = <<>> THEN job.bad \/ Gone(job.id) ELSE job.left[Len(job.left)] = job.id
    /\ \A w \in bridged : w.ev = job.ev =>
         /\ w.id = job.id
         /\ \A p \in PiecesOf(w) : Clear(p) \/ \E n \in DOMAIN job.left : job.left[n] = p

SentInv == UnsentInv /\ StageInv /\ RowsInv /\ UnsendInv /\ EveryPieceRecalled /\ NoSilentLoss

(* What the native side has listed did relay since the list was outdated. *)
ListedInv == (memo.listed = "yes" => relayed) /\ (relayOn => relayed)

(* A message its sender took back is remembered, and gone when the queue is. *)
ShowIn(u) == \E n \in DOMAIN queue : queue[n].op = "show" /\ queue[n].id = u
RemovalLast(u) ==
  \E n \in DOMAIN queue : /\ queue[n].op = "remove" /\ queue[n].id = u
                          /\ \A m \in DOMAIN queue : m > n => ~(queue[m].op = "show" /\ queue[m].id = u)
Excuse(x) == {<<x, "forgotten">>, <<x, "scrub">>} \cap excused # {}
GoneInv == \A x \in retracted : Excuse(x) \/ (x \in unsends /\ (RemovalLast(x) \/ (~HasRow(x) /\ ~ShowIn(x))))

(* A reaction that left as a text is tracked until its report. *)
EchoInv ==
  /\ \A r \in Reactions : <<r, "sent">> \in excused =>
       (job.at = "track" /\ job.r = r) \/ r \in echoes \/ <<r, "echo">> \in excused
  /\ \A r \in Reactions : HasRow(r) \/ ShowIn(r) => <<r, "echo">> \in excused
  /\ \A n \in DOMAIN queue : queue[n].op = "show" => queue[n].id \in Incoming \cup Reactions

OutgoingInv == OutgoingShape /\ ListedInv /\ SentInv /\ GoneInv /\ EchoInv

(* Which record the worker's job is, and its parts. *)
LEMMA SendingJob ==
  ASSUME OutgoingShape, job.at \in SendStages
  PROVE  job \in SendJobs
BY DEF OutgoingShape, SendStages, UnsendJobs, TrackJobs, NoJob

LEMMA UnsendingJob ==
  ASSUME OutgoingShape, job.at = "unsend"
  PROVE  job \in UnsendJobs
BY DEF OutgoingShape, SendStages, SendJobs, TrackJobs, NoJob

LEMMA TrackingJob ==
  ASSUME OutgoingShape, job.at = "track"
  PROVE  job \in TrackJobs
BY DEF OutgoingShape, SendStages, SendJobs, UnsendJobs, NoJob

(* Two pieces of a message, and how events and pieces differ. *)
LEMMA TwoPieces ==
  ASSUME NEW e \in UserMessages
  PROVE  /\ <<e, 1>> \in Pieces /\ <<e, 2>> \in Pieces /\ <<e, 1>> \in Ids /\ <<e, 2>> \in Ids
         /\ <<e, "main">> \in OwnEvents /\ <<e, "caption">> \in OwnEvents
         /\ <<e, 1>> # <<e, 2>> /\ <<e, "main">> # <<e, "caption">>
         /\ {e} \X {1, 2} = {<<e, 1>>, <<e, 2>>}
BY DEF Pieces, Ids, OwnEvents

LEMMA SortsApart ==
  /\ Pieces \cap (Incoming \cup Reactions) = {} /\ OwnEvents \cap (Incoming \cup Reactions) = {}
  /\ Incoming \cap Reactions = {} /\ UserMessages \cap OwnEvents = {} /\ OwnEvents \subseteq Shown
  /\ Pieces \subseteq Ids /\ Incoming \subseteq Ids /\ Reactions \subseteq Ids
  /\ Incoming \cup Reactions \subseteq Shown
  /\ MaxWorld \in Nat /\ MaxSendFaults \in Nat
BY OutgoingAssumption DEF Pieces, OwnEvents, Ids, Shown

LEMMA FaultCounted ==
  ASSUME OutgoingShape
  PROVE  /\ SendFault => sendFaults' \in Nat
         /\ \A failed : Told(failed) => sendFaults' \in Nat
BY DEF OutgoingShape, SendFault, Told

(* What is remembered of the relays, and what a piece Apple accepted became. *)
LEMMA RelayAnswers ==
  ASSUME OutgoingShape, ListedInv, NEW has \in BOOLEAN, NEW list, NEW failed \in BOOLEAN,
         HasSmsRelay(has, list, failed)
  PROVE  list \in Answers /\ (list = "yes" => relayed) /\ (has => relayed)
BY DEF OutgoingShape, ListedInv, Memos, HasSmsRelay, Answers

LEMMA Relisted ==
  ASSUME OutgoingShape, NEW list \in Answers
  PROVE  [memo EXCEPT !.listed = list] \in Memos /\ [memo EXCEPT !.listed = list].listed = list
BY DEF OutgoingShape, Memos

(* The elements of a reversed sequence, and of a set of at most one member  *)
(* as a sequence.                                                          *)
LEMMA ReversedOne ==
  ASSUME NEW T, NEW s \in Seq(T), Len(s) <= 1 PROVE Reverse(s) = s
<1>1. Len(s) \in Nat /\ s \in [1..Len(s) -> T]
  BY LenProperties
<1>2. Reverse(s) = [i \in 1..Len(s) |-> s[(Len(s) - i) + 1]]
  BY DEF Reverse
<1>3. \A i \in 1..Len(s) : (Len(s) - i) + 1 = i
  BY <1>1
<1> QED BY <1>1, <1>2, <1>3

LEMMA EmptyToSeq == SetToSeq({}) = <<>>
<1>1. Cardinality({}) = 0
  BY FS_EmptySet
<1> DEFINE P(f) == IsInjective(f)
<1>2. \A f \in [1..0 -> {}] : f = <<>>
  BY EmptySeq
<1>3. <<>> \in [1..0 -> {}]
  <2>1. <<>> \in Seq({}) /\ Len(<<>>) = 0
    BY EmptySeq
  <2> QED BY <2>1, LenProperties
<1>4. IsInjective(<<>>)
  BY DEF IsInjective
<1>5. SetToSeq({}) \in [1..0 -> {}]
  BY <1>1, <1>3, <1>4 DEF SetToSeq
<1> QED BY <1>5, <1>2

LEMMA OneToSeq == ASSUME NEW x PROVE SetToSeq({x}) = <<x>>
<1>1. Cardinality({x}) = 1
  BY FS_Singleton
<1>2. \A f \in [1..1 -> {x}] : f = <<x>>
  <2> SUFFICES ASSUME NEW f \in [1..1 -> {x}] PROVE f = <<x>>
    OBVIOUS
  <2>1. f \in Seq({x}) /\ Len(f) = 1 /\ f[1] = x
    OBVIOUS
  <2> QED BY <2>1
<1>3. <<x>> \in [1..1 -> {x}]
  OBVIOUS
<1>4. IsInjective(<<x>>)
  BY DEF IsInjective
<1>5. SetToSeq({x}) \in [1..1 -> {x}]
  BY <1>1, <1>3, <1>4 DEF SetToSeq
<1> QED BY <1>5, <1>2

(* The shape of the state, action by action. *)
LEMMA BeginShape ==
  ASSUME OutgoingShape, NEW e \in UserMessages, NEW kind \in Kinds, Begin(e, kind)
  PROVE  OutgoingShape'
<1>1. job' \in SendJobs
  BY DEF Begin, OutgoingShape, SendJobs, SendStages
<1> QED BY <1>1 DEF Begin, OutgoingShape, Surroundings, Tracking

LEMMA RouteShape ==
  ASSUME OutgoingShape, Route
  PROVE  OutgoingShape' /\ job' \in SendJobs /\ memo'.listed = memo.listed
<1>1. job \in SendJobs /\ job.at = "route"
  BY SendingJob DEF Route, SendStages
<1>2. job' \in SendJobs
  <2>1. PICK c \in BOOLEAN : job' = [job EXCEPT !.at = "relay", !.sms = c]
    <3>1. job.sms \in BOOLEAN /\ flag \in BOOLEAN /\ memo.verified \in BOOLEAN
      BY <1>1 DEF OutgoingShape, SendJobs, Memos
    <3>2. [job EXCEPT !.at = "relay"] = [job EXCEPT !.at = "relay", !.sms = job.sms]
      BY <1>1 DEF SendJobs
    <3>3. CASE ~Verify \/ Remembered
      BY <3>1, <3>3 DEF Route, Verify, Remembered
    <3>4. CASE ~(~Verify \/ Remembered)
      <4>1. \/ job' = [job EXCEPT !.at = "relay"]
            \/ \E found \in BOOLEAN : job' = [job EXCEPT !.at = "relay", !.sms = @ /\ ~found]
        BY <3>4 DEF Route
      <4> QED BY <4>1, <3>1, <3>2
    <3> QED BY <3>3, <3>4
  <2> QED BY <2>1, <1>1 DEF SendJobs, SendStages
<1>3. memo' \in Memos /\ memo'.listed = memo.listed
  BY DEF Route, Note, OutgoingShape, Memos
<1>4. sendFaults' \in Nat
  BY FaultCounted DEF Route, NoSlot, OutgoingShape
<1> QED BY <1>2, <1>3, <1>4 DEF Route, OutgoingShape, Surroundings, Tracking

LEMMA RelayShape ==
  ASSUME OutgoingShape, Relay
  PROVE  OutgoingShape' /\ job \in SendJobs /\ job' \in SendJobs \cup {NoJob}
<1>1. job \in SendJobs /\ job.at = "relay"
  BY SendingJob DEF Relay, SendStages
<1>2. job' \in SendJobs \cup {NoJob}
  BY <1>1 DEF Relay, SendJobs, SendStages
<1>3. memo' \in Memos
  BY DEF Relay, OutgoingShape, Memos
<1>4. sendFaults' \in Nat
  BY FaultCounted DEF Relay, SmsRelay, OutgoingShape
<1>5. result' \in [UserMessages \cup OwnEvents -> Results]
  <2>1. job.e \in UserMessages
    BY <1>1 DEF SendJobs
  <2> QED BY <2>1 DEF Relay, OutgoingShape, Results
<1> QED BY <1>1, <1>2, <1>3, <1>4, <1>5 DEF Relay, OutgoingShape, Surroundings, Tracking

LEMMA SendPieceShape ==
  ASSUME OutgoingShape, SendPiece
  PROVE  OutgoingShape' /\ job \in SendJobs /\ job' \in SendJobs \cup {NoJob}
<1>1. job \in SendJobs /\ job.at = "send" /\ job.e \in UserMessages /\ job.i \in {1, 2}
  BY SendingJob DEF SendPiece, SendStages, SendJobs
<1> DEFINE p == <<job.e, job.i>>
<1>2. p \in Pieces
  BY <1>1 DEF Pieces
<1>3. job' \in SendJobs \cup {NoJob}
  <2>1. \/ job' = [job EXCEPT !.at = "record", !.sent = @ \cup {p}]
        \/ job' = NoJob \/ job' = [job EXCEPT !.at = "save"]
    <3> HIDE DEF p
    <3> QED BY DEF SendPiece, p
  <2>2. [job EXCEPT !.at = "record", !.sent = @ \cup {p}] \in SendJobs
    <3>1. job.sent \cup {p} \in SUBSET Pieces
      BY <1>1, <1>2 DEF SendJobs
    <3> HIDE DEF p
    <3> QED BY <1>1, <3>1 DEF SendJobs, SendStages
  <2>3. [job EXCEPT !.at = "save"] \in SendJobs
    BY <1>1 DEF SendJobs, SendStages
  <2> QED BY <2>1, <2>2, <2>3
<1>4. sendFaults' \in Nat
  BY FaultCounted DEF SendPiece, OutgoingShape
<1>5. result' \in [UserMessages \cup OwnEvents -> Results]
  BY <1>1 DEF SendPiece, OutgoingShape, Results
<1>6. phone' \in [Pieces -> {"none", "imessage", "sms", "unsent"}]
  <2>1. Carried \in {"imessage", "sms", "none"}
    BY DEF Carried
  <2>2. phone' = phone \/ phone' = [phone EXCEPT ![p] = Carried]
    BY DEF SendPiece
  <2> HIDE DEF p
  <2> QED BY <1>2, <2>1, <2>2 DEF OutgoingShape
<1>7. memo' \in Memos
  BY Relisted DEF SendPiece
<1> QED BY <1>1, <1>3, <1>4, <1>5, <1>6, <1>7 DEF SendPiece, OutgoingShape, Surroundings, Tracking

LEMMA RecordShape ==
  ASSUME OutgoingShape, Record PROVE OutgoingShape' /\ job \in SendJobs /\ job' \in SendJobs
<1>1. job \in SendJobs /\ job.at = "record" /\ job.e \in UserMessages /\ job.i \in {1, 2}
  BY SendingJob DEF Record, SendStages, SendJobs
<1>2. <<job.e, job.i>> \in Ids
  BY <1>1 DEF Pieces, Ids
<1>3. job' \in SendJobs
  <2>1. PICK puppet \in BOOLEAN :
          job' = [job EXCEPT !.at = IF job.kind = "long" /\ job.i = 2 THEN "hide"
                                    ELSE IF job.i = Count THEN "save" ELSE "send",
                             !.i = IF job.i = Count THEN @ ELSE @ + 1, !.puppet = puppet]
    BY DEF Record
  <2>2. (IF job.i = Count THEN job.i ELSE job.i + 1) \in {1, 2}
    <3>1. CASE job.i = 1
      BY <3>1
    <3>2. CASE job.i = 2
      <4>1. job.kind # "text"
        BY <3>2, <1>1 DEF SendJobs
      <4> QED BY <4>1, <3>2 DEF Count
    <3> QED BY <3>1, <3>2, <1>1
  <2>3. job.kind = "text" => job.i = 1 /\ job.i = Count
    BY <1>1 DEF SendJobs, Count
  <2> QED BY <2>1, <2>2, <2>3, <1>1 DEF SendJobs, SendStages
<1>4. stored' \in [Ids -> {"none", "live", "dead"}]
  BY <1>2 DEF Record, OutgoingShape
<1> QED BY <1>1, <1>3, <1>4 DEF Record, OutgoingShape, Surroundings, Tracking

LEMMA HideShape ==
  ASSUME OutgoingShape, Hide PROVE OutgoingShape' /\ job \in SendJobs /\ job' \in SendJobs
<1>1. job \in SendJobs /\ job.at = "hide" /\ job.e \in UserMessages
  BY SendingJob DEF Hide, SendStages, SendJobs
<1>2. <<job.e, 2>> \in Ids
  BY <1>1 DEF Pieces, Ids
<1>3. job' \in SendJobs
  BY <1>1 DEF Hide, SendJobs, SendStages
<1>4. stored' \in [Ids -> {"none", "live", "dead"}]
  BY <1>2 DEF Hide, OutgoingShape
<1>5. sendFaults' \in Nat
  BY FaultCounted DEF Hide, OutgoingShape
<1> QED BY <1>1, <1>3, <1>4, <1>5 DEF Hide, OutgoingShape, Surroundings, Tracking

(* The three ways the pieces of a message become rows. *)
LEMMA MetadataRows ==
  ASSUME job \in SendJobs, job.puppet => job.kind = "captioned"
  PROVE  LET main == <<job.e, "main">>
             a == <<job.e, 1>>
             b == <<job.e, 2>>
         IN \/ /\ b \in job.sent /\ job.puppet
               /\ Metadata = {Row(main, a, {}, <<>>), Row(<<job.e, "caption">>, b, {}, <<>>)}
            \/ b \in job.sent /\ ~job.puppet /\ Metadata = {Row(main, b, {a}, <<>>)}
            \/ b \in job.sent /\ ~job.puppet /\ Metadata = {Row(main, a, {}, <<b>>)}
            \/ b \notin job.sent /\ Metadata = {Row(main, a, {}, <<>>)}
BY DEF Metadata, SendJobs

LEMMA SaveRowsShape ==
  ASSUME OutgoingShape, SaveRows, job.puppet => job.kind = "captioned"
  PROVE  OutgoingShape' /\ job \in SendJobs
<1>1. job \in SendJobs /\ job.at = "save" /\ job.e \in UserMessages
  BY SendingJob DEF SaveRows, SendStages, SendJobs
<1> DEFINE a == <<job.e, 1>>
           b == <<job.e, 2>>
           main == <<job.e, "main">>
           caption == <<job.e, "caption">>
<1>2. a \in Pieces /\ b \in Pieces /\ a \in Ids /\ b \in Ids /\ main \in Shown /\ caption \in Shown
  BY <1>1, TwoPieces, SortsApart
<1>3. /\ Row(main, a, {}, <<>>) \in Rows /\ Row(caption, b, {}, <<>>) \in Rows
      /\ Row(main, b, {a}, <<>>) \in Rows /\ Row(main, a, {}, <<b>>) \in Rows
  <2>1. <<>> \in Seq(Pieces) /\ <<b>> \in Seq(Pieces) /\ {a} \in SUBSET Pieces /\ {} \in SUBSET Pieces
    BY <1>2
  <2> HIDE DEF a, b, main, caption
  <2> QED BY <1>2, <2>1 DEF Row, Rows
<1>4. Metadata \subseteq Rows
  <2>1. \/ Metadata = {Row(main, a, {}, <<>>), Row(caption, b, {}, <<>>)}
        \/ Metadata = {Row(main, b, {a}, <<>>)} \/ Metadata = {Row(main, a, {}, <<b>>)}
        \/ Metadata = {Row(main, a, {}, <<>>)}
    BY <1>1, MetadataRows
  <2> HIDE DEF a, b, main, caption
  <2> QED BY <2>1, <1>3
<1>5. bridged' \subseteq Rows
  BY <1>4 DEF SaveRows, OutgoingShape
<1>6. sendFaults' \in Nat
  BY FaultCounted DEF SaveRows, OutgoingShape
<1>7. result' \in [UserMessages \cup OwnEvents -> Results]
  BY <1>1 DEF SaveRows, OutgoingShape, Results
<1> QED BY <1>1, <1>5, <1>6, <1>7 DEF SaveRows, OutgoingShape, Surroundings, Tracking

(* Every order of unsends is a sequence of pieces, when a row has at most one *)
(* continuation or a sibling.                                                *)
LEMMA UnsendOrders ==
  ASSUME NEW e \in UserMessages, NEW w \in Rows,
         \/ w.id \in {<<e, 1>>, <<e, 2>>} /\ w.sibling = {} /\ w.conts = <<>>
         \/ w.id = <<e, 2>> /\ w.sibling = {<<e, 1>>} /\ w.conts = <<>>
         \/ w.id = <<e, 1>> /\ w.sibling = {} /\ w.conts = <<<<e, 2>>>>
  PROVE  UnsendOrder(w) \in {<<<<e, 1>>>>, <<<<e, 2>>>>, <<<<e, 1>>, <<e, 2>>>>, <<<<e, 2>>, <<e, 1>>>>} /\
         IF w.sibling = {} /\ w.conts = <<>> THEN UnsendOrder(w) = <<w.id>>
         ELSE UnsendOrder(w) = IF w.id = <<e, 2>> THEN <<<<e, 1>>, <<e, 2>>>> ELSE <<<<e, 2>>, <<e, 1>>>>
<1> DEFINE a == <<e, 1>>
           b == <<e, 2>>
<1>1. a \in Pieces /\ b \in Pieces /\ a # b
  BY TwoPieces
<1> HIDE DEF a, b
<1>2. Reverse(<<>>) = <<>> /\ Reverse(<<b>>) = <<b>>
  <2>1. <<>> \in Seq(Pieces) /\ <<b>> \in Seq(Pieces) /\ Len(<<>>) <= 1 /\ Len(<<b>>) <= 1
    BY <1>1
  <2> QED BY <2>1, ReversedOne
<1>3. SetToSeq({}) = <<>> /\ SetToSeq({a}) = <<a>>
  BY EmptyToSeq, OneToSeq
<1>9. <<a>> \o <<b>> = <<a, b>> /\ <<b>> \o <<a>> = <<b, a>>
  <2>1. ASSUME NEW c \in Pieces, NEW d \in Pieces PROVE <<c>> \o <<d>> = <<c, d>>
    <3>1. <<c>> \in Seq(Pieces) /\ <<d>> \in Seq(Pieces) /\ <<c, d>> \in Seq(Pieces)
      OBVIOUS
    <3>2. /\ Len(<<c>>) = 1 /\ Len(<<d>>) = 1 /\ Len(<<c, d>>) = 2 /\ <<c>>[1] = c /\ <<d>>[1] = d
          /\ <<c, d>>[1] = c /\ <<c, d>>[2] = d
      OBVIOUS
    <3> DEFINE s == <<c>>
               t == <<d>>
               st == <<c, d>>
    <3> HIDE DEF s, t, st
    <3>3. /\ s \in Seq(Pieces) /\ t \in Seq(Pieces) /\ st \in Seq(Pieces) /\ Len(s) = 1 /\ Len(t) = 1
          /\ Len(st) = 2 /\ s[1] = c /\ t[1] = d /\ st[1] = c /\ st[2] = d
      BY <3>1, <3>2 DEF s, t, st
    <3>4. /\ s \o t \in Seq(Pieces) /\ Len(s \o t) = Len(s) + Len(t)
          /\ \A n \in 1 .. Len(s) + Len(t) : (s \o t)[n] = IF n <= Len(s) THEN s[n] ELSE t[n - Len(s)]
      BY <3>3, ConcatProperties
    <3>5. \A n \in 1 .. Len(st) : st[n] = (s \o t)[n]
      BY <3>3, <3>4
    <3>6. st = s \o t
      BY <3>3, <3>4, <3>5, SeqEqual
    <3> QED BY <3>6 DEF s, t, st
  <2> QED BY <1>1, <2>1
<1>8. <<a>> \o <<>> = <<a>> /\ <<>> \o <<b>> = <<b>>
  BY <1>1
<1>4. CASE w.sibling = {} /\ w.conts = <<>>
  <2>1. UnsendOrder(w) = <<>> \o <<>> \o <<w.id>>
    BY <1>2, <1>3, <1>4 DEF UnsendOrder
  <2>2. w.id \in {a, b}
    BY <1>4 DEF a, b
  <2>3. UnsendOrder(w) = <<w.id>>
    BY <2>1, <2>2, <1>1
  <2> QED BY <2>3, <2>2, <1>4 DEF a, b
<1>5. CASE w.id = b /\ w.sibling = {a} /\ w.conts = <<>>
  <2>1. UnsendOrder(w) = <<a>> \o <<>> \o <<b>>
    BY <1>2, <1>3, <1>5 DEF UnsendOrder
  <2>2. UnsendOrder(w) = <<a, b>>
    BY <2>1, <1>9, <1>8
  <2>3. w.sibling # {}
    BY <1>5
  <2> QED BY <2>2, <2>3, <1>5 DEF a, b
<1>6. CASE w.id = a /\ w.sibling = {} /\ w.conts = <<b>>
  <2>1. UnsendOrder(w) = <<>> \o <<b>> \o <<a>>
    BY <1>2, <1>3, <1>6 DEF UnsendOrder
  <2>2. UnsendOrder(w) = <<b, a>>
    BY <2>1, <1>9, <1>8
  <2>3. w.conts # <<>> /\ w.id # b
    BY <1>1, <1>6
  <2> QED BY <2>2, <2>3, <1>6 DEF a, b
<1> QED BY <1>4, <1>5, <1>6 DEF a, b

LEMMA RedactShape ==
  ASSUME OutgoingShape, RowsInv, NEW w \in bridged, Redact(w) PROVE OutgoingShape'
<1>1. w \in Rows /\ w.ev \in OwnEvents /\ OwnRow(w)
  BY DEF Redact, OwnEvents, OutgoingShape, RowsInv
<1>2. PICK e \in UserMessages : e = w.ev[1]
  BY <1>1 DEF OwnEvents
<1> DEFINE order == UnsendOrder(w)
<1>3. order \in Seq(Pieces) /\ w.id \in Pieces
  <2>1. <<e, 1>> \in Pieces /\ <<e, 2>> \in Pieces
    BY TwoPieces
  <2>2. order \in {<<<<e, 1>>>>, <<<<e, 2>>>>, <<<<e, 1>>, <<e, 2>>>>, <<<<e, 2>>, <<e, 1>>>>}
    BY <1>1, <1>2, UnsendOrders DEF OwnRow
  <2>3. \A a, b \in Pieces : {<<a>>, <<b>>, <<a, b>>, <<b, a>>} \subseteq Seq(Pieces)
    OBVIOUS
  <2>4. w.id \in {<<e, 1>>, <<e, 2>>}
    BY <1>1, <1>2 DEF OwnRow
  <2> HIDE DEF order
  <2> QED BY <2>1, <2>2, <2>3, <2>4
<1>4. job' \in UnsendJobs \cup {NoJob}
  <2>1. \/ job' = NoJob
        \/ job' = [at |-> "unsend", ev |-> w.ev, id |-> w.id, left |-> order, bad |-> FALSE]
    BY DEF Redact
  <2>2. [at |-> "unsend", ev |-> w.ev, id |-> w.id, left |-> order, bad |-> FALSE] \in UnsendJobs
    <3>1. ASSUME NEW v \in OwnEvents, NEW i \in Pieces, NEW l \in Seq(Pieces)
          PROVE  [at |-> "unsend", ev |-> v, id |-> i, left |-> l, bad |-> FALSE] \in UnsendJobs
      BY DEF UnsendJobs
    <3> HIDE DEF order
    <3> QED BY <3>1, <1>1, <1>3
  <2> QED BY <2>1, <2>2
<1>5. result' \in [UserMessages \cup OwnEvents -> Results]
  BY <1>1 DEF Redact, OutgoingShape, Results
<1> QED BY <1>4, <1>5 DEF Redact, OutgoingShape, Surroundings, Tracking

LEMMA UnsendShape ==
  ASSUME OutgoingShape, Unsend
  PROVE  /\ OutgoingShape' /\ job \in UnsendJobs /\ job' \in UnsendJobs
         /\ Head(job.left) \in Pieces
<1>1. job \in UnsendJobs /\ job.left \in Seq(Pieces) /\ job.left # <<>> /\ job.bad \in BOOLEAN
  BY UnsendingJob DEF Unsend, UnsendJobs
<1> DEFINE p == Head(job.left)
<1>2. p \in Pieces /\ Tail(job.left) \in Seq(Pieces)
  BY <1>1, HeadTailProperties
<1>3. job' \in UnsendJobs
  <2>1. PICK c \in BOOLEAN : job' = [job EXCEPT !.left = Tail(@), !.bad = c]
    BY <1>1 DEF Unsend
  <2> HIDE DEF p
  <2> QED BY <1>1, <1>2, <2>1 DEF UnsendJobs
<1>4. phone' \in [Pieces -> {"none", "imessage", "sms", "unsent"}]
  BY <1>2 DEF Unsend, OutgoingShape
<1>5. stored' \in [Ids -> {"none", "live", "dead"}]
  BY <1>2, SortsApart DEF Unsend, OutgoingShape
<1>6. sendFaults' \in Nat
  BY FaultCounted DEF Unsend, OutgoingShape
<1>7. ownUnsends' \subseteq Pieces
  BY <1>2 DEF Unsend, OutgoingShape
<1> QED BY <1>1, <1>2, <1>3, <1>4, <1>5, <1>6, <1>7 DEF Unsend, OutgoingShape, Surroundings

LEMMA RemovedShape ==
  ASSUME OutgoingShape, Removed PROVE OutgoingShape' /\ job \in UnsendJobs
<1>1. job \in UnsendJobs
  BY UnsendingJob DEF Removed
<1>2. result' \in [UserMessages \cup OwnEvents -> Results]
  BY <1>1 DEF Removed, OutgoingShape, Results, UnsendJobs
<1> QED BY <1>1, <1>2 DEF Removed, OutgoingShape, Surroundings, Tracking

LEMMA ReactShape == ASSUME OutgoingShape, NEW r \in Reactions, React(r) PROVE OutgoingShape'
<1>1. job' \in TrackJobs \cup {NoJob}
  BY DEF React, TrackJobs
<1>2. memo' \in Memos
  BY Relisted DEF React
<1>3. sendFaults' \in Nat
  BY FaultCounted DEF React
<1> QED BY <1>1, <1>2, <1>3 DEF React, OutgoingShape, Surroundings, Tracking

LEMMA TrackShape == ASSUME OutgoingShape, Track PROVE OutgoingShape' /\ job \in TrackJobs
<1>1. job \in TrackJobs /\ job.r \in Reactions
  BY TrackingJob DEF Track, TrackJobs
<1> QED BY <1>1 DEF Track, OutgoingShape, Surroundings

(* A handled message changes the flag, one row of the store and the queue. *)
LEMMA HandledMessage ==
  ASSUME OutgoingShape, NEW u \in Ids, NEW sms \in BOOLEAN, HandleMessage(u, sms)
  PROVE  /\ flag' \in BOOLEAN /\ echoes' \subseteq echoes
         /\ stored' \in [Ids -> {"none", "live", "dead"}]
         /\ \A v \in Ids : v # u => stored'[v] = stored[v]
         /\ queue' \in Seq(RemoteEvents)
<1>1. [op |-> "show", id |-> u] \in RemoteEvents
  BY DEF RemoteEvents
<1>2. queue' \in Seq(RemoteEvents)
  <2>1. queue' = queue \/ queue' = Append(queue, [op |-> "show", id |-> u])
    BY DEF HandleMessage
  <2> QED BY <2>1, <1>1, AppendProperties DEF OutgoingShape
<1>3. stored' \in [Ids -> {"none", "live", "dead"}] /\ \A v \in Ids : v # u => stored'[v] = stored[v]
  BY DEF HandleMessage, OutgoingShape
<1>4. flag' \in BOOLEAN /\ echoes' \subseteq echoes
  BY DEF HandleMessage, OutgoingShape
<1> QED BY <1>2, <1>3, <1>4

LEMMA ArrivesShape ==
  ASSUME OutgoingShape, NEW x \in Incoming, NEW sms \in BOOLEAN, Arrives(x, sms) PROVE OutgoingShape'
<1>1. HandleMessage(x, sms) /\ x \in Ids
  BY SortsApart DEF Arrives
<1>2. /\ flag' \in BOOLEAN /\ echoes' \subseteq echoes /\ queue' \in Seq(RemoteEvents)
      /\ stored' \in [Ids -> {"none", "live", "dead"}]
  BY <1>1, HandledMessage
<1> QED BY <1>2 DEF Arrives, OutgoingShape

LEMMA ReactionEchoShape ==
  ASSUME OutgoingShape, NEW r \in Reactions, ReactionEcho(r) PROVE OutgoingShape'
<1>1. HandleMessage(r, TRUE) /\ r \in Ids
  BY SortsApart DEF ReactionEcho
<1>2. /\ flag' \in BOOLEAN /\ echoes' \subseteq echoes /\ queue' \in Seq(RemoteEvents)
      /\ stored' \in [Ids -> {"none", "live", "dead"}]
  BY <1>1, HandledMessage
<1> QED BY <1>2 DEF ReactionEcho, OutgoingShape

LEMMA HandledUnsend ==
  ASSUME OutgoingShape, NEW u \in Ids, HandleUnsend(u)
  PROVE  /\ unsends' \subseteq Ids /\ ownUnsends' \subseteq ownUnsends
         /\ stored' \in [Ids -> {"none", "live", "dead"}]
         /\ \A v \in Ids : stored'[v] \in {stored[v], "dead"} /\ (v # u => stored'[v] = stored[v])
         /\ queue' \in Seq(RemoteEvents) /\ sendFaults' \in Nat
<1>1. [op |-> "remove", id |-> u] \in RemoteEvents
  BY DEF RemoteEvents
<1>2. sendFaults' \in Nat
  BY FaultCounted DEF HandleUnsend, OutgoingShape
<1>3. /\ unsends' \subseteq Ids /\ ownUnsends' \subseteq ownUnsends
      /\ stored' \in [Ids -> {"none", "live", "dead"}]
      /\ \A v \in Ids : stored'[v] \in {stored[v], "dead"} /\ (v # u => stored'[v] = stored[v])
  BY DEF HandleUnsend, OutgoingShape
<1>4. queue' \in Seq(RemoteEvents)
  <2>1. queue' = queue \/ queue' = Append(queue, [op |-> "remove", id |-> u])
    BY DEF HandleUnsend
  <2> QED BY <2>1, <1>1, AppendProperties DEF OutgoingShape
<1> QED BY <1>2, <1>3, <1>4

LEMMA RetractShape == ASSUME OutgoingShape, NEW x \in Incoming, Retract(x) PROVE OutgoingShape'
<1>1. HandleUnsend(x) /\ x \in Ids
  BY SortsApart DEF Retract
<1>2. /\ unsends' \subseteq Ids /\ ownUnsends' \subseteq ownUnsends /\ queue' \in Seq(RemoteEvents)
      /\ stored' \in [Ids -> {"none", "live", "dead"}] /\ sendFaults' \in Nat
  BY <1>1, HandledUnsend
<1> QED BY <1>2 DEF Retract, OutgoingShape, Surroundings

LEMMA UnsendArrivesShape ==
  ASSUME OutgoingShape, NEW p \in Pieces, UnsendArrives(p) PROVE OutgoingShape'
<1>1. HandleUnsend(p) /\ p \in Ids
  BY SortsApart DEF UnsendArrives
<1>2. /\ unsends' \subseteq Ids /\ ownUnsends' \subseteq ownUnsends /\ queue' \in Seq(RemoteEvents)
      /\ stored' \in [Ids -> {"none", "live", "dead"}] /\ sendFaults' \in Nat
  BY <1>1, HandledUnsend
<1> QED BY <1>2 DEF UnsendArrives, OutgoingShape

LEMMA HandleShape == ASSUME OutgoingShape, RowsInv, EchoInv, Handle PROVE OutgoingShape'
<1>1. queue # <<>> /\ queue \in Seq(RemoteEvents) /\ queue' = Tail(queue)
  BY DEF Handle, OutgoingShape
<1> DEFINE q == Head(queue)
<1>2. q \in RemoteEvents /\ queue' \in Seq(RemoteEvents) /\ 1 \in DOMAIN queue /\ q = queue[1]
  BY <1>1, HeadTailProperties, LenProperties, EmptySeq
<1>3. q.op = "show" => Row(q.id, q.id, {}, <<>>) \in Rows
  <2>1. q.op = "show" => q.id \in Incoming \cup Reactions
    BY <1>2 DEF EchoInv
  <2>2. <<>> \in Seq(Pieces) /\ {} \in SUBSET Pieces
    OBVIOUS
  <2> HIDE DEF q
  <2> QED BY <2>1, <2>2, SortsApart DEF Row, Rows
<1>4. bridged' \subseteq Rows
  <2>1. q.op \in {"show", "remove"}
    BY <1>2 DEF RemoteEvents
  <2> QED BY <1>3, <2>1 DEF Handle, OutgoingShape
<1> QED BY <1>2, <1>4 DEF Handle, OutgoingShape, Surroundings, Tracking

LEMMA ChangeShape == ASSUME OutgoingShape, Change PROVE OutgoingShape'
BY DEF Change, OutgoingShape, Tracking

LEMMA KeptListed == ASSUME OutgoingShape PROVE OnlyListed \in Memos /\ OnlyListed.listed = memo.listed
BY DEF OutgoingShape, OnlyListed, NoMemo, Memos, Answers

LEMMA ExpireShape == ASSUME OutgoingShape, Expire PROVE OutgoingShape'
<1>1. memo' \in Memos
  <2>1. memo' = OnlyListed \/ memo' = memo \/ memo' = [memo EXCEPT !.listed = "none"]
    BY DEF Expire
  <2>2. "none" \in Answers
    BY DEF Answers
  <2> QED BY <2>1, <2>2, KeptListed, Relisted DEF OutgoingShape
<1>2. unsends' \subseteq Ids /\ ownUnsends' \subseteq Pieces /\ echoes' \subseteq Reactions
  BY DEF Expire, OutgoingShape, Tracking
<1>3. relayed' \in BOOLEAN
  BY DEF Expire, OutgoingShape
<1> QED BY <1>1, <1>2, <1>3 DEF Expire, OutgoingShape

LEMMA CrashShape == ASSUME OutgoingShape, Crash PROVE OutgoingShape'
<1>1. sendFaults' \in Nat
  BY FaultCounted DEF Crash
<1>2. result' \in [UserMessages \cup OwnEvents -> Results]
  <2>1. job.at \in SendStages => job.e \in UserMessages
    BY SendingJob DEF SendJobs
  <2>2. job.at = "unsend" => job.ev \in OwnEvents
    BY UnsendingJob DEF UnsendJobs
  <2> QED BY <2>1, <2>2 DEF Crash, OutgoingShape, Results, SendStages
<1>3. queue' \in Seq(RemoteEvents)
  BY DEF Crash
<1> QED BY <1>1, <1>2, <1>3, KeptListed DEF Crash, OutgoingShape, Surroundings

(* The list of relays of the native side, action by action. *)
LEMMA ListedSteps ==
  ASSUME OutgoingShape, ListedInv, [OutgoingNext]_outgoingVars
  PROVE  ListedInv'
<1>1. CASE Relay
  <2>1. UNCHANGED <<relayOn, relayed>>
    BY <1>1 DEF Relay, Surroundings
  <2>2. memo' = memo \/ \E keep, list \in Answers :
          memo' = [memo EXCEPT !.relay = keep, !.listed = list] /\ (list = "yes" => relayed)
    <3>1. CASE ~job.sms
      BY <1>1, <3>1 DEF Relay
    <3>2. CASE job.sms
      <4>1. PICK has \in BOOLEAN, keep \in Answers, list \in Answers :
              SmsRelay(has, keep, list) /\ memo' = [memo EXCEPT !.relay = keep, !.listed = list]
        BY <1>1, <3>2 DEF Relay
      <4>2. list = memo.listed \/ \E failed \in BOOLEAN : HasSmsRelay(has, list, failed)
        BY <4>1 DEF SmsRelay
      <4>3. list = "yes" => relayed
        BY <4>2, RelayAnswers DEF ListedInv
      <4> QED BY <4>1, <4>3
    <3> QED BY <3>1, <3>2
  <2> QED BY <2>1, <2>2 DEF ListedInv, OutgoingShape, Memos
<1>2. CASE SendPiece
  <2>1. UNCHANGED <<relayOn, relayed>>
    BY <1>2 DEF SendPiece, Surroundings
  <2>2. PICK ok \in BOOLEAN, failed \in BOOLEAN, list \in Answers :
          Permitted(ok, list, failed) /\ memo' = [memo EXCEPT !.listed = list]
    BY <1>2 DEF SendPiece
  <2>3. list = memo.listed \/ HasSmsRelay(ok, list, failed)
    BY <2>2 DEF Permitted
  <2>4. list = "yes" => relayed
    BY <2>3, RelayAnswers DEF ListedInv
  <2> QED BY <2>1, <2>2, <2>4, Relisted DEF ListedInv
<1>3. ASSUME NEW r \in Reactions, React(r) PROVE ListedInv'
  <2>1. UNCHANGED <<relayOn, relayed>>
    BY <1>3 DEF React, Surroundings
  <2>2. PICK ok \in BOOLEAN, failed \in BOOLEAN, list \in Answers :
          HasSmsRelay(ok, list, failed) /\ memo' = [memo EXCEPT !.listed = list]
    BY <1>3 DEF React
  <2> QED BY <2>1, <2>2, RelayAnswers, Relisted DEF ListedInv
<1>4. CASE Route
  BY <1>4, RouteShape DEF Route, Surroundings, ListedInv
<1>5. CASE Expire
  <2>1. relayOn' = relayOn
    BY <1>5 DEF Expire
  <2>2. CASE relayed' = relayed /\ (memo' = OnlyListed \/ memo' = memo)
    BY <2>1, <2>2, KeptListed DEF ListedInv
  <2>3. CASE relayed' = relayOn /\ memo' = [memo EXCEPT !.listed = "none"]
    BY <2>1, <2>3, Relisted DEF ListedInv, Answers
  <2> QED BY <1>5, <2>2, <2>3 DEF Expire
<1>6. CASE Change
  BY <1>6 DEF Change, ListedInv, OutgoingShape
<1>7. CASE Crash
  BY <1>7, KeptListed DEF Crash, Surroundings, ListedInv
<1>8. ASSUME UNCHANGED <<memo, relayOn, relayed>> PROVE ListedInv'
  BY <1>8 DEF ListedInv
<1>9. ASSUME NEW e \in UserMessages, NEW kind \in Kinds, Begin(e, kind) PROVE ListedInv'
  BY <1>8, <1>9 DEF Begin, Surroundings
<1>10. CASE Record \/ Hide \/ SaveRows \/ Unsend \/ Removed \/ Track \/ Handle
  BY <1>8, <1>10 DEF Record, Hide, SaveRows, Unsend, Removed, Track, Handle, Surroundings
<1>11. ASSUME NEW w \in bridged, Redact(w) PROVE ListedInv'
  BY <1>8, <1>11 DEF Redact, Surroundings
<1>12. ASSUME NEW r \in Reactions, ReactionEcho(r) PROVE ListedInv'
  BY <1>8, <1>12 DEF ReactionEcho
<1>13. ASSUME NEW x \in Incoming, (\E sms \in BOOLEAN : Arrives(x, sms)) \/ Retract(x) PROVE ListedInv'
  BY <1>8, <1>13 DEF Arrives, Retract, Surroundings
<1>14. ASSUME NEW p \in Pieces, UnsendArrives(p) PROVE ListedInv'
  BY <1>8, <1>14 DEF UnsendArrives
<1>15. CASE UNCHANGED outgoingVars
  BY <1>8, <1>15 DEF outgoingVars
<1> QED BY <1>1, <1>2, <1>3, <1>4, <1>5, <1>6, <1>7, <1>9, <1>10, <1>11, <1>12, <1>13, <1>14, <1>15
        DEF OutgoingNext

(* The pieces of a row of the user's own event. *)
LEMMA RowPieces ==
  ASSUME RowsInv, NEW w \in bridged, w.ev \in OwnEvents
  PROVE  /\ w.ev[1] \in UserMessages /\ OwnRow(w)
         /\ PiecesOf(w) = IF Apart(w.ev[1]) THEN {w.id} ELSE {<<w.ev[1], 1>>, <<w.ev[1], 2>>}
         /\ PiecesOf(w) \subseteq {<<w.ev[1], 1>>, <<w.ev[1], 2>>} /\ PiecesOf(w) \subseteq Pieces
         /\ w.id \in {<<w.ev[1], 1>>, <<w.ev[1], 2>>} /\ w.id \in Pieces
<1>1. OwnRow(w)
  BY DEF RowsInv
<1>2. PICK e \in UserMessages : e = w.ev[1]
  BY DEF OwnEvents
<1>3. PiecesOf(w) = IF Apart(e) THEN {w.id} ELSE {<<e, 1>>, <<e, 2>>}
  BY <1>2, TwoPieces DEF PiecesOf, Apart
<1>4. w.id \in {<<e, 1>>, <<e, 2>>}
  BY <1>1, <1>2 DEF OwnRow
<1>5. <<e, 1>> \in Pieces /\ <<e, 2>> \in Pieces
  BY TwoPieces
<1>6. PiecesOf(w) \subseteq {<<e, 1>>, <<e, 2>>} /\ PiecesOf(w) \subseteq Pieces
  BY <1>3, <1>4, <1>5
<1> QED BY <1>1, <1>2, <1>3, <1>4, <1>5, <1>6

(* NoSilentLoss, piece by piece. *)
LEMMA LossOfPieces ==
  /\ NoSilentLoss <=> \A e \in UserMessages, k \in {1, 2} :
       result[e] = "sent" /\ (k = 1 \/ stored[<<e, k>>] # "none") => Known(<<e, k>>)
  /\ NoSilentLoss' <=> \A e \in UserMessages, k \in {1, 2} :
       result'[e] = "sent" /\ (k = 1 \/ stored'[<<e, k>>] # "none") => Known(<<e, k>>)'
<1>1. \A e, k : <<e, k>>[2] = k
  OBVIOUS
<1>2. ASSUME NEW e \in UserMessages
      PROVE  /\ (\A p \in {e} \X {1, 2} :
                  (p[2] = 1 \/ stored[p] # "none") /\ phone[p] = "none" => <<p, "stale">> \in excused)
                <=> \A k \in {1, 2} : k = 1 \/ stored[<<e, k>>] # "none" => Known(<<e, k>>)
             /\ (\A p \in {e} \X {1, 2} :
                  (p[2] = 1 \/ stored'[p] # "none") /\ phone'[p] = "none" => <<p, "stale">> \in excused')
                <=> \A k \in {1, 2} : k = 1 \/ stored'[<<e, k>>] # "none" => Known(<<e, k>>)'
  <2>1. \A p \in {e} \X {1, 2} : \E k \in {1, 2} : p = <<e, k>> /\ p[2] = k
    OBVIOUS
  <2>2. \A k \in {1, 2} : <<e, k>> \in {e} \X {1, 2}
    OBVIOUS
  <2> QED BY <2>1, <2>2, <1>1 DEF Known
<1> QED BY <1>2 DEF NoSilentLoss

(* A step beside the worker: a piece is unsent at most, and no event's      *)
(* result or row changes.                                                   *)
LEMMA Beside ==
  ASSUME OutgoingShape, SentInv, result' = result, bridged' = bridged, excused \subseteq excused',
         job' = job \/ (job.at \notin SendStages \cup {"unsend"} /\ job'.at \notin SendStages \cup {"unsend"}),
         \A e \in UserMessages : Apart(e)' <=> Apart(e),
         \A p \in Pieces : /\ phone'[p] = phone[p] \/ (phone[p] = "imessage" /\ phone'[p] = "unsent")
                           /\ stored'[p] = stored[p] \/ (stored'[p] = "dead" /\ phone'[p] = "unsent")
  PROVE  SentInv'
<1>1. \A e \in UserMessages : <<e, 1>> \in Pieces /\ <<e, 2>> \in Pieces
  BY TwoPieces
<1>2. ASSUME NEW p \in Pieces
      PROVE  /\ Clear(p) => Clear(p)'
             /\ Gone(p) => Gone(p)'
             /\ Known(p) => Known(p)'
             /\ Loose(p) => Loose(p)'
             /\ Untouched(p) => Untouched(p)'
  BY DEF Clear, Gone, Known, Loose, Untouched
<1>3. UnsentInv'
  <2>1. \A e \in UserMessages : (job'.at \in SendStages /\ job'.e = e) <=> (job.at \in SendStages /\ job.e = e)
    OBVIOUS
  <2>2. ASSUME NEW e \in UserMessages, result'[e] = "none", ~(job'.at \in SendStages /\ job'.e = e)
        PROVE  Untouched(<<e, 1>>)' /\ Untouched(<<e, 2>>)' /\ ~Apart(e)'
    <3>1. Untouched(<<e, 1>>) /\ Untouched(<<e, 2>>) /\ ~Apart(e)
      BY <2>1, <2>2 DEF SentInv, UnsentInv
    <3> QED BY <3>1, <1>1, <1>2
  <2> QED BY <2>2 DEF SentInv, UnsentInv
<1>4. StageInv'
  <2> SUFFICES ASSUME job'.at \in SendStages PROVE StageInv'
    BY DEF StageInv
  <2>1. job' = job
    OBVIOUS
  <2>2. job.e \in UserMessages
    BY <2>1, SendingJob DEF SendJobs
  <2> DEFINE a == <<job.e, 1>>
             b == <<job.e, 2>>
  <2>3. /\ (Untouched(a) => Untouched(a)') /\ (Untouched(b) => Untouched(b)') /\ (Loose(b) => Loose(b)')
        /\ (Known(a) => Known(a)') /\ (Known(b) => Known(b)') /\ (Apart(job.e)' <=> Apart(job.e))
    BY <2>2, <1>1, <1>2
  <2> QED BY <2>1, <2>3 DEF SentInv, StageInv
<1>5. RowsInv'
  <2>1. ASSUME NEW w \in bridged, w.ev \in OwnEvents PROVE OwnRow(w)'
    <3>1. w.ev[1] \in UserMessages /\ OwnRow(w)
      BY <2>1, RowPieces DEF SentInv
    <3> DEFINE a == <<w.ev[1], 1>>
               b == <<w.ev[1], 2>>
    <3>2. /\ (Clear(b) => Clear(b)') /\ (Known(a) => Known(a)') /\ (Known(b) => Known(b)')
          /\ (Apart(w.ev[1])' <=> Apart(w.ev[1]))
      BY <3>1, <1>1, <1>2
    <3> QED BY <3>1, <3>2 DEF OwnRow
  <2> QED BY <2>1 DEF SentInv, RowsInv
<1>6. ASSUME NEW w \in bridged, w.ev \in OwnEvents
      PROVE  PiecesOf(w)' = PiecesOf(w) /\ PiecesOf(w) \subseteq Pieces /\ w.id \in Pieces
  <2>1. w.ev[1] \in UserMessages /\ PiecesOf(w) \subseteq Pieces /\ w.id \in Pieces
    BY <1>6, RowPieces DEF SentInv
  <2> QED BY <2>1 DEF PiecesOf, Apart
<1>7. UnsendInv'
  <2> SUFFICES ASSUME job'.at = "unsend" PROVE UnsendInv'
    BY DEF UnsendInv
  <2>1. job' = job /\ job.ev \in OwnEvents /\ job.id \in Pieces /\ job.left \in Seq(Pieces)
    BY UnsendingJob DEF UnsendJobs
  <2>2. ASSUME NEW w \in bridged, w.ev = job.ev, NEW p \in PiecesOf(w)'
        PROVE  Clear(p)' \/ \E n \in DOMAIN job.left : job.left[n] = p
    <3>1. p \in PiecesOf(w) /\ p \in Pieces
      BY <2>1, <2>2, <1>6
    <3> QED BY <3>1, <2>1, <2>2, <1>2 DEF SentInv, UnsendInv
  <2>3. ASSUME NEW n \in DOMAIN job.left PROVE Known(job.left[n])'
    <3>1. job.left[n] \in Pieces
      BY <2>1, ElementOfSeq, LenProperties
    <3> QED BY <3>1, <2>1, <1>2 DEF SentInv, UnsendInv
  <2>4. Gone(job.id) => Gone(job.id)'
    BY <2>1, <1>2
  <2> HIDE DEF Gone
  <2> QED BY <2>1, <2>2, <2>3, <2>4 DEF SentInv, UnsendInv
<1>8. EveryPieceRecalled'
  <2> SUFFICES ASSUME NEW w \in bridged, w.ev \in OwnEvents, result[w.ev] = "removed"
               PROVE  Gone(w.id)' /\ \A p \in PiecesOf(w)' : Clear(p)'
    BY DEF EveryPieceRecalled, Clear, Gone, OwnEvents
  <2>1. Gone(w.id) /\ \A p \in PiecesOf(w) : Clear(p)
    BY DEF SentInv, EveryPieceRecalled, Clear, Gone, OwnEvents
  <2> QED BY <2>1, <1>2, <1>6
<1>9. NoSilentLoss'
  <2> SUFFICES ASSUME NEW e \in UserMessages, result[e] = "sent", NEW k \in {1, 2},
                      k = 1 \/ stored'[<<e, k>>] # "none"
               PROVE  Known(<<e, k>>)'
    BY LossOfPieces DEF SentInv
  <2>1. <<e, k>> \in Pieces
    BY <1>1
  <2>2. CASE k = 1 \/ stored[<<e, k>>] # "none"
    <3>1. Known(<<e, k>>)
      BY <2>2, LossOfPieces DEF SentInv
    <3> QED BY <2>1, <3>1, <1>2
  <2>3. CASE stored[<<e, k>>] = "none"
    <3>1. k = 1 \/ phone'[<<e, k>>] = "unsent"
      BY <2>1, <2>3
    <3> QED BY <2>2, <3>1 DEF Known
  <2> QED BY <2>2, <2>3
<1> QED BY <1>3, <1>4, <1>5, <1>7, <1>8, <1>9 DEF SentInv

(* A step of the job that sends e: nothing but e's pieces, tags and result  *)
(* change, and e is not told as sent.                                      *)
LEMMA Sending ==
  ASSUME OutgoingShape, SentInv, NEW e \in UserMessages, result[e] = "none", bridged' = bridged,
         excused \subseteq excused', result'[e] # "sent",
         job = NoJob \/ (job.at \in SendStages /\ job.e = e), job'.at # "unsend",
         job'.at \in SendStages => job'.e = e,
         result'[e] # "none" \/ job'.at \in SendStages,
         \A v \in (UserMessages \cup OwnEvents) \ {e} : result'[v] = result[v],
         \A d \in UserMessages \ {e} : Apart(d)' <=> Apart(d),
         \A d \in UserMessages \ {e}, k \in {1, 2} :
           phone'[<<d, k>>] = phone[<<d, k>>] /\ stored'[<<d, k>>] = stored[<<d, k>>]
  PROVE  UnsentInv' /\ RowsInv' /\ UnsendInv' /\ EveryPieceRecalled' /\ NoSilentLoss'
<1>1. ASSUME NEW d \in UserMessages, d # e, NEW k \in {1, 2}
      PROVE  /\ Untouched(<<d, k>>)' <=> Untouched(<<d, k>>)
             /\ Clear(<<d, k>>) => Clear(<<d, k>>)'
             /\ Known(<<d, k>>) => Known(<<d, k>>)'
             /\ Gone(<<d, k>>) => Gone(<<d, k>>)'
  BY <1>1 DEF Untouched, Clear, Known, Gone
<1>2. \A v \in OwnEvents : result'[v] = result[v]
  BY SortsApart
<1>3. UnsentInv'
  <2>1. ASSUME NEW d \in UserMessages, result'[d] = "none", ~(job'.at \in SendStages /\ job'.e = d)
        PROVE  Untouched(<<d, 1>>)' /\ Untouched(<<d, 2>>)' /\ ~Apart(d)'
    <3>1. d # e /\ result[d] = "none"
      BY <2>1
    <3>2. ~(job.at \in SendStages /\ job.e = d)
      BY <3>1 DEF NoJob, SendStages
    <3>3. Untouched(<<d, 1>>) /\ Untouched(<<d, 2>>) /\ ~Apart(d)
      BY <3>1, <3>2 DEF SentInv, UnsentInv
    <3> QED BY <3>1, <3>3, <1>1
  <2>2. ASSUME NEW v \in OwnEvents, result'[v] # "none" PROVE result'[v[1]] = "sent"
    <3>1. result[v[1]] = "sent" /\ v[1] \in UserMessages
      BY <2>2, <1>2 DEF SentInv, UnsentInv, OwnEvents
    <3> QED BY <3>1
  <2> QED BY <2>1, <2>2 DEF UnsentInv
<1>4. ASSUME NEW w \in bridged, w.ev \in OwnEvents
      PROVE  /\ OwnRow(w)' /\ PiecesOf(w)' = PiecesOf(w) /\ (Gone(w.id) => Gone(w.id)')
             /\ \A p \in PiecesOf(w) : Clear(p) => Clear(p)'
  <2>1. /\ w.ev[1] \in UserMessages /\ OwnRow(w) /\ PiecesOf(w) \subseteq {<<w.ev[1], 1>>, <<w.ev[1], 2>>}
        /\ w.id \in {<<w.ev[1], 1>>, <<w.ev[1], 2>>}
    BY <1>4, RowPieces DEF SentInv
  <2>2. w.ev[1] # e /\ result'[w.ev[1]] = "sent"
    BY <2>1 DEF OwnRow
  <2>3. Apart(w.ev[1])' <=> Apart(w.ev[1])
    BY <2>1, <2>2
  <2>4. \A k \in {1, 2} : /\ Clear(<<w.ev[1], k>>) => Clear(<<w.ev[1], k>>)'
                          /\ Known(<<w.ev[1], k>>) => Known(<<w.ev[1], k>>)'
                          /\ Gone(<<w.ev[1], k>>) => Gone(<<w.ev[1], k>>)'
    BY <2>1, <2>2, <1>1
  <2>5. OwnRow(w)'
    BY <2>1, <2>2, <2>3, <2>4 DEF OwnRow
  <2>6. PiecesOf(w)' = PiecesOf(w)
    BY <2>3 DEF PiecesOf, Apart
  <2>7. ASSUME NEW p \in PiecesOf(w), Clear(p) PROVE Clear(p)'
    BY <2>7, <2>1, <2>4
  <2>8. Gone(w.id) => Gone(w.id)'
    BY <2>1, <2>4
  <2> QED BY <2>5, <2>6, <2>7, <2>8
<1>5. RowsInv'
  BY <1>4 DEF SentInv, RowsInv
<1>6. UnsendInv'
  BY DEF UnsendInv
<1>7. EveryPieceRecalled'
  <2> SUFFICES ASSUME NEW w \in bridged, w.ev \in OwnEvents, result'[w.ev] = "removed"
               PROVE  Gone(w.id)' /\ \A p \in PiecesOf(w)' : Clear(p)'
    BY DEF EveryPieceRecalled, Clear, Gone, OwnEvents
  <2>1. PiecesOf(w)' = PiecesOf(w) /\ result[w.ev] = "removed"
    BY <1>2, <1>4
  <2>2. Gone(w.id) /\ \A p \in PiecesOf(w) : Clear(p)
    BY <2>1 DEF SentInv, EveryPieceRecalled, Clear, Gone, OwnEvents
  <2> QED BY <2>1, <2>2, <1>4
<1>8. NoSilentLoss'
  <2> SUFFICES ASSUME NEW d \in UserMessages, result'[d] = "sent", NEW k \in {1, 2},
                      k = 1 \/ stored'[<<d, k>>] # "none"
               PROVE  Known(<<d, k>>)'
    BY LossOfPieces
  <2>1. d # e
    OBVIOUS
  <2>2. result[d] = "sent" /\ stored'[<<d, k>>] = stored[<<d, k>>]
    BY <2>1
  <2>3. Known(<<d, k>>)
    BY <2>2, LossOfPieces DEF SentInv
  <2> QED BY <2>1, <2>3, <1>1
<1> QED BY <1>3, <1>5, <1>6, <1>7, <1>8

(* The job that sends, before its step. *)
LEMMA SendingStage ==
  ASSUME OutgoingShape, SentInv, job.at \in SendStages
  PROVE  /\ job \in SendJobs /\ job.e \in UserMessages /\ result[job.e] = "none" /\ job # NoJob
         /\ <<job.e, 1>> \in Pieces /\ <<job.e, 2>> \in Pieces /\ job.i \in {1, 2}
         /\ \A d \in UserMessages \ {job.e}, k, n \in {1, 2} : <<d, k>> # <<job.e, n>>
<1>1. job \in SendJobs /\ job.e \in UserMessages /\ job.i \in {1, 2}
  BY SendingJob DEF SendJobs
<1>2. result[job.e] = "none"
  BY DEF SentInv, StageInv
<1>3. job # NoJob
  BY DEF NoJob, SendStages
<1> QED BY <1>1, <1>2, <1>3, TwoPieces

LEMMA BeginSent ==
  ASSUME OutgoingShape, SentInv, NEW e \in UserMessages, NEW kind \in Kinds, Begin(e, kind)
  PROVE  SentInv'
<1> DEFINE j == [at |-> "route", e |-> e, kind |-> kind, sms |-> flag, i |-> 1,
                 sent |-> {}, puppet |-> FALSE]
<1>1. /\ job = NoJob /\ result[e] = "none" /\ job' = j /\ bridged' = bridged /\ result' = result
      /\ phone' = phone /\ stored' = stored /\ excused' = excused
  BY DEF Begin, Surroundings, Tracking
<1>2. j.at = "route" /\ j.e = e /\ j.sent = {} /\ j.puppet = FALSE /\ j.i = 1
  OBVIOUS
<1> HIDE DEF j
<1>3. UnsentInv' /\ RowsInv' /\ UnsendInv' /\ EveryPieceRecalled' /\ NoSilentLoss'
  <2>1. (\A d \in UserMessages : Apart(d)' <=> Apart(d)) /\ "route" \in SendStages
    BY <1>1 DEF Apart, SendStages
  <2> QED BY <1>1, <1>2, <2>1, Sending
<1>4. StageInv'
  <2>1. Untouched(<<e, 1>>)' /\ Untouched(<<e, 2>>)' /\ ~Apart(e)'
    <3>1. Untouched(<<e, 1>>) /\ Untouched(<<e, 2>>) /\ ~Apart(e)
      <4>1. job.at \notin SendStages
        BY <1>1 DEF NoJob, SendStages
      <4> QED BY <4>1, <1>1 DEF SentInv, UnsentInv
    <3> QED BY <3>1, <1>1 DEF Untouched, Apart
  <2> QED BY <2>1, <1>1, <1>2 DEF StageInv, Loose, Untouched
<1> QED BY <1>3, <1>4 DEF SentInv

LEMMA RouteSent == ASSUME OutgoingShape, SentInv, Route PROVE SentInv'
<1>1. /\ job.at = "route" /\ bridged' = bridged /\ result' = result
      /\ phone' = phone /\ stored' = stored /\ excused' = excused
  BY DEF Route
<1>2. job \in SendJobs /\ job.e \in UserMessages /\ result[job.e] = "none" /\ job.at \in SendStages
  BY <1>1, SendingStage DEF SendStages
<1>3. /\ job'.at = "relay" /\ job'.e = job.e /\ job'.sent = job.sent /\ job'.puppet = job.puppet
      /\ job'.i = job.i
  BY <1>2 DEF Route, SendJobs
<1>4. UnsentInv' /\ RowsInv' /\ UnsendInv' /\ EveryPieceRecalled' /\ NoSilentLoss'
  <2>1. (\A d \in UserMessages : Apart(d)' <=> Apart(d)) /\ "relay" \in SendStages
    BY <1>1 DEF Apart, SendStages
  <2> QED BY <1>1, <1>2, <1>3, <2>1, Sending
<1>5. StageInv'
  BY <1>1, <1>2, <1>3 DEF SentInv, StageInv, Apart, Untouched, Loose, Known
<1> QED BY <1>4, <1>5 DEF SentInv

LEMMA RelaySent == ASSUME OutgoingShape, SentInv, Relay PROVE SentInv'
<1>1. /\ job.at = "relay" /\ bridged' = bridged /\ phone' = phone /\ stored' = stored
      /\ excused' = excused
  BY DEF Relay
<1>2. job \in SendJobs /\ job.e \in UserMessages /\ result[job.e] = "none" /\ job.at \in SendStages
  BY <1>1, SendingStage DEF SendStages
<1>3. \/ job' = [job EXCEPT !.at = "send"] /\ result' = result
      \/ job' = NoJob /\ result' = [result EXCEPT ![job.e] = "refused"]
  BY DEF Relay
<1>4. \A d \in UserMessages : Apart(d)' <=> Apart(d)
  BY <1>1 DEF Apart
<1>5. job' = [job EXCEPT !.at = "send"] => /\ job'.at = "send" /\ job'.e = job.e /\ job'.sent = job.sent
                                           /\ job'.puppet = job.puppet /\ job'.i = job.i /\ job'.sms = job.sms
  BY <1>2 DEF SendJobs
<1>6. UnsentInv' /\ RowsInv' /\ UnsendInv' /\ EveryPieceRecalled' /\ NoSilentLoss'
  <2>1. job' # NoJob => job'.at \in SendStages /\ job'.e = job.e
    BY <1>3, <1>5 DEF SendStages
  <2>2. NoJob.at \notin SendStages /\ NoJob.at # "unsend" /\ "unsend" \notin SendStages
    BY DEF NoJob, SendStages
  <2>3. /\ result'[job.e] # "sent" /\ (result'[job.e] # "none" \/ job'.at \in SendStages)
        /\ \A v \in (UserMessages \cup OwnEvents) \ {job.e} : result'[v] = result[v]
    BY <1>2, <1>3, <1>5 DEF OutgoingShape, SendStages
  <2> QED BY <1>1, <1>2, <1>4, <2>1, <2>2, <2>3, Sending
<1>7. StageInv'
  <2> SUFFICES ASSUME job' # NoJob PROVE StageInv'
    BY DEF StageInv, NoJob, SendStages
  <2>1. job' = [job EXCEPT !.at = "send"] /\ result' = result
    BY <1>3
  <2>2. /\ job'.at = "send" /\ job'.e = job.e /\ job'.sent = job.sent /\ job'.puppet = job.puppet
        /\ job'.i = job.i /\ job'.sms = job.sms
    BY <2>1, <1>5
  <2>3. /\ Untouched(<<job.e, 1>>)' <=> Untouched(<<job.e, 1>>)
        /\ Untouched(<<job.e, 2>>)' <=> Untouched(<<job.e, 2>>)
        /\ Loose(<<job.e, 2>>)' <=> Loose(<<job.e, 2>>)
        /\ Apart(job.e)' <=> Apart(job.e)
    BY <1>1, <1>2, <2>2 DEF Untouched, Apart, Loose
  <2> QED BY <1>1, <1>2, <2>1, <2>2, <2>3 DEF SentInv, StageInv
<1> QED BY <1>6, <1>7 DEF SentInv

(* A text message is sent only by a relay the native side has listed: one  *)
(* that went away since is the stale list's doing.                         *)
LEMMA SendPieceSent == ASSUME OutgoingShape, ListedInv, SentInv, SendPiece PROVE SentInv'
<1>0. PICK e \in UserMessages, i \in {1, 2} : e = job.e /\ i = job.i
  BY SendingStage DEF SendPiece, SendStages
<1> DEFINE a == <<e, 1>>
           b == <<e, 2>>
           p == <<e, i>>
<1>1. /\ job.at = "send" /\ bridged' = bridged /\ stored' = stored
      /\ excused \subseteq excused' /\ excused' \subseteq excused \cup {<<p, "stale">>}
  BY <1>0 DEF SendPiece
<1>2. /\ job \in SendJobs /\ e \in UserMessages /\ result[e] = "none" /\ job.at \in SendStages
      /\ a \in Pieces /\ b \in Pieces /\ a # b /\ i \in {1, 2} /\ p \in {a, b}
      /\ \A d \in UserMessages \ {e}, k \in {1, 2} : <<d, k>> # p
  BY <1>0, <1>1, SendingStage DEF SendStages
<1>3. \A d \in UserMessages : Apart(d)' <=> Apart(d)
  BY <1>1 DEF Apart
<1>4. phone \in [Pieces -> {"none", "imessage", "sms", "unsent"}] /\ result \in [UserMessages \cup OwnEvents -> Results]
  BY DEF OutgoingShape
<1>5. /\ job.sent = (IF i = 1 THEN {} ELSE {a}) /\ (job.puppet <=> Apart(e)) /\ ~job.puppet
      /\ (a \notin job.sent => Untouched(a)) /\ Untouched(b) /\ (a \in job.sent => Known(a))
  BY <1>0, <1>1, <1>2 DEF SentInv, StageInv
<1>6. PICK ok \in BOOLEAN, failed \in BOOLEAN, timedOut \in BOOLEAN, landed \in BOOLEAN, list \in Answers :
        /\ Permitted(ok, list, failed)
        /\ ok /\ ~timedOut => landed = (Carried # "none")
        /\ phone' = IF landed THEN [phone EXCEPT ![p] = Carried] ELSE phone
        /\ IF ok /\ ~timedOut
           THEN job' = [job EXCEPT !.at = "record", !.sent = @ \cup {p}] /\ result' = result
           ELSE IF i = 1 THEN job' = NoJob /\ result' = [result EXCEPT ![e] = "refused"]
           ELSE job' = [job EXCEPT !.at = "save"] /\ result' = result
        /\ excused' = IF ok /\ job.sms /\ relayed /\ ~relayOn
                      THEN excused \cup {<<p, "stale">>} ELSE excused
  BY <1>0 DEF SendPiece
<1>7. \A q \in Pieces : q # p => phone'[q] = phone[q]
  BY <1>4, <1>6
<1>8. \A d \in UserMessages \ {e}, k \in {1, 2} :
        phone'[<<d, k>>] = phone[<<d, k>>] /\ stored'[<<d, k>>] = stored[<<d, k>>]
  BY <1>1, <1>2, <1>7, TwoPieces
<1>9. Known(a) => Known(a)' \/ p = a
  BY <1>1, <1>2, <1>7 DEF Known
<1>10. CASE ok /\ ~timedOut
  <2>1. /\ job'.at = "record" /\ job'.e = e /\ job'.sent = job.sent \cup {p}
        /\ job'.puppet = job.puppet /\ job'.i = i /\ result' = result
    BY <1>0, <1>2, <1>6, <1>10 DEF SendJobs
  <2>2. UnsentInv' /\ RowsInv' /\ UnsendInv' /\ EveryPieceRecalled' /\ NoSilentLoss'
    <3> HIDE DEF p
    <3> QED BY <1>1, <1>0, <1>2, <1>3, <2>1, <1>8, Sending DEF SendStages
  <2>3. job'.sent = (IF i = 1 THEN {a} ELSE {a, b})
    BY <1>2, <2>1, <1>5
  <2>4. i = 1 => Untouched(b)'
    <3> SUFFICES ASSUME i = 1 PROVE Untouched(b)'
      OBVIOUS
    <3>1. phone'[b] = "none" /\ stored'[b] = "none"
      BY <1>5, <1>7, <1>1, <1>2 DEF Untouched
    <3> QED BY <3>1, <2>1 DEF Untouched
  <2>5. \A q \in Pieces : q = p => Known(q)'
    <3>1. CASE Carried # "none"
      <4>1. phone'[p] = Carried
        BY <3>1, <1>2, <1>4, <1>6, <1>10
      <4> QED BY <3>1, <4>1 DEF Known
    <3>2. CASE Carried = "none"
      <4>1. job.sms /\ ~relayOn
        BY <3>2 DEF Carried
      <4>2. relayed
        BY <1>6, <1>10, <4>1, RelayAnswers DEF Permitted
      <4>3. <<p, "stale">> \in excused'
        BY <1>6, <1>10, <4>1, <4>2
      <4> QED BY <4>3 DEF Known
    <3> QED BY <3>1, <3>2
  <2>6. Known(a)' /\ (i = 2 => Known(b)')
    BY <1>2, <1>5, <1>9, <2>5
  <2>7. Apart(e)' <=> Apart(e)
    BY <1>2, <1>1, <2>1 DEF Apart
  <2>8. StageInv'
    <3>1. b \notin job'.sent => Untouched(b)' /\ Loose(b)'
      BY <2>3, <2>4, <1>2 DEF Untouched, Loose
    <3>2. b \in job'.sent => i = 2
      BY <2>3, <1>2
    <3>3. /\ job'.at = "record" /\ (job'.sent = IF job'.i = 1 THEN {a} ELSE {a, b}) /\ ~job'.puppet
          /\ job'.e = e /\ a \in job'.sent /\ job'.sent \subseteq {a, b} /\ result'[e] = "none" /\ ~Apart(e)'
      BY <1>2, <2>1, <1>5, <2>3, <2>7
    <3>4. Known(a)' /\ (b \in job'.sent => Known(b)')
      BY <2>6, <3>2
    <3> HIDE DEF p
    <3> QED BY <3>1, <3>3, <3>4 DEF StageInv, SendStages, Apart, Untouched, Loose, Known
  <2> QED BY <2>2, <2>8 DEF SentInv
<1>11. CASE ~(ok /\ ~timedOut)
  <2>1. job' # NoJob => /\ job'.at = "save" /\ job'.e = e /\ job'.sent = job.sent
                        /\ job'.puppet = job.puppet /\ job'.i = i /\ i = 2 /\ result' = result
    BY <1>0, <1>2, <1>6, <1>11 DEF SendJobs
  <2>2. NoJob.at \notin SendStages /\ NoJob.at # "unsend" /\ "save" \in SendStages
    BY DEF NoJob, SendStages
  <2>3. UnsentInv' /\ RowsInv' /\ UnsendInv' /\ EveryPieceRecalled' /\ NoSilentLoss'
    <3>1. /\ result'[e] # "sent" /\ (result'[e] # "none" \/ job' # NoJob)
          /\ \A v \in (UserMessages \cup OwnEvents) \ {e} : result'[v] = result[v]
      BY <1>2, <1>4, <1>6, <1>11 DEF NoJob, SendJobs
    <3> HIDE DEF p
    <3> QED BY <1>1, <1>2, <1>0, <1>3, <2>1, <2>2, <3>1, <1>8, Sending
  <2>4. StageInv'
    <3> SUFFICES ASSUME job' # NoJob PROVE StageInv'
      BY <2>2 DEF StageInv
    <3>1. p = b /\ a \in job.sent /\ b \notin job.sent
      BY <2>1, <1>2, <1>5
    <3>2. Loose(b)' /\ Known(a)'
      BY <3>1, <1>1, <1>2, <1>5, <1>9 DEF Untouched, Loose
    <3>3. Apart(e)' <=> Apart(e)
      BY <1>2, <1>1, <2>1 DEF Apart
    <3> HIDE DEF p
    <3> QED BY <1>2, <1>5, <2>1, <3>1, <3>2, <3>3
            DEF StageInv, SendStages, Apart, Untouched, Loose, Known
  <2> QED BY <2>3, <2>4 DEF SentInv
<1> QED BY <1>10, <1>11

LEMMA RecordSent == ASSUME OutgoingShape, SentInv, Record PROVE SentInv'
<1>0. PICK e \in UserMessages, i \in {1, 2} : e = job.e /\ i = job.i
  BY SendingStage DEF Record, SendStages
<1> DEFINE a == <<e, 1>>
           b == <<e, 2>>
           p == <<e, i>>
<1>1. /\ job.at = "record" /\ bridged' = bridged /\ phone' = phone /\ result' = result
      /\ stored' = [stored EXCEPT ![p] = IF @ = "none" THEN "live" ELSE @]
      /\ excused \subseteq excused' /\ excused' \subseteq excused \cup {<<e, "apart">>}
  BY <1>0 DEF Record
<1>2. /\ job \in SendJobs /\ e \in UserMessages /\ result[e] = "none" /\ job.at \in SendStages
      /\ a \in Pieces /\ b \in Pieces /\ a # b /\ i \in {1, 2} /\ p \in {a, b}
      /\ \A d \in UserMessages \ {e}, k \in {1, 2} : <<d, k>> # p
  BY <1>0, <1>1, SendingStage DEF SendStages
<1>3. PICK puppet \in BOOLEAN :
        /\ job' = [job EXCEPT !.at = IF job.kind = "long" /\ i = 2 THEN "hide"
                                   ELSE IF i = Count THEN "save" ELSE "send",
                             !.i = IF i = Count THEN @ ELSE @ + 1, !.puppet = puppet]
        /\ excused' = IF puppet THEN excused \cup {<<e, "apart">>} ELSE excused
        /\ puppet => job.kind = "captioned" /\ i = 2
  BY <1>0 DEF Record
<1>4. /\ job'.at = IF job.kind = "long" /\ i = 2 THEN "hide"
                   ELSE IF i = Count THEN "save" ELSE "send"
      /\ job'.i = (IF i = Count THEN i ELSE i + 1) /\ job'.puppet = puppet
      /\ job'.e = e /\ job'.sent = job.sent /\ job'.sms = job.sms /\ job'.kind = job.kind
  BY <1>0, <1>2, <1>3 DEF SendJobs
<1>5. \A d \in UserMessages \ {e} : Apart(d)' <=> Apart(d)
  BY <1>1 DEF Apart
<1>6. UnsentInv' /\ RowsInv' /\ UnsendInv' /\ EveryPieceRecalled' /\ NoSilentLoss'
  <2>1. \A d \in UserMessages \ {e}, k \in {1, 2} :
          phone'[<<d, k>>] = phone[<<d, k>>] /\ stored'[<<d, k>>] = stored[<<d, k>>]
    <3>1. \A d \in UserMessages, k \in {1, 2} : <<d, k>> \in Ids
      BY TwoPieces
    <3>2. \A q \in Ids : q # p => stored'[q] = stored[q]
      BY <1>1 DEF OutgoingShape
    <3> HIDE DEF p
    <3> QED BY <3>1, <3>2, <1>1, <1>2
  <2>2. job'.at \in SendStages /\ job'.at # "unsend"
    BY <1>4 DEF SendStages
  <2> HIDE DEF p
  <2> QED BY <1>1, <1>2, <1>4, <1>0, <1>5, <2>1, <2>2, Sending
<1>7. /\ job.sent = (IF i = 1 THEN {a} ELSE {a, b}) /\ (job.puppet <=> Apart(e)) /\ ~job.puppet
      /\ (b \notin job.sent => Untouched(b)) /\ Known(a) /\ (b \in job.sent => Known(b))
  BY <1>0, <1>1, <1>2 DEF SentInv, StageInv
<1>8. /\ i = 1 => job.sent = {a} /\ job'.at \in {"send", "save"} /\ (job'.at = "send" => job'.i = 2)
      /\ i = 2 => job.sent = {a, b} /\ job'.at \in {"hide", "save"}
  <2>1. i = 2 => Count = 2
    BY <1>0, <1>2 DEF SendJobs, Count
  <2> QED BY <1>2, <1>4, <1>7, <2>1
<1>9. puppet <=> Apart(e)'
  BY <1>3, <1>4, <1>7 DEF Apart
<1>10. puppet => job'.at = "save" /\ i = 2 /\ job'.kind = "captioned"
  BY <1>3, <1>4, <1>8, <1>2
<1>11. b \notin job.sent => phone'[b] = "none" /\ stored'[b] = "none"
  <2> SUFFICES ASSUME b \notin job.sent PROVE phone'[b] = "none" /\ stored'[b] = "none"
    OBVIOUS
  <2>1. b # p /\ Untouched(b) /\ b \in Ids
    BY <1>2, <1>7, SortsApart
  <2>2. stored'[b] = "none" /\ phone'[b] = "none"
    BY <2>1, <1>1 DEF Untouched, OutgoingShape
  <2> QED BY <2>2
<1>12. Known(a)' /\ (b \in job.sent => Known(b)')
  BY <1>1, <1>7 DEF Known
<1>13. StageInv'
  <2>1. job'.at \in {"send", "hide", "save"} /\ (job'.at = "send" => i = 1 /\ job'.i = 2)
        /\ (job'.at = "hide" => i = 2)
    BY <1>2, <1>8
  <2>2. b \notin job.sent => phone'[b] = "none" /\ stored'[b] = "none"
    BY <1>11
  <2> HIDE DEF p
  <2> QED BY <1>1, <1>2, <1>4, <1>7, <1>8, <1>9, <1>10, <1>12, <2>1, <2>2
          DEF StageInv, SendStages, Untouched, Apart, Loose, Known
<1> QED BY <1>6, <1>13 DEF SentInv

LEMMA HideSent == ASSUME OutgoingShape, SentInv, Hide PROVE SentInv'
<1>0. PICK e \in UserMessages : e = job.e
  BY SendingStage DEF Hide, SendStages
<1> DEFINE a == <<e, 1>>
           b == <<e, 2>>
<1>1. /\ job.at = "hide" /\ bridged' = bridged /\ phone' = phone /\ result' = result /\ excused' = excused
      /\ job' = [job EXCEPT !.at = "save"]
      /\ stored' = stored \/ stored' = [stored EXCEPT ![b] = "dead"]
  BY <1>0 DEF Hide
<1>2. /\ job \in SendJobs /\ e \in UserMessages /\ result[e] = "none" /\ job.at \in SendStages
      /\ a \in Pieces /\ b \in Pieces /\ a # b
      /\ \A d \in UserMessages \ {e}, k \in {1, 2} : <<d, k>> # b
  BY <1>0, <1>1, SendingStage DEF SendStages
<1>3. /\ job'.at = "save" /\ job'.e = e /\ job'.sent = job.sent
      /\ job'.puppet = job.puppet /\ job'.i = job.i /\ job'.sms = job.sms
  BY <1>0, <1>1, <1>2 DEF SendJobs
<1>4. UnsentInv' /\ RowsInv' /\ UnsendInv' /\ EveryPieceRecalled' /\ NoSilentLoss'
  <2>1. \A d \in UserMessages \ {e}, k \in {1, 2} :
          phone'[<<d, k>>] = phone[<<d, k>>] /\ stored'[<<d, k>>] = stored[<<d, k>>]
    <3>1. \A d \in UserMessages, k \in {1, 2} : <<d, k>> \in Ids
      BY TwoPieces
    <3>2. \A q \in Ids : q # b => stored'[q] = stored[q]
      BY <1>1 DEF OutgoingShape
    <3> HIDE DEF b
    <3> QED BY <3>1, <3>2, <1>1, <1>2
  <2>2. \A d \in UserMessages \ {e} : Apart(d)' <=> Apart(d)
    BY <1>1 DEF Apart
  <2> QED BY <1>1, <1>2, <1>0, <1>3, <2>1, <2>2, Sending DEF SendStages
<1>5. StageInv'
  <2>1. a \in job.sent /\ (job.puppet <=> Apart(e)) /\ ~job.puppet
    BY <1>0, <1>1, <1>2 DEF SentInv, StageInv
  <2>2. job.sent \subseteq {a, b} /\ Known(a)
    BY <1>0, <1>1, <1>2, <2>1 DEF SentInv, StageInv
  <2>3. b \in job.sent /\ Known(b)
    BY <1>0, <1>1, <1>2 DEF SentInv, StageInv
  <2>5. Known(a)' /\ Known(b)'
    BY <1>1, <2>2, <2>3 DEF Known
  <2>4. Apart(e)' <=> Apart(e)
    BY <1>1, <1>3 DEF Apart
  <2> QED BY <1>1, <1>2, <1>3, <2>1, <2>2, <2>3, <2>4, <2>5
          DEF StageInv, SendStages, Untouched, Apart, Known
<1> QED BY <1>4, <1>5 DEF SentInv

LEMMA SaveRowsSent == ASSUME OutgoingShape, SentInv, SaveRows PROVE SentInv'
<1> DEFINE e == job.e
           a == <<job.e, 1>>
           b == <<job.e, 2>>
           main == <<job.e, "main">>
           caption == <<job.e, "caption">>
<1>1. /\ job.at = "save" /\ phone' = phone /\ stored' = stored /\ excused' = excused
      /\ result' = [result EXCEPT ![e] = "sent"] /\ job' = NoJob
      /\ bridged \subseteq bridged' /\ bridged' \subseteq bridged \cup Metadata
  BY DEF SaveRows
<1>2. /\ job \in SendJobs /\ e \in UserMessages /\ result[e] = "none" /\ job.at \in SendStages
      /\ a \in Pieces /\ b \in Pieces /\ a # b
      /\ main \in OwnEvents /\ caption \in OwnEvents /\ main # caption
  BY <1>1, SendingStage, TwoPieces DEF SendStages
<1>3. /\ a \in job.sent /\ (b \notin job.sent => Loose(b)) /\ (job.puppet <=> Apart(e))
      /\ (job.puppet => job.kind = "captioned")
      /\ Known(a) /\ (b \in job.sent => Known(b))
  BY <1>1, <1>2 DEF SentInv, StageInv
<1>4. /\ result'[e] = "sent" /\ \A v \in OwnEvents : result'[v] = result[v]
      /\ \A d \in UserMessages : d # e => result'[d] = result[d]
  BY <1>1, <1>2, SortsApart DEF OutgoingShape
<1>5. \A w \in bridged : w.ev \in OwnEvents => w.ev[1] \in UserMessages /\ w.ev[1] # e
  BY <1>2, RowPieces DEF SentInv, OwnRow
<1>6. ASSUME NEW w \in Metadata
      PROVE  w.ev \in {main, caption} /\ w.ev[1] = e /\ OwnRow(w)' /\ \A v \in Metadata : w.ev = v.ev => w = v
  <2>1. \A d \in UserMessages : /\ (Apart(d)' <=> Apart(d)) /\ (Clear(<<d, 2>>)' <=> Clear(<<d, 2>>))
                                /\ \A k \in {1, 2} : Known(<<d, k>>)' <=> Known(<<d, k>>)
    BY <1>1 DEF Apart, Clear, Known
  <2>2. main[1] = e /\ caption[1] = e
    OBVIOUS
  <2>3. ASSUME w.ev \in {main, caption}, w.id = b \/ w.conts # <<>> => Known(b),
               \/ Apart(e) /\ w.id \in {a, b} /\ w.sibling = {} /\ w.conts = <<>>
               \/ ~Apart(e) /\ w.id = b /\ w.sibling = {a} /\ w.conts = <<>>
               \/ ~Apart(e) /\ w.id = a /\ w.sibling = {} /\ w.conts = <<b>>
               \/ ~Apart(e) /\ w.id = a /\ w.sibling = {} /\ w.conts = <<>> /\ Clear(b)
        PROVE  OwnRow(w)'
    <3>1. w.ev[1] = e
      BY <2>2, <2>3
    <3>2. <<w.ev[1], 1>> = a /\ <<w.ev[1], 2>> = b /\ result'[w.ev[1]] = "sent"
      BY <3>1, <1>4
    <3>3. /\ (Apart(w.ev[1])' <=> Apart(e)) /\ (Clear(<<w.ev[1], 2>>)' <=> Clear(b))
          /\ (Known(<<w.ev[1], 1>>)' <=> Known(a)) /\ (Known(<<w.ev[1], 2>>)' <=> Known(b))
      BY <3>1, <2>1, <1>2
    <3> HIDE DEF e, a, b, main, caption
    <3> QED BY <2>3, <3>2, <3>3, <1>3 DEF OwnRow
  <2>4. \A ev, id, sibling, conts :
          LET x == Row(ev, id, sibling, conts)
          IN x.ev = ev /\ x.id = id /\ x.sibling = sibling /\ x.conts = conts
    BY DEF Row
  <2>5. Loose(b) => Clear(b)
    BY DEF Loose, Clear
  <2>6. \/ /\ b \in job.sent /\ job.puppet
           /\ Metadata = {Row(main, a, {}, <<>>), Row(caption, b, {}, <<>>)}
        \/ b \in job.sent /\ ~job.puppet /\ Metadata = {Row(main, b, {a}, <<>>)}
        \/ b \in job.sent /\ ~job.puppet /\ Metadata = {Row(main, a, {}, <<b>>)}
        \/ b \notin job.sent /\ Metadata = {Row(main, a, {}, <<>>)}
    BY <1>2, <1>3, MetadataRows
  <2>7. b \notin job.sent => ~job.puppet
    BY <1>1, <1>2 DEF SentInv, StageInv
  <2> HIDE DEF e, a, b, main, caption
  <2>8. w.ev \in {main, caption} /\ \A v \in Metadata : w.ev = v.ev => w = v
    BY <2>4, <2>6, <1>2
  <2>9. \/ Apart(e) /\ w.id \in {a, b} /\ w.sibling = {} /\ w.conts = <<>>
        \/ ~Apart(e) /\ w.id = b /\ w.sibling = {a} /\ w.conts = <<>>
        \/ ~Apart(e) /\ w.id = a /\ w.sibling = {} /\ w.conts = <<b>>
        \/ ~Apart(e) /\ w.id = a /\ w.sibling = {} /\ w.conts = <<>> /\ Clear(b)
    BY <2>4, <2>5, <2>6, <2>7, <1>3
  <2>10. w.id = b \/ w.conts # <<>> => b \in job.sent
    BY <2>4, <2>6, <1>2
  <2> QED BY <2>2, <2>3, <2>8, <2>9, <2>10, <1>3
<1> HIDE DEF e, a, b, main, caption
<1>7. UnsentInv'
  <2>1. ASSUME NEW d \in UserMessages, result'[d] = "none"
        PROVE  Untouched(<<d, 1>>)' /\ Untouched(<<d, 2>>)' /\ ~Apart(d)'
    <3>1. d # e /\ result[d] = "none"
      BY <2>1, <1>4
    <3>2. Untouched(<<d, 1>>) /\ Untouched(<<d, 2>>) /\ ~Apart(d)
      BY <3>1 DEF SentInv, UnsentInv, e
    <3> QED BY <3>2, <1>1 DEF Untouched, Apart
  <2>2. ASSUME NEW v \in OwnEvents, result'[v] # "none" PROVE result'[v[1]] = "sent"
    <3>1. result[v[1]] = "sent" /\ v[1] \in UserMessages
      BY <2>2, <1>4 DEF SentInv, UnsentInv, OwnEvents
    <3> QED BY <3>1, <1>4
  <2> QED BY <2>1, <2>2 DEF UnsentInv
<1>8. StageInv' /\ UnsendInv'
  BY <1>1 DEF StageInv, UnsendInv, NoJob, SendStages
<1>9. ASSUME NEW w \in bridged, w.ev \in OwnEvents
      PROVE  /\ OwnRow(w)' /\ PiecesOf(w)' = PiecesOf(w)
             /\ \A p : (Clear(p)' <=> Clear(p)) /\ (Gone(p)' <=> Gone(p))
  <2>1. w.ev[1] \in UserMessages /\ w.ev[1] # e /\ OwnRow(w)
    BY <1>5, <1>9, RowPieces DEF SentInv
  <2>2. result'[w.ev[1]] = "sent"
    BY <2>1, <1>4 DEF OwnRow
  <2>3. OwnRow(w)'
    BY <2>1, <2>2, <1>1 DEF OwnRow, Apart, Clear, Known
  <2> QED BY <2>3, <1>1 DEF PiecesOf, Clear, Gone
<1>10. RowsInv'
  <2>1. ASSUME NEW w \in bridged' PROVE IF w.ev \in OwnEvents THEN OwnRow(w)' ELSE w.id \in Incoming \cup Reactions
    <3>1. CASE w \in bridged
      BY <3>1, <1>9 DEF SentInv, RowsInv
    <3>2. CASE w \in Metadata
      BY <3>2, <1>6, <1>2
    <3> QED BY <3>1, <3>2, <1>1
  <2>2. ASSUME NEW w \in bridged', NEW v \in bridged', w.ev \in OwnEvents, w.ev = v.ev PROVE w = v
    <3>1. CASE w \in bridged /\ v \in bridged
      BY <3>1, <2>2 DEF SentInv, RowsInv
    <3>2. CASE w \in Metadata /\ v \in Metadata
      BY <3>2, <2>2, <1>6
    <3>3. CASE (w \in bridged /\ v \in Metadata) \/ (w \in Metadata /\ v \in bridged)
      BY <3>3, <2>2, <1>5, <1>6
    <3> QED BY <3>1, <3>2, <3>3, <1>1
  <2> QED BY <2>1, <2>2 DEF RowsInv
<1>11. EveryPieceRecalled'
  <2> SUFFICES ASSUME NEW w \in bridged', w.ev \in OwnEvents, result'[w.ev] = "removed"
               PROVE  Gone(w.id)' /\ \A p \in PiecesOf(w)' : Clear(p)'
    BY DEF EveryPieceRecalled, Clear, Gone, OwnEvents
  <2>1. result[w.ev] = "removed"
    BY <1>4
  <2>2. w \in bridged
    <3>1. result[w.ev[1]] = "sent"
      BY <2>1 DEF SentInv, UnsentInv
    <3> QED BY <3>1, <1>1, <1>2, <1>6
  <2>3. Gone(w.id) /\ \A p \in PiecesOf(w) : Clear(p)
    BY <2>1, <2>2 DEF SentInv, EveryPieceRecalled, Clear, Gone, OwnEvents
  <2> QED BY <2>2, <2>3, <1>9
<1>12. NoSilentLoss'
  <2> SUFFICES ASSUME NEW d \in UserMessages, result'[d] = "sent", NEW k \in {1, 2},
                      k = 1 \/ stored'[<<d, k>>] # "none"
               PROVE  Known(<<d, k>>)'
    BY LossOfPieces
  <2>1. CASE d = e
    <3>1. Known(a) /\ (Known(b) \/ (Loose(b) /\ b \notin job.sent))
      BY <1>3
    <3>2. k = 2 /\ Loose(b) => Known(b)
      BY <2>1, <1>1 DEF Loose, Known, b, e
    <3> QED BY <2>1, <3>1, <3>2, <1>1 DEF Known, a, b, e
  <2>2. CASE d # e
    <3>1. Known(<<d, k>>)
      BY <2>2, <1>1, <1>4, LossOfPieces DEF SentInv
    <3> QED BY <3>1, <1>1 DEF Known
  <2> QED BY <2>1, <2>2
<1> QED BY <1>7, <1>8, <1>10, <1>11, <1>12 DEF SentInv

LEMMA RedactSent == ASSUME OutgoingShape, SentInv, NEW w \in bridged, Redact(w) PROVE SentInv'
<1>1. /\ job = NoJob /\ w.ev \in OwnEvents /\ result[w.ev] = "none" /\ bridged' = bridged
      /\ phone' = phone /\ stored' = stored /\ excused' = excused
  BY DEF Redact, OwnEvents
<1> DEFINE e == w.ev[1]
           a == <<w.ev[1], 1>>
           b == <<w.ev[1], 2>>
<1>2. /\ e \in UserMessages /\ OwnRow(w) /\ w \in Rows /\ result[e] = "sent"
      /\ PiecesOf(w) = IF Apart(e) THEN {w.id} ELSE {a, b}
  BY <1>1, RowPieces DEF SentInv, OutgoingShape, OwnRow
<1>3. CASE result' = [result EXCEPT ![w.ev] = "refused"] /\ job' = job
  <2>1. (\A d \in UserMessages : result'[d] = result[d]) /\ \A v \in OwnEvents : v # w.ev => result'[v] = result[v]
    BY <1>1, <1>3, SortsApart DEF OutgoingShape
  <2>2. result'[w.ev] = "refused"
    BY <1>1, <1>3 DEF OutgoingShape
  <2>3. UnsentInv'
    <3>1. ASSUME NEW v \in OwnEvents, result'[v] # "none" PROVE result'[v[1]] = "sent"
      <4>1. v[1] \in UserMessages
        BY DEF OwnEvents
      <4>2. v = w.ev \/ result[v] # "none"
        BY <3>1, <2>1
      <4> QED BY <4>1, <4>2, <2>1, <1>2 DEF SentInv, UnsentInv
    <3>2. ASSUME NEW d \in UserMessages, result'[d] = "none"
          PROVE  Untouched(<<d, 1>>)' /\ Untouched(<<d, 2>>)' /\ ~Apart(d)'
      <4>1. Untouched(<<d, 1>>) /\ Untouched(<<d, 2>>) /\ ~Apart(d)
        BY <3>2, <2>1, <1>1 DEF SentInv, UnsentInv, NoJob, SendStages
      <4> QED BY <4>1, <1>1 DEF Untouched, Apart
    <3> QED BY <3>1, <3>2 DEF UnsentInv
  <2>4. StageInv' /\ UnsendInv'
    BY <1>1, <1>3 DEF StageInv, UnsendInv, NoJob, SendStages
  <2>5. RowsInv'
    <3>1. ASSUME NEW v \in bridged, v.ev \in OwnEvents PROVE OwnRow(v)'
      <4>1. v.ev[1] \in UserMessages /\ OwnRow(v)
        BY <3>1, RowPieces DEF SentInv
      <4> QED BY <4>1, <2>1, <1>1 DEF OwnRow, Apart, Clear, Known
    <3> QED BY <3>1, <1>1 DEF SentInv, RowsInv
  <2>6. EveryPieceRecalled'
    <3>1. \A v \in OwnEvents : result'[v] = "removed" => result[v] = "removed"
      BY <2>1, <2>2
    <3> QED BY <3>1, <1>1 DEF SentInv, EveryPieceRecalled, PiecesOf, OwnEvents
  <2>7. NoSilentLoss'
    BY <2>1, <1>1 DEF SentInv, NoSilentLoss
  <2> QED BY <2>3, <2>4, <2>5, <2>6, <2>7 DEF SentInv
<1>4. CASE /\ job' = [at |-> "unsend", ev |-> w.ev, id |-> w.id, left |-> UnsendOrder(w), bad |-> FALSE]
           /\ result' = result
  <2> DEFINE order == UnsendOrder(w)
  <2>1. /\ order \in {<<a>>, <<b>>, <<a, b>>, <<b, a>>}
        /\ IF w.sibling = {} /\ w.conts = <<>> THEN order = <<w.id>> ELSE order \in {<<a, b>>, <<b, a>>}
        /\ order # <<>> /\ order[Len(order)] = w.id
    <3>1. w.id \in {a, b}
      BY <1>2 DEF OwnRow
    <3>2. /\ order \in {<<a>>, <<b>>, <<a, b>>, <<b, a>>}
          /\ IF w.sibling = {} /\ w.conts = <<>> THEN order = <<w.id>>
             ELSE order = IF w.id = b THEN <<a, b>> ELSE <<b, a>>
      BY <1>2, UnsendOrders DEF OwnRow
    <3> HIDE DEF order, a, b
    <3>3. \A c, d : /\ <<c>> # <<>> /\ <<c>>[Len(<<c>>)] = c
                   /\ <<c, d>> # <<>> /\ <<c, d>>[Len(<<c, d>>)] = d
      OBVIOUS
    <3> QED BY <3>1, <3>2, <3>3
  <2>2. a[1] = e /\ b[1] = e
    OBVIOUS
  <2> HIDE DEF order
  <2>3. \A n \in DOMAIN order : order[n][1] = e /\ Known(order[n])
    <3>1. Known(a) /\ (order # <<a>> => Known(b))
      <4>1. Known(a) /\ (w.id = b \/ w.conts # <<>> => Known(b))
        BY <1>2 DEF OwnRow
      <4>2. order # <<a>> => w.id = b \/ w.conts # <<>>
        BY <1>2, <2>1 DEF OwnRow
      <4> QED BY <4>1, <4>2
    <3> HIDE DEF a, b
    <3> QED BY <2>1, <2>2, <3>1
  <2>4. \A p \in PiecesOf(w) : Clear(p) \/ \E n \in DOMAIN order : order[n] = p
    <3>1. CASE order = <<w.id>>
      <4>1. Clear(b) \/ Apart(e) \/ (w.sibling # {} \/ w.conts # <<>>)
        <5>1. <<b>> # <<>> /\ {a} # {}
          OBVIOUS
        <5> HIDE DEF a, b
        <5>2. \/ Apart(e)
              \/ w.id = b /\ w.sibling = {a} /\ w.conts = <<>>
              \/ w.id = a /\ w.sibling = {} /\ w.conts = <<b>>
              \/ w.id = a /\ w.sibling = {} /\ w.conts = <<>> /\ Clear(b)
          BY <1>2 DEF OwnRow, a, b
        <5> QED BY <5>1, <5>2
      <4>2. w.sibling = {} /\ w.conts = <<>>
        BY <3>1, <2>1
      <4>3. Apart(e) \/ w.id = a
        BY <4>2, <1>2 DEF OwnRow
      <4>4. 1 \in DOMAIN order /\ order[1] = w.id
        BY <3>1
      <4> QED BY <4>1, <4>2, <4>3, <4>4, <1>2
    <3>2. CASE order \in {<<a, b>>, <<b, a>>}
      <4>1. (\E n \in DOMAIN order : order[n] = a) /\ \E n \in DOMAIN order : order[n] = b
        <5> HIDE DEF a, b
        <5>1. CASE order = <<a, b>>
          <6>1. 1 \in DOMAIN order /\ 2 \in DOMAIN order /\ order[1] = a /\ order[2] = b
            BY <5>1
          <6> QED BY <6>1
        <5>2. CASE order = <<b, a>>
          <6>1. 1 \in DOMAIN order /\ 2 \in DOMAIN order /\ order[1] = b /\ order[2] = a
            BY <5>2
          <6> QED BY <6>1
        <5> QED BY <5>1, <5>2, <3>2
      <4>2. PiecesOf(w) \subseteq {a, b}
        BY <1>2 DEF OwnRow
      <4> QED BY <4>1, <4>2
    <3> QED BY <3>1, <3>2, <2>1
  <2>5. job'.at = "unsend" /\ job'.ev = w.ev /\ job'.left = order
    BY <1>4 DEF order
  <2>6. UnsendInv'
    <3>1. ASSUME NEW v \in bridged', v.ev = w.ev, NEW p \in PiecesOf(v)'
          PROVE  v.id = w.id /\ (Clear(p)' \/ \E n \in DOMAIN order : order[n] = p)
      <4>1. v = w /\ PiecesOf(w)' = PiecesOf(w)
        BY <3>1, <1>1 DEF SentInv, RowsInv, PiecesOf
      <4>2. Clear(p) \/ \E n \in DOMAIN order : order[n] = p
        BY <3>1, <4>1, <2>4
      <4> QED BY <4>1, <4>2, <1>1 DEF Clear
    <3>2. result'[w.ev[1]] = "sent" /\ result'[w.ev] = "none" /\ job'.id = w.id
      BY <1>1, <1>2, <1>4
    <3>3. \A n \in DOMAIN order : order[n][1] = e /\ Known(order[n])'
      BY <2>3, <1>1 DEF Known
    <3>4. ASSUME NEW v \in bridged', v.ev = w.ev PROVE v.id = w.id
      BY <3>4, <1>1 DEF SentInv, RowsInv
    <3> QED BY <3>1, <3>2, <3>3, <3>4, <2>1, <2>5 DEF UnsendInv
  <2>7. StageInv'
    BY <2>5 DEF StageInv, SendStages
  <2>8. UnsentInv'
    BY <1>1, <1>4, <2>5 DEF SentInv, UnsentInv, NoJob, SendStages, Untouched, Apart
  <2>9. RowsInv' /\ EveryPieceRecalled' /\ NoSilentLoss'
    BY <1>1, <1>4 DEF SentInv, RowsInv, OwnRow, EveryPieceRecalled, NoSilentLoss, Clear, Known, Apart, PiecesOf
  <2> QED BY <2>6, <2>7, <2>8, <2>9 DEF SentInv
<1> QED BY <1>3, <1>4 DEF Redact

LEMMA UnsendSent == ASSUME OutgoingShape, SentInv, Unsend PROVE SentInv'
<1> DEFINE p == Head(job.left)
           e == job.ev[1]
<1>1. PICK sent \in BOOLEAN, landed \in BOOLEAN, scrubbed \in BOOLEAN :
        /\ sent => landed
        /\ phone' = [phone EXCEPT ![p] = IF landed /\ @ = "imessage" THEN "unsent" ELSE @]
        /\ stored' = [stored EXCEPT ![p] = IF scrubbed /\ (sent \/ p = job.id) THEN "dead" ELSE @]
        /\ job' = [job EXCEPT !.left = Tail(@), !.bad = @ \/ (p = job.id /\ ~sent) \/ ~scrubbed]
  BY DEF Unsend
<1>2. /\ job.at = "unsend" /\ job.left # <<>> /\ bridged' = bridged /\ result' = result
      /\ excused' = excused \cup {<<p, "asked">>}
  BY DEF Unsend
<1>3. /\ job \in UnsendJobs /\ p \in Pieces /\ p \in Ids /\ job.left \in Seq(Pieces) /\ job.ev \in OwnEvents
      /\ e \in UserMessages /\ job.id \in Pieces
  BY <1>2, UnsendShape, SortsApart DEF UnsendJobs, OwnEvents
<1>4. /\ job'.at = "unsend" /\ job'.ev = job.ev /\ job'.left = Tail(job.left) /\ job'.id = job.id
      /\ job'.bad = (job.bad \/ (p = job.id /\ ~sent) \/ ~scrubbed)
  BY <1>1, <1>2, <1>3 DEF UnsendJobs
<1>5. /\ Len(job.left) \in Nat \ {0} /\ DOMAIN job.left = 1..Len(job.left) /\ p = job.left[1]
      /\ DOMAIN Tail(job.left) = 1..(Len(job.left) - 1) /\ Len(Tail(job.left)) = Len(job.left) - 1
      /\ \A n \in 1..(Len(job.left) - 1) : Tail(job.left)[n] = job.left[n + 1]
      /\ Tail(job.left) \in Seq(Pieces)
  BY <1>2, <1>3, HeadTailProperties, LenProperties, EmptySeq
<1>6. /\ result[e] = "sent" /\ result[job.ev] = "none"
      /\ (\A n \in DOMAIN job.left : job.left[n][1] = e /\ Known(job.left[n]))
      /\ p[1] = e /\ Known(p) /\ job.left[Len(job.left)] = job.id
  BY <1>2, <1>5 DEF SentInv, UnsendInv
<1>7. \A q \in Pieces : /\ (phone'[q] = "none" <=> phone[q] = "none") /\ (phone'[q] = "imessage" => phone[q] = "imessage")
                        /\ (stored'[q] = "dead" \/ stored'[q] = stored[q])
                        /\ q # p => phone'[q] = phone[q] /\ stored'[q] = stored[q]
  <2>1. phone \in [Pieces -> {"none", "imessage", "sms", "unsent"}] /\ stored \in [Ids -> {"none", "live", "dead"}]
        /\ Pieces \subseteq Ids
    BY SortsApart DEF OutgoingShape
  <2> HIDE DEF p
  <2>2. \A q \in Pieces : /\ (phone'[q] = "none" <=> phone[q] = "none") /\ (phone'[q] = "imessage" => phone[q] = "imessage")
                          /\ q # p => phone'[q] = phone[q]
    BY <1>1, <1>3, <2>1
  <2>3. \A q \in Pieces : (stored'[q] = "dead" \/ stored'[q] = stored[q]) /\ (q # p => stored'[q] = stored[q])
    BY <1>1, <1>3, <2>1
  <2> QED BY <2>2, <2>3
<1>8. ASSUME NEW q \in Pieces, q = p PROVE Clear(q)' /\ (q = job.id => Gone(q)' \/ job'.bad)
  <2>1. phone \in [Pieces -> {"none", "imessage", "sms", "unsent"}] /\ stored \in [Ids -> {"none", "live", "dead"}]
        /\ q \in Ids
    BY <1>3, <1>8 DEF OutgoingShape
  <2>2. Clear(q)'
    BY <1>2, <1>8 DEF Clear
  <2>3. CASE ~sent \/ ~scrubbed
    BY <2>2, <2>3, <1>4, <1>8
  <2>4. CASE sent /\ scrubbed
    <3>1. phone'[q] # "imessage" /\ stored'[q] = "dead"
      BY <2>1, <2>4, <1>1, <1>8
    <3> QED BY <2>2, <3>1 DEF Gone
  <2> QED BY <2>3, <2>4
<1>9. excused \subseteq excused' /\ (\A d \in UserMessages : Apart(d)' <=> Apart(d))
  BY <1>2 DEF Apart
<1>10. ASSUME NEW q \in Pieces
       PROVE  (Clear(q) => Clear(q)') /\ (Gone(q) => Gone(q)') /\ (Known(q) => Known(q)')
  <2>1. Clear(q) => Clear(q)'
    BY <1>7, <1>8, <1>9 DEF Clear
  <2> QED BY <2>1, <1>7, <1>9 DEF Gone, Known
<1> HIDE DEF p
<1>11. UnsentInv'
  <2>1. ASSUME NEW d \in UserMessages, result'[d] = "none"
        PROVE  Untouched(<<d, 1>>)' /\ Untouched(<<d, 2>>)' /\ ~Apart(d)'
    <3>1. Untouched(<<d, 1>>) /\ Untouched(<<d, 2>>) /\ ~Apart(d)
      BY <2>1, <1>2 DEF SentInv, UnsentInv, SendStages
    <3>2. d # e /\ <<d, 1>> # p /\ <<d, 2>> # p
      BY <2>1, <1>2, <1>6
    <3>3. <<d, 1>> \in Pieces /\ <<d, 2>> \in Pieces
      BY TwoPieces
    <3> QED BY <3>1, <3>2, <3>3, <1>7, <1>9 DEF Untouched
  <2> QED BY <2>1, <1>2 DEF SentInv, UnsentInv
<1>12. ASSUME NEW w \in bridged, w.ev \in OwnEvents
       PROVE  OwnRow(w)' /\ PiecesOf(w)' = PiecesOf(w) /\ PiecesOf(w) \subseteq Pieces /\ w.id \in Pieces
  <2>1. /\ w.ev[1] \in UserMessages /\ OwnRow(w) /\ PiecesOf(w) \subseteq Pieces
        /\ <<w.ev[1], 1>> \in Pieces /\ <<w.ev[1], 2>> \in Pieces /\ w.id \in Pieces
    BY <1>12, RowPieces, TwoPieces DEF SentInv
  <2>2. /\ (Apart(w.ev[1])' <=> Apart(w.ev[1])) /\ (Clear(<<w.ev[1], 2>>) => Clear(<<w.ev[1], 2>>)')
        /\ (Known(<<w.ev[1], 1>>) => Known(<<w.ev[1], 1>>)') /\ (Known(<<w.ev[1], 2>>) => Known(<<w.ev[1], 2>>)')
    BY <2>1, <1>9, <1>10
  <2> QED BY <2>1, <2>2, <1>2 DEF OwnRow, PiecesOf, Apart
<1>13. RowsInv'
  BY <1>2, <1>12 DEF SentInv, RowsInv
<1>14. EveryPieceRecalled'
  <2> SUFFICES ASSUME NEW w \in bridged, w.ev \in OwnEvents, result[w.ev] = "removed"
               PROVE  Gone(w.id)' /\ \A q \in PiecesOf(w)' : Clear(q)'
    BY <1>2 DEF EveryPieceRecalled, Clear, Gone, OwnEvents
  <2>1. Gone(w.id) /\ \A q \in PiecesOf(w) : Clear(q)
    BY DEF SentInv, EveryPieceRecalled, Clear, Gone, OwnEvents
  <2> QED BY <2>1, <1>10, <1>12
<1>15. NoSilentLoss'
  <2> SUFFICES ASSUME NEW d \in UserMessages, result[d] = "sent", NEW k \in {1, 2},
                      k = 1 \/ stored'[<<d, k>>] # "none"
               PROVE  Known(<<d, k>>)'
    BY <1>2, LossOfPieces
  <2>1. <<d, k>> \in Pieces
    BY TwoPieces
  <2>2. CASE <<d, k>> = p
    BY <2>1, <2>2, <1>6, <1>10
  <2>3. CASE <<d, k>> # p
    <3>1. stored'[<<d, k>>] = stored[<<d, k>>]
      BY <2>1, <2>3, <1>7
    <3>2. Known(<<d, k>>)
      BY <3>1, LossOfPieces DEF SentInv
    <3> QED BY <2>1, <3>2, <1>10
  <2> QED BY <2>2, <2>3
<1>16. UnsendInv'
  <2>1. \A n \in DOMAIN Tail(job.left) :
          /\ Tail(job.left)[n][1] = e
          /\ phone'[Tail(job.left)[n]] = "none" => <<Tail(job.left)[n], "stale">> \in excused'
    <3> SUFFICES ASSUME NEW n \in DOMAIN Tail(job.left), NEW q, q = Tail(job.left)[n]
                 PROVE  q[1] = e /\ (phone'[q] = "none" => <<q, "stale">> \in excused')
      OBVIOUS
    <3>1. n + 1 \in 1..Len(job.left) /\ q = job.left[n + 1]
      BY <1>5
    <3>2. q \in Pieces
      BY <3>1, <1>3, ElementOfSeq
    <3>3. q[1] = e /\ Known(q)
      BY <3>1, <1>5, <1>6
    <3>4. Known(q)'
      BY <3>2, <3>3, <1>10
    <3> QED BY <3>3, <3>4 DEF Known
  <2>2. ASSUME NEW w \in bridged, w.ev = job.ev, NEW q \in PiecesOf(w)'
        PROVE  Clear(q)' \/ \E n \in DOMAIN Tail(job.left) : Tail(job.left)[n] = q
    <3>1. q \in PiecesOf(w) /\ q \in Pieces
      BY <2>2, <1>3, <1>12
    <3>2. CASE Clear(q)
      BY <3>1, <3>2, <1>10
    <3>3. CASE \E n \in DOMAIN job.left : job.left[n] = q
      <4>1. PICK n \in DOMAIN job.left : job.left[n] = q
        BY <3>3
      <4>2. CASE n = 1
        BY <4>1, <4>2, <3>1, <1>5, <1>8
      <4>3. CASE n # 1
        <5>1. n - 1 \in DOMAIN Tail(job.left) /\ Tail(job.left)[n - 1] = q
          BY SMTT(30), <4>1, <4>3, <1>5
        <5> QED BY <5>1
      <4> QED BY <4>2, <4>3
    <3> QED BY <2>2, <3>1, <3>2, <3>3, <1>2 DEF SentInv, UnsendInv
  <2>3. IF Tail(job.left) = <<>> THEN job'.bad \/ Gone(job.id)' ELSE Tail(job.left)[Len(Tail(job.left))] = job.id
    <3>1. CASE Tail(job.left) = <<>>
      <4>1. Len(Tail(job.left)) = 0
        BY Zenon, <3>1, <1>5, EmptySeq
      <4>2. p = job.id
        BY <4>1, <1>5, <1>6
      <4>3. \A q \in Pieces : q = job.id => Gone(q)' \/ job'.bad
        BY <4>2, <1>8
      <4>4. PICK q \in Pieces : q = job.id
        BY <1>3
      <4>5. Gone(q)' => Gone(job.id)'
        BY <4>4, <1>4 DEF Gone
      <4> QED BY <3>1, <4>3, <4>4, <4>5
    <3>2. CASE Tail(job.left) # <<>>
      <4>1. Len(Tail(job.left)) \in 1..(Len(job.left) - 1)
        BY <3>2, <1>5, EmptySeq
      <4> QED BY <3>2, <4>1, <1>5, <1>6
    <3> QED BY <3>1, <3>2
  <2>4. ASSUME NEW w \in bridged, w.ev = job.ev PROVE w.id = job.id
    BY <2>4, <1>2 DEF SentInv, UnsendInv
  <2>5. /\ job'.ev = job.ev /\ job'.left = Tail(job.left) /\ job'.id = job.id /\ bridged' = bridged
        /\ result'[job.ev[1]] = "sent" /\ result'[job.ev] = "none"
    BY <1>2, <1>4, <1>6
  <2>6. \A n \in DOMAIN job'.left : job'.left[n][1] = job'.ev[1] /\ Known(job.left[n])'
    BY <2>1, <2>5 DEF Known
  <2>7. IF job'.left = <<>> THEN job'.bad \/ Gone(job.id)' ELSE job'.left[Len(job'.left)] = job'.id
    BY <2>3, <2>5
  <2>8. \A w \in bridged' : w.ev = job'.ev =>
          /\ w.id = job'.id
          /\ \A q \in PiecesOf(w)' : Clear(q)' \/ \E n \in DOMAIN job'.left : job'.left[n] = q
    BY <2>2, <2>4, <2>5
  <2> HIDE DEF e
  <2> QED BY <2>5, <2>6, <2>7, <2>8 DEF UnsendInv
<1>17. StageInv'
  BY <1>4 DEF StageInv, SendStages
<1> QED BY <1>11, <1>13, <1>14, <1>15, <1>16, <1>17 DEF SentInv

LEMMA RemovedSent == ASSUME OutgoingShape, SentInv, Removed PROVE SentInv'
<1>1. /\ job.at = "unsend" /\ job.left = <<>> /\ bridged' = bridged /\ phone' = phone /\ stored' = stored
      /\ excused' = excused /\ job' = NoJob
      /\ result' = [result EXCEPT ![job.ev] = IF job.bad THEN "failed" ELSE "removed"]
  BY DEF Removed
<1>2. job \in UnsendJobs /\ job.ev \in OwnEvents /\ job.ev[1] \in UserMessages
  BY <1>1, UnsendingJob DEF UnsendJobs, OwnEvents
<1>3. /\ \A d \in UserMessages : result'[d] = result[d]
      /\ \A v \in OwnEvents : v # job.ev => result'[v] = result[v]
      /\ result'[job.ev] = IF job.bad THEN "failed" ELSE "removed"
  BY <1>1, <1>2, SortsApart DEF OutgoingShape
<1>4. result[job.ev[1]] = "sent"
  BY <1>1 DEF SentInv, UnsendInv
<1>5. UnsentInv'
  <2>1. ASSUME NEW d \in UserMessages, result'[d] = "none"
        PROVE  Untouched(<<d, 1>>)' /\ Untouched(<<d, 2>>)' /\ ~Apart(d)'
    <3>1. Untouched(<<d, 1>>) /\ Untouched(<<d, 2>>) /\ ~Apart(d)
      BY <2>1, <1>1, <1>3 DEF SentInv, UnsentInv, SendStages
    <3> QED BY <3>1, <1>1 DEF Untouched, Apart
  <2>2. ASSUME NEW v \in OwnEvents, result'[v] # "none" PROVE result'[v[1]] = "sent"
    <3>1. v[1] \in UserMessages /\ (v = job.ev \/ result[v] # "none")
      BY <2>2, <1>3 DEF OwnEvents
    <3> QED BY <3>1, <1>3, <1>4 DEF SentInv, UnsentInv
  <2> QED BY <2>1, <2>2 DEF UnsentInv
<1>6. StageInv' /\ UnsendInv'
  BY <1>1 DEF StageInv, UnsendInv, NoJob, SendStages
<1>7. RowsInv'
  <2>1. ASSUME NEW v \in bridged, v.ev \in OwnEvents PROVE OwnRow(v)'
    <3>1. v.ev[1] \in UserMessages /\ OwnRow(v)
      BY <2>1, RowPieces DEF SentInv
    <3> QED BY <3>1, <1>1, <1>3 DEF OwnRow, Apart, Clear, Known
  <2> QED BY <2>1, <1>1 DEF SentInv, RowsInv
<1>8. EveryPieceRecalled'
  <2> SUFFICES ASSUME NEW w \in bridged, w.ev \in OwnEvents, result'[w.ev] = "removed"
               PROVE  Gone(w.id) /\ \A q \in PiecesOf(w) : Clear(q)
    BY <1>1 DEF EveryPieceRecalled, Clear, Gone, OwnEvents, PiecesOf
  <2>1. CASE w.ev = job.ev
    <3>1. ~job.bad
      BY <2>1, <1>3
    <3>2. DOMAIN job.left = {}
      BY <1>1
    <3>3. Gone(job.id) /\ w.id = job.id /\ \A q \in PiecesOf(w) : Clear(q)
      BY <2>1, <3>1, <3>2, <1>1 DEF SentInv, UnsendInv
    <3> QED BY <3>3
  <2>2. CASE w.ev # job.ev
    BY <2>2, <1>3 DEF SentInv, EveryPieceRecalled, Clear, Gone, OwnEvents
  <2> QED BY <2>1, <2>2
<1>9. NoSilentLoss'
  BY <1>1, <1>3 DEF SentInv, NoSilentLoss
<1> QED BY <1>5, <1>6, <1>7, <1>8, <1>9 DEF SentInv

(* The steps beside the worker. *)
LEMMA BesideSent ==
  ASSUME OutgoingShape, SentInv,
         \/ Track \/ Change \/ Expire \/ \E r \in Reactions : React(r) \/ ReactionEcho(r)
         \/ \E x \in Incoming : (\E sms \in BOOLEAN : Arrives(x, sms)) \/ Retract(x)
         \/ \E p \in Pieces : UnsendArrives(p)
  PROVE  SentInv'
<1>1. Pieces \subseteq Ids /\ Pieces \cap (Incoming \cup Reactions) = {}
      /\ Incoming \subseteq Ids /\ Reactions \subseteq Ids
  BY SortsApart
<1>2. NoJob.at \notin SendStages \cup {"unsend"} /\ "track" \notin SendStages \cup {"unsend"}
  BY DEF NoJob, SendStages
<1>3. ASSUME result' = result, bridged' = bridged, excused \subseteq excused',
             \A t \in excused' \ excused : t[2] # "apart",
             job' = job \/ (job.at \notin SendStages \cup {"unsend"} /\ job'.at \notin SendStages \cup {"unsend"}),
             \A p \in Pieces : phone'[p] = phone[p] /\ stored'[p] = stored[p]
      PROVE  SentInv'
  <2>1. \A e \in UserMessages : Apart(e)' <=> Apart(e)
    <3>1. ASSUME NEW e \in UserMessages, Apart(e)' PROVE Apart(e)
      <4> DEFINE t == <<e, "apart">>
      <4>1. t[2] = "apart" /\ t \in excused'
        BY <3>1 DEF Apart
      <4> QED BY <4>1, <1>3 DEF Apart
    <3>2. ASSUME NEW e \in UserMessages, Apart(e) PROVE Apart(e)'
      BY <3>2, <1>3 DEF Apart
    <3> QED BY <3>1, <3>2
  <2> QED BY <1>3, <2>1, Beside
<1>4. CASE Track
  <2>1. /\ result' = result /\ bridged' = bridged /\ excused' = excused /\ phone' = phone /\ stored' = stored
        /\ job.at = "track" /\ job' = NoJob
    BY <1>4 DEF Track
  <2> QED BY <2>1, <1>2, <1>3
<1>5. CASE Change
  BY <1>5, <1>3 DEF Change
<1>6. CASE Expire
  <2>1. /\ result' = result /\ bridged' = bridged /\ phone' = phone /\ stored' = stored /\ job' = job
        /\ excused \subseteq excused' /\ \A t \in excused' \ excused : t[2] # "apart"
    BY <1>6 DEF Expire
  <2> QED BY <2>1, <1>3
<1>7. ASSUME NEW r \in Reactions, React(r) PROVE SentInv'
  <2>1. /\ result' = result /\ bridged' = bridged /\ phone' = phone /\ stored' = stored /\ job = NoJob
        /\ excused \subseteq excused' /\ excused' \subseteq excused \cup {<<r, "sent">>, <<r, "echo">>}
        /\ job'.at = "track" \/ job' = NoJob
    BY <1>7 DEF React
  <2>2. <<r, "sent">>[2] # "apart" /\ <<r, "echo">>[2] # "apart"
    OBVIOUS
  <2> QED BY <2>1, <2>2, <1>2, <1>3
<1>8. ASSUME NEW r \in Reactions, ReactionEcho(r) PROVE SentInv'
  <2>1. /\ result' = result /\ bridged' = bridged /\ phone' = phone /\ job' = job
        /\ excused' \in {excused, excused \cup {<<r, "echo">>}} /\ HandleMessage(r, TRUE)
    BY <1>8 DEF ReactionEcho
  <2>2. \A v \in Ids : v # r => stored'[v] = stored[v]
    BY <2>1, <1>1, HandledMessage
  <2>3. <<r, "echo">>[2] # "apart"
    OBVIOUS
  <2>4. \A p \in Pieces : p # r /\ p \in Ids
    BY <1>1
  <2> QED BY <2>1, <2>2, <2>3, <2>4, <1>3
<1>9. ASSUME NEW x \in Incoming, NEW sms \in BOOLEAN, Arrives(x, sms) PROVE SentInv'
  <2>1. /\ result' = result /\ bridged' = bridged /\ phone' = phone /\ job' = job
        /\ excused' = excused /\ HandleMessage(x, sms)
    BY <1>9 DEF Arrives
  <2>2. \A v \in Ids : v # x => stored'[v] = stored[v]
    BY <2>1, <1>1, HandledMessage
  <2>3. \A p \in Pieces : p # x /\ p \in Ids
    BY <1>1
  <2> QED BY <2>1, <2>2, <2>3, <1>3
<1>10. ASSUME NEW x \in Incoming, Retract(x) PROVE SentInv'
  <2>1. /\ result' = result /\ bridged' = bridged /\ phone' = phone /\ job' = job /\ HandleUnsend(x)
    BY <1>10 DEF Retract, Surroundings
  <2>2. \A v \in Ids : v # x => stored'[v] = stored[v]
    BY <2>1, <1>1, HandledUnsend
  <2>3. excused' \in {excused, excused \cup {<<x, "scrub">>}} /\ <<x, "scrub">>[2] # "apart"
    BY <2>1 DEF HandleUnsend
  <2>4. \A p \in Pieces : p # x /\ p \in Ids
    BY <1>1
  <2> QED BY <2>1, <2>2, <2>3, <2>4, <1>3
<1>11. ASSUME NEW p \in Pieces, UnsendArrives(p) PROVE SentInv'
  <2>1. /\ result' = result /\ bridged' = bridged /\ job' = job /\ HandleUnsend(p)
        /\ phone[p] \in {"imessage", "unsent"} /\ phone' = [phone EXCEPT ![p] = "unsent"]
    BY <1>11 DEF UnsendArrives
  <2>2. p \in Ids /\ phone \in [Pieces -> {"none", "imessage", "sms", "unsent"}]
    BY <1>1 DEF OutgoingShape
  <2>3. \A v \in Ids : stored'[v] \in {stored[v], "dead"} /\ (v # p => stored'[v] = stored[v])
    BY <2>1, <2>2, HandledUnsend
  <2>4. excused \subseteq excused' /\ \A e \in UserMessages : Apart(e)' <=> Apart(e)
    BY <2>1 DEF HandleUnsend, Apart
  <2>6. phone'[p] = "unsent"
    BY <2>1, <2>2
  <2>5. ASSUME NEW q \in Pieces
        PROVE  /\ phone'[q] = phone[q] \/ (phone[q] = "imessage" /\ phone'[q] = "unsent")
               /\ stored'[q] = stored[q] \/ (stored'[q] = "dead" /\ phone'[q] = "unsent")
    <3>1. q \in Ids
      BY <1>1
    <3>2. CASE q = p
      BY <3>1, <3>2, <2>1, <2>3, <2>6
    <3>3. CASE q # p
      BY <3>1, <3>3, <2>1, <2>2, <2>3
    <3> QED BY <3>2, <3>3
  <2> QED BY <2>1, <2>4, <2>5, Beside
<1> QED BY <1>4, <1>5, <1>6, <1>7, <1>8, <1>9, <1>10, <1>11

(* A remote event in the room: no row of the user's own event is added. *)
LEMMA HandleSent == ASSUME OutgoingShape, SentInv, EchoInv, Handle PROVE SentInv'
<1>1. /\ job = NoJob /\ job' = job /\ result' = result /\ phone' = phone /\ stored' = stored /\ excused' = excused
  BY DEF Handle
<1>2. queue # <<>> /\ queue \in Seq(RemoteEvents) /\ Head(queue) = queue[1] /\ 1 \in DOMAIN queue
  BY HeadTailProperties, LenProperties, EmptySeq DEF Handle, OutgoingShape
<1>3. ASSUME NEW w \in bridged', w \notin bridged
      PROVE  w.ev \notin OwnEvents /\ w.id \in Incoming \cup Reactions
  <2> DEFINE q == Head(queue)
  <2>1. q.op # "remove" /\ w = Row(q.id, q.id, {}, <<>>)
    BY <1>3 DEF Handle
  <2>2. q \in RemoteEvents
    BY <1>2, ElementOfSeq, LenProperties
  <2>3. q.id \in Incoming \cup Reactions
    BY <2>1, <2>2, <1>2 DEF EchoInv, RemoteEvents
  <2>4. w.ev = q.id /\ w.id = q.id
    BY <2>1 DEF Row
  <2> QED BY <2>3, <2>4, SortsApart
<1>4. RowsInv'
  <2>1. \A w : (OwnRow(w)' <=> OwnRow(w))
    BY <1>1 DEF OwnRow, Apart, Clear, Known
  <2> QED BY <2>1, <1>3 DEF SentInv, RowsInv
<1>5. EveryPieceRecalled'
  <2>1. \A w : PiecesOf(w)' = PiecesOf(w)
    BY <1>1 DEF PiecesOf
  <2> QED BY <2>1, <1>1, <1>3 DEF SentInv, EveryPieceRecalled, OwnEvents
<1>6. UnsentInv' /\ NoSilentLoss'
  BY <1>1 DEF SentInv, UnsentInv, NoSilentLoss, Untouched, Apart
<1>7. StageInv' /\ UnsendInv'
  BY <1>1 DEF StageInv, UnsendInv, NoJob, SendStages
<1> QED BY <1>4, <1>5, <1>6, <1>7 DEF SentInv

LEMMA CrashSent == ASSUME OutgoingShape, SentInv, Crash PROVE SentInv'
<1>1. /\ bridged' = bridged /\ phone' = phone /\ stored' = stored /\ job' = NoJob
      /\ excused \subseteq excused' /\ \A t \in excused' \ excused : t[2] # "apart"
  BY DEF Crash
<1>2. \A e \in UserMessages : Apart(e)' <=> Apart(e)
  <2>1. ASSUME NEW e \in UserMessages, Apart(e)' PROVE Apart(e)
    <3> DEFINE t == <<e, "apart">>
    <3>1. t[2] = "apart" /\ t \in excused'
      BY <2>1 DEF Apart
    <3> QED BY <3>1, <1>1 DEF Apart
  <2> QED BY <2>1, <1>1 DEF Apart
<1>3. StageInv' /\ UnsendInv'
  BY <1>1 DEF StageInv, UnsendInv, NoJob, SendStages
<1>4. CASE job.at \in SendStages
  <2>1. result' = [result EXCEPT ![job.e] = "died"]
    BY <1>4 DEF Crash, SendStages
  <2>2. job.e \in UserMessages /\ result[job.e] = "none"
    BY <1>4, SendingStage
  <2>3. /\ result'[job.e] = "died"
        /\ \A v \in (UserMessages \cup OwnEvents) \ {job.e} : result'[v] = result[v]
    BY <2>1, <2>2 DEF OutgoingShape
  <2>4. UnsentInv' /\ RowsInv' /\ UnsendInv' /\ EveryPieceRecalled' /\ NoSilentLoss'
    BY <1>1, <1>2, <1>4, <2>2, <2>3, Sending DEF NoJob, SendStages
  <2> QED BY <1>3, <2>4 DEF SentInv
<1>5. CASE job.at \notin SendStages
  <2>1. /\ \A d \in UserMessages : result'[d] = result[d]
        /\ \A v \in OwnEvents : result'[v] = result[v] \/ (result'[v] = "died" /\ result[v[1]] = "sent")
    <3>1. CASE job.at = "unsend"
      <4>1. job.ev \in OwnEvents /\ result[job.ev[1]] = "sent"
        BY <3>1, UnsendingJob DEF UnsendJobs, SentInv, UnsendInv
      <4>2. result' = [result EXCEPT ![job.ev] = "died"]
        BY <3>1, <1>5 DEF Crash, SendStages
      <4> QED BY <4>1, <4>2, SortsApart DEF OutgoingShape
    <3>2. CASE job.at # "unsend"
      BY <3>2, <1>5 DEF Crash, SendStages
    <3> QED BY <3>1, <3>2
  <2>2. UnsentInv'
    <3>1. ASSUME NEW d \in UserMessages, result'[d] = "none"
          PROVE  Untouched(<<d, 1>>)' /\ Untouched(<<d, 2>>)' /\ ~Apart(d)'
      <4>1. Untouched(<<d, 1>>) /\ Untouched(<<d, 2>>) /\ ~Apart(d)
        BY <3>1, <1>5, <2>1 DEF SentInv, UnsentInv
      <4> QED BY <4>1, <1>1, <1>2 DEF Untouched
    <3>2. ASSUME NEW v \in OwnEvents, result'[v] # "none" PROVE result'[v[1]] = "sent"
      <4>1. v[1] \in UserMessages
        BY DEF OwnEvents
      <4> QED BY <3>2, <4>1, <2>1 DEF SentInv, UnsentInv
    <3> QED BY <3>1, <3>2 DEF UnsentInv
  <2>3. ASSUME NEW w \in bridged, w.ev \in OwnEvents PROVE OwnRow(w)' /\ PiecesOf(w)' = PiecesOf(w)
    <3>1. w.ev[1] \in UserMessages /\ OwnRow(w)
      BY <2>3, RowPieces DEF SentInv
    <3>2. /\ Clear(<<w.ev[1], 2>>) => Clear(<<w.ev[1], 2>>)'
          /\ Known(<<w.ev[1], 1>>) => Known(<<w.ev[1], 1>>)'
          /\ Known(<<w.ev[1], 2>>) => Known(<<w.ev[1], 2>>)'
      BY <1>1 DEF Clear, Known
    <3>3. Apart(w.ev[1])' <=> Apart(w.ev[1])
      BY <3>1, <1>2
    <3> QED BY <3>1, <3>2, <3>3, <2>1 DEF OwnRow, PiecesOf, Apart
  <2>4. RowsInv'
    BY <2>3, <1>1 DEF SentInv, RowsInv
  <2>5. EveryPieceRecalled'
    <3> SUFFICES ASSUME NEW w \in bridged, w.ev \in OwnEvents, result'[w.ev] = "removed"
                 PROVE  Gone(w.id)' /\ \A p \in PiecesOf(w)' : Clear(p)'
      BY <1>1 DEF EveryPieceRecalled, Clear, Gone, OwnEvents
    <3>1. PiecesOf(w)' = PiecesOf(w) /\ result[w.ev] = "removed"
      BY <2>1, <2>3
    <3>2. Gone(w.id) /\ \A p \in PiecesOf(w) : Clear(p)
      BY <3>1 DEF SentInv, EveryPieceRecalled, Clear, Gone, OwnEvents
    <3> QED BY <3>1, <3>2, <1>1 DEF Clear, Gone
  <2>6. NoSilentLoss'
    BY <2>1, <1>1 DEF SentInv, NoSilentLoss
  <2> QED BY <1>3, <2>2, <2>4, <2>5, <2>6 DEF SentInv
<1> QED BY <1>4, <1>5

(* What an entry added to the end of the queue, and the first one taken, mean *)
(* for what is shown or removed.                                            *)
LEMMA Queued ==
  ASSUME OutgoingShape, NEW q \in RemoteEvents, queue' = Append(queue, q)
  PROVE  /\ \A u : u # q.id \/ q.op = "remove" => (ShowIn(u)' <=> ShowIn(u)) /\ (RemovalLast(u) => RemovalLast(u)')
         /\ q.op = "remove" => RemovalLast(q.id)'
         /\ \A n \in DOMAIN queue' : queue'[n] = q \/ \E k \in DOMAIN queue : queue'[n] = queue[k]
<1> DEFINE l == Len(queue)
<1>1. /\ l \in Nat /\ DOMAIN queue = 1..l /\ DOMAIN queue' = 1..(l + 1) /\ queue'[l + 1] = q
      /\ \A n \in 1..l : queue'[n] = queue[n]
  BY AppendProperties, LenProperties DEF OutgoingShape
<1> HIDE DEF l
<1>2. ASSUME NEW u, u # q.id \/ q.op = "remove" PROVE (ShowIn(u)' <=> ShowIn(u)) /\ (RemovalLast(u) => RemovalLast(u)')
  <2>1. ShowIn(u)' => ShowIn(u)
    BY <1>1, <1>2 DEF ShowIn
  <2>2. ShowIn(u) => ShowIn(u)'
    BY <1>1, <1>2 DEF ShowIn
  <2>3. ASSUME RemovalLast(u) PROVE RemovalLast(u)'
    <3>1. PICK n \in 1..l : /\ queue[n].op = "remove" /\ queue[n].id = u
                            /\ \A k \in 1..l : k > n => ~(queue[k].op = "show" /\ queue[k].id = u)
      BY <2>3, <1>1 DEF RemovalLast
    <3>2. \A k \in 1..(l + 1) : k > n => ~(queue'[k].op = "show" /\ queue'[k].id = u)
      BY <3>1, <1>1, <1>2
    <3> QED BY <3>1, <3>2, <1>1 DEF RemovalLast
  <2> QED BY <2>1, <2>2, <2>3
<1>3. ASSUME q.op = "remove" PROVE \A u : u = q.id => RemovalLast(u)'
  BY <1>1, <1>3 DEF RemovalLast
<1> QED BY <1>1, <1>2, <1>3

LEMMA Taken ==
  ASSUME OutgoingShape, queue # <<>>, queue' = Tail(queue)
  PROVE  /\ Head(queue) = queue[1] /\ Head(queue) \in RemoteEvents /\ 1 \in DOMAIN queue
         /\ \A u : ShowIn(u)' => ShowIn(u)
         /\ \A u : ShowIn(u) => ShowIn(u)' \/ (Head(queue).op = "show" /\ Head(queue).id = u)
         /\ \A u : RemovalLast(u) =>
              RemovalLast(u)' \/ (Head(queue).op = "remove" /\ Head(queue).id = u /\ ~ShowIn(u)')
         /\ \A n \in DOMAIN queue' : \E k \in DOMAIN queue : queue'[n] = queue[k]
<1> DEFINE l == Len(queue)
<1>1. /\ l \in Nat \ {0} /\ DOMAIN queue = 1..l /\ DOMAIN queue' = 1..(l - 1) /\ Head(queue) = queue[1]
      /\ \A n \in 1..(l - 1) : queue'[n] = queue[n + 1]
  BY HeadTailProperties, LenProperties, EmptySeq DEF OutgoingShape
<1>2. queue[1] \in RemoteEvents /\ 1 \in DOMAIN queue
  BY <1>1, ElementOfSeq DEF OutgoingShape
<1> HIDE DEF l
<1>3. \A n \in DOMAIN queue' : n + 1 \in DOMAIN queue /\ queue'[n] = queue[n + 1]
  BY <1>1
<1>4. \A k \in DOMAIN queue : k # 1 => k - 1 \in DOMAIN queue' /\ queue'[k - 1] = queue[k]
  BY <1>1
<1>5. ASSUME NEW u PROVE (ShowIn(u)' => ShowIn(u)) /\ (ShowIn(u) => ShowIn(u)' \/ (queue[1].op = "show" /\ queue[1].id = u))
  BY <1>3, <1>4 DEF ShowIn
<1>6. ASSUME NEW u, RemovalLast(u)
      PROVE  RemovalLast(u)' \/ (queue[1].op = "remove" /\ queue[1].id = u /\ ~ShowIn(u)')
  <2>1. PICK n \in 1..l : /\ queue[n].op = "remove" /\ queue[n].id = u
                          /\ \A k \in 1..l : k > n => ~(queue[k].op = "show" /\ queue[k].id = u)
    BY <1>6, <1>1 DEF RemovalLast
  <2>2. CASE n = 1
    <3>1. ~ShowIn(u)'
      BY <2>1, <2>2, <1>1 DEF ShowIn
    <3> QED BY <2>1, <2>2, <3>1
  <2>3. CASE n # 1
    <3>1. n - 1 \in 1..(l - 1) /\ queue'[n - 1] = queue[n]
      BY <2>1, <2>3, <1>1
    <3>2. \A k \in 1..(l - 1) : k > n - 1 => ~(queue'[k].op = "show" /\ queue'[k].id = u)
      BY <2>1, <1>1
    <3>3. \E m \in DOMAIN queue' :
            /\ queue'[m].op = "remove" /\ queue'[m].id = u
            /\ \A k \in DOMAIN queue' : k > m => ~(queue'[k].op = "show" /\ queue'[k].id = u)
      BY ZenonT(40), <2>1, <3>1, <3>2, <1>1
    <3> QED BY <3>3 DEF RemovalLast
  <2> QED BY <2>2, <2>3
<1>7. \A n \in DOMAIN queue' : \E k \in DOMAIN queue : queue'[n] = queue[k]
  BY <1>3
<1> QED BY <1>1, <1>2, <1>5, <1>6, <1>7

(* The worker's own steps leave the news alone. *)
LEMMA Quiet ==
  ASSUME OutgoingShape, GoneInv, EchoInv, queue' = queue, unsends' = unsends, echoes' = echoes,
         retracted' = retracted, excused \subseteq excused', job.at # "track" \/ job' = job,
         \A r \in Reactions : <<r, "sent">> \in excused' => <<r, "sent">> \in excused,
         \A x \in Incoming \cup Reactions : HasRow(x)' => HasRow(x)
  PROVE  GoneInv' /\ EchoInv'
<1>1. \A u : (ShowIn(u)' <=> ShowIn(u)) /\ (RemovalLast(u)' <=> RemovalLast(u)) /\ (Excuse(u) => Excuse(u)')
  BY DEF ShowIn, RemovalLast, Excuse
<1>2. GoneInv'
  BY <1>1 DEF GoneInv, OutgoingShape
<1>3. \A r \in Reactions : <<r, "sent">> \in excused' =>
        (job'.at = "track" /\ job'.r = r) \/ r \in echoes' \/ <<r, "echo">> \in excused'
  BY DEF EchoInv
<1>4. \A r \in Reactions : HasRow(r)' \/ ShowIn(r)' => <<r, "echo">> \in excused'
  BY <1>1 DEF EchoInv
<1> QED BY <1>2, <1>3, <1>4 DEF EchoInv

LEMMA QuietSteps ==
  ASSUME OutgoingShape, SentInv, GoneInv, EchoInv,
         \/ \E e \in UserMessages, kind \in Kinds : Begin(e, kind)
         \/ Route \/ Relay \/ SendPiece \/ Record \/ Hide \/ SaveRows
         \/ \E w \in bridged : Redact(w)
         \/ Unsend \/ Removed \/ Change
  PROVE  GoneInv' /\ EchoInv'
<1>1. /\ queue' = queue /\ unsends' = unsends /\ echoes' = echoes /\ retracted' = retracted
  BY DEF Begin, Route, Relay, SendPiece, Record, Hide, SaveRows, Redact, Unsend, Removed, Change, Tracking
<1>2. job.at # "track" \/ job' = job
  <2>1. CASE Change
    BY <2>1 DEF Change
  <2>2. CASE Route \/ Relay \/ SendPiece \/ Record \/ Hide \/ SaveRows \/ Unsend \/ Removed
    <3>1. job.at \in SendStages \cup {"unsend"}
      BY <2>2 DEF Route, Relay, SendPiece, Record, Hide, SaveRows, Unsend, Removed, SendStages
    <3> QED BY <3>1 DEF SendStages
  <2>3. CASE (\E e \in UserMessages, kind \in Kinds : Begin(e, kind)) \/ \E w \in bridged : Redact(w)
    <3>1. job = NoJob
      BY <2>3 DEF Begin, Redact
    <3> QED BY <3>1 DEF NoJob
  <2> QED BY <2>1, <2>2, <2>3
<1>3. excused \subseteq excused' /\ \A t \in excused' \ excused : t[2] # "sent"
  <2>1. CASE Relay
    BY <2>1 DEF Relay
  <2>2. CASE SendPiece
    <3>1. excused' = excused \/ excused' = excused \cup {<<<<job.e, job.i>>, "stale">>}
      BY <2>2 DEF SendPiece
    <3> QED BY <3>1
  <2>3. CASE Record
    <3>1. excused' = excused \/ excused' = excused \cup {<<job.e, "apart">>}
      BY <2>3 DEF Record
    <3> QED BY <3>1
  <2>4. CASE Unsend
    <3>1. excused' = excused \cup {<<Head(job.left), "asked">>}
      BY <2>4 DEF Unsend
    <3> QED BY <3>1
  <2>5. CASE ~(Relay \/ SendPiece \/ Record \/ Unsend)
    BY <2>5 DEF Begin, Route, Hide, SaveRows, Redact, Removed, Change
  <2> QED BY <2>1, <2>2, <2>3, <2>4, <2>5
<1>4. \A r \in Reactions : <<r, "sent">> \in excused' => <<r, "sent">> \in excused
  <2>1. ASSUME NEW r \in Reactions, <<r, "sent">> \in excused', <<r, "sent">> \notin excused PROVE FALSE
    <3> DEFINE t == <<r, "sent">>
    <3>1. t[2] = "sent"
      OBVIOUS
    <3> QED BY <3>1, <2>1, <1>3
  <2> QED BY <2>1
<1>5. \A x \in Incoming \cup Reactions : HasRow(x)' => HasRow(x)
  <2>1. CASE SaveRows
    <3>1. job.at \in SendStages /\ job.e \in UserMessages /\ job \in SendJobs
      BY <2>1, SendingStage DEF SaveRows, SendStages
    <3>2. job.puppet => job.kind = "captioned"
      BY <3>1 DEF SentInv, StageInv
    <3>3. \A w \in Metadata : w.id \in {<<job.e, 1>>, <<job.e, 2>>}
      BY <3>1, <3>2, MetadataRows DEF Row
    <3>4. \A w \in Metadata : w.id \notin Incoming \cup Reactions
      BY ZenonT(40), <3>1, <3>3, TwoPieces, SortsApart
    <3>5. bridged' \subseteq bridged \cup Metadata
      BY <2>1 DEF SaveRows
    <3> QED BY <3>4, <3>5 DEF HasRow
  <2>2. CASE ~SaveRows
    <3>1. bridged' = bridged
      BY <2>2 DEF Begin, Route, Relay, SendPiece, Record, Hide, Redact, Unsend, Removed, Change
    <3> QED BY <3>1 DEF HasRow
  <2> QED BY <2>1, <2>2
<1> QED BY <1>1, <1>2, <1>3, <1>4, <1>5, Quiet

(* Excuses are only added. *)
LEMMA Excused ==
  ASSUME excused \subseteq excused' PROVE \A u : Excuse(u) => Excuse(u)'
BY DEF Excuse

LEMMA TrackNews == ASSUME OutgoingShape, GoneInv, EchoInv, Track PROVE GoneInv' /\ EchoInv'
<1>1. /\ queue' = queue /\ unsends' = unsends /\ retracted' = retracted /\ excused' = excused /\ bridged' = bridged
      /\ job.at = "track" /\ echoes' = echoes \cup {job.r}
  BY DEF Track
<1>2. GoneInv'
  BY <1>1 DEF GoneInv, Excuse, RemovalLast, ShowIn, HasRow
<1> QED BY <1>1, <1>2 DEF EchoInv, HasRow, ShowIn

LEMMA ReactNews ==
  ASSUME OutgoingShape, GoneInv, EchoInv, NEW r \in Reactions, React(r) PROVE GoneInv' /\ EchoInv'
<1>1. /\ queue' = queue /\ unsends' = unsends /\ retracted' = retracted /\ bridged' = bridged /\ echoes' = echoes
      /\ job = NoJob /\ excused \subseteq excused'
      /\ excused' \subseteq excused \cup {<<r, "sent">>, <<r, "echo">>}
      /\ \/ excused' = excused
         \/ job' = [at |-> "track", r |-> r]
         \/ <<r, "echo">> \in excused'
  BY DEF React, Tracking
<1>2. \A u : (ShowIn(u)' <=> ShowIn(u)) /\ (RemovalLast(u)' <=> RemovalLast(u)) /\ (HasRow(u)' <=> HasRow(u))
  BY <1>1 DEF ShowIn, RemovalLast, HasRow
<1>3. GoneInv'
  BY <1>1, <1>2, Excused DEF GoneInv
<1>4. \A d \in Reactions : <<d, "sent">> \in excused' =>
        (job'.at = "track" /\ job'.r = d) \/ d \in echoes' \/ <<d, "echo">> \in excused'
  BY <1>1 DEF EchoInv, NoJob
<1> QED BY <1>1, <1>2, <1>3, <1>4 DEF EchoInv

(* A message from APNs: shown once, unless it was taken back. *)
LEMMA MessageNews ==
  ASSUME OutgoingShape, GoneInv, EchoInv, NEW u \in Incoming \cup Reactions, NEW sms \in BOOLEAN,
         HandleMessage(u, sms), u \in Reactions => <<u, "sent">> \in excused,
         u \in Reactions /\ ((job.at = "track" /\ job.r = u) \/ u \in echoes) => <<u, "echo">> \in excused',
         excused \subseteq excused', \A d \in Reactions : <<d, "sent">> \in excused' => <<d, "sent">> \in excused,
         UNCHANGED <<job, bridged, unsends, retracted>>
  PROVE  GoneInv' /\ EchoInv'
<1>1. /\ echoes' \subseteq echoes /\ \A r \in echoes : r \in echoes' \/ (r = u /\ u \in echoes)
      /\ queue' = queue \/ (u \notin unsends /\ u \notin echoes /\ queue' = Append(queue, [op |-> "show", id |-> u]))
  BY DEF HandleMessage
<1> DEFINE q == [op |-> "show", id |-> u]
<1>2. q \in RemoteEvents /\ q.op = "show" /\ q.id = u
  BY SortsApart DEF RemoteEvents
<1> HIDE DEF q
<1>3. \A y : HasRow(y)' <=> HasRow(y)
  BY DEF HasRow
<1>4. CASE queue' = queue
  <2>1. \A y : (ShowIn(y)' <=> ShowIn(y)) /\ (RemovalLast(y)' <=> RemovalLast(y))
    BY <1>4 DEF ShowIn, RemovalLast
  <2>2. GoneInv'
    BY <1>3, <2>1, Excused DEF GoneInv
  <2>3. \A d \in Reactions : <<d, "sent">> \in excused' =>
          (job'.at = "track" /\ job'.r = d) \/ d \in echoes' \/ <<d, "echo">> \in excused'
    BY <1>1 DEF EchoInv
  <2> QED BY <1>3, <1>4, <2>1, <2>2, <2>3 DEF EchoInv
<1>5. CASE u \notin unsends /\ u \notin echoes /\ queue' = Append(queue, q)
  <2>1. /\ \A y : y # u => (ShowIn(y)' <=> ShowIn(y)) /\ (RemovalLast(y) => RemovalLast(y)')
        /\ \A n \in DOMAIN queue' : queue'[n] = q \/ \E k \in DOMAIN queue : queue'[n] = queue[k]
    BY <1>2, <1>5, Queued
  <2>2. ASSUME NEW x \in retracted PROVE Excuse(x)' \/ (x \in unsends /\ (RemovalLast(x)' \/ (~HasRow(x)' /\ ~ShowIn(x)')))
    BY <1>3, <1>5, <2>1, <2>2, Excused DEF GoneInv
  <2>3. \A d \in Reactions : <<d, "sent">> \in excused' =>
          (job'.at = "track" /\ job'.r = d) \/ d \in echoes' \/ <<d, "echo">> \in excused'
    BY <1>1 DEF EchoInv
  <2>4. u \in Reactions => <<u, "echo">> \in excused'
    BY <1>5 DEF EchoInv
  <2>5. \A d \in Reactions : HasRow(d)' \/ ShowIn(d)' => <<d, "echo">> \in excused'
    BY <1>3, <2>1, <2>4 DEF EchoInv
  <2>6. \A n \in DOMAIN queue' : queue'[n].op = "show" => queue'[n].id \in Incoming \cup Reactions
    BY <1>2, <2>1 DEF EchoInv
  <2> QED BY <2>2, <2>3, <2>5, <2>6 DEF GoneInv, EchoInv
<1> QED BY <1>1, <1>4, <1>5 DEF q

LEMMA ArrivesNews ==
  ASSUME OutgoingShape, GoneInv, EchoInv, NEW x \in Incoming, NEW sms \in BOOLEAN, Arrives(x, sms)
  PROVE  GoneInv' /\ EchoInv'
<1>1. x \notin Reactions
  BY SortsApart
<1>2. HandleMessage(x, sms) /\ excused' = excused /\ UNCHANGED <<job, bridged, unsends, retracted>>
  BY DEF Arrives
<1> QED BY <1>1, <1>2, MessageNews

LEMMA ReactionEchoNews ==
  ASSUME OutgoingShape, GoneInv, EchoInv, NEW r \in Reactions, ReactionEcho(r) PROVE GoneInv' /\ EchoInv'
<1>1. /\ HandleMessage(r, TRUE) /\ UNCHANGED <<job, bridged, unsends, retracted>> /\ <<r, "sent">> \in excused
      /\ excused' = IF (job.at = "track" /\ job.r = r) \/ r \in echoes
                    THEN excused \cup {<<r, "echo">>} ELSE excused
  BY DEF ReactionEcho
<1>2. \A d \in Reactions : <<d, "sent">> \in excused' => <<d, "sent">> \in excused
  BY <1>1
<1> QED BY <1>1, <1>2, MessageNews

(* An unsend from APNs: the removal comes after every earlier showing. *)
LEMMA UnsendNews ==
  ASSUME OutgoingShape, GoneInv, EchoInv, NEW u \in Ids, HandleUnsend(u), u \in Pieces \/ retracted' = retracted \cup {u},
         u \in Incoming \cup Pieces, u \in Pieces => retracted' = retracted,
         UNCHANGED <<job, bridged, echoes>>
  PROVE  GoneInv' /\ EchoInv'
<1> DEFINE q == [op |-> "remove", id |-> u]
<1>1. /\ unsends \subseteq unsends' /\ excused \subseteq excused' /\ excused' \subseteq excused \cup {<<u, "scrub">>}
      /\ u \in Incoming => u \in unsends' /\ (queue' = Append(queue, q) \/ <<u, "scrub">> \in excused')
      /\ queue' = queue \/ queue' = Append(queue, q)
  <2>1. u \in Incoming => u \notin ownUnsends
    BY SortsApart DEF OutgoingShape
  <2> QED BY <2>1 DEF HandleUnsend
<1>2. q \in RemoteEvents /\ q.op = "remove" /\ q.id = u
  BY DEF RemoteEvents
<1> HIDE DEF q
<1>3. \A y : HasRow(y)' <=> HasRow(y)
  BY DEF HasRow
<1>4. /\ \A y : (ShowIn(y)' <=> ShowIn(y)) /\ (RemovalLast(y) => RemovalLast(y)')
      /\ queue' = Append(queue, q) => RemovalLast(u)'
      /\ \A n \in DOMAIN queue' : queue'[n] = q \/ \E k \in DOMAIN queue : queue'[n] = queue[k]
  <2>1. CASE queue' = queue
    <3>1. \A y : (ShowIn(y)' <=> ShowIn(y)) /\ (RemovalLast(y) => RemovalLast(y)')
      BY <2>1 DEF ShowIn, RemovalLast
    <3>2. queue' # Append(queue, q)
      BY <2>1, <1>2, AppendProperties, LenProperties DEF OutgoingShape
    <3> QED BY <2>1, <3>1, <3>2
  <2>2. CASE queue' = Append(queue, q)
    <3>1. \A y : (ShowIn(y)' <=> ShowIn(y)) /\ (RemovalLast(y) => RemovalLast(y)')
      BY <2>2, <1>2, Queued
    <3> QED BY <2>2, <3>1, <1>2, Queued
  <2> QED BY <1>1, <2>1, <2>2
<1>5. ASSUME NEW x \in retracted'
      PROVE  Excuse(x)' \/ (x \in unsends' /\ (RemovalLast(x)' \/ (~HasRow(x)' /\ ~ShowIn(x)')))
  <2>1. CASE x \in retracted
    BY <2>1, <1>1, <1>3, <1>4, Excused DEF GoneInv
  <2>2. CASE x = u /\ u \in Incoming
    <3>1. <<u, "scrub">> \in excused' => \A y : y = u => Excuse(y)'
      BY DEF Excuse
    <3> QED BY <2>2, <3>1, <1>1, <1>4
  <2> QED BY <2>1, <2>2
<1>6. \A d \in Reactions : <<d, "sent">> \in excused' =>
        (job'.at = "track" /\ job'.r = d) \/ d \in echoes' \/ <<d, "echo">> \in excused'
  BY <1>1 DEF EchoInv
<1>7. \A d \in Reactions : HasRow(d)' \/ ShowIn(d)' => <<d, "echo">> \in excused'
  BY <1>1, <1>3, <1>4 DEF EchoInv
<1>8. \A n \in DOMAIN queue' : queue'[n].op = "show" => queue'[n].id \in Incoming \cup Reactions
  BY <1>2, <1>4 DEF EchoInv
<1> QED BY <1>5, <1>6, <1>7, <1>8 DEF GoneInv, EchoInv

LEMMA RetractNews ==
  ASSUME OutgoingShape, GoneInv, EchoInv, NEW x \in Incoming, Retract(x) PROVE GoneInv' /\ EchoInv'
<1>1. x \in Ids /\ x \notin Pieces
  BY SortsApart
<1>2. HandleUnsend(x) /\ retracted' = retracted \cup {x} /\ UNCHANGED <<job, bridged, echoes>>
  BY DEF Retract
<1> QED BY <1>1, <1>2, UnsendNews

LEMMA UnsendArrivesNews ==
  ASSUME OutgoingShape, GoneInv, EchoInv, NEW p \in Pieces, UnsendArrives(p) PROVE GoneInv' /\ EchoInv'
<1>1. p \in Ids
  BY SortsApart
<1>2. HandleUnsend(p) /\ retracted' = retracted /\ UNCHANGED <<job, bridged, echoes>>
  BY DEF UnsendArrives
<1> QED BY <1>1, <1>2, UnsendNews

LEMMA HandleNews ==
  ASSUME OutgoingShape, GoneInv, EchoInv, Handle PROVE GoneInv' /\ EchoInv'
<1> DEFINE q == Head(queue)
<1>1. /\ queue # <<>> /\ queue' = Tail(queue)
      /\ bridged' = IF q.op = "remove" THEN {w \in bridged : w.id # q.id}
                    ELSE IF HasRow(q.id) THEN bridged ELSE bridged \cup {Row(q.id, q.id, {}, <<>>)}
      /\ UNCHANGED <<job, echoes, unsends, retracted, excused>>
  BY DEF Handle, Tracking
<1>2. /\ q = queue[1] /\ q \in RemoteEvents /\ 1 \in DOMAIN queue
      /\ \A u : ShowIn(u)' => ShowIn(u)
      /\ \A u : ShowIn(u) => ShowIn(u)' \/ (q.op = "show" /\ q.id = u)
      /\ \A u : RemovalLast(u) => RemovalLast(u)' \/ (q.op = "remove" /\ q.id = u /\ ~ShowIn(u)')
      /\ \A n \in DOMAIN queue' : \E k \in DOMAIN queue : queue'[n] = queue[k]
  BY <1>1, Taken
<1> HIDE DEF q
<1>3. q.op = "remove" => \A u : u = q.id => ~HasRow(u)'
  BY <1>1 DEF HasRow
<1>4. \A u : HasRow(u)' => HasRow(u) \/ (q.op = "show" /\ q.id = u)
  <2>1. q.op \in {"show", "remove"}
    BY <1>2 DEF RemoteEvents
  <2> QED BY <1>1, <2>1 DEF HasRow, Row
<1>5. q.op = "show" => ShowIn(q.id)
  BY <1>2 DEF ShowIn
<1>6. GoneInv'
  <2> SUFFICES ASSUME NEW x \in retracted, ~Excuse(x)
               PROVE  x \in unsends /\ (RemovalLast(x)' \/ (~HasRow(x)' /\ ~ShowIn(x)'))
    BY <1>1 DEF GoneInv, Excuse
  <2>1. x \in unsends /\ (RemovalLast(x) \/ (~HasRow(x) /\ ~ShowIn(x)))
    BY DEF GoneInv
  <2>2. CASE RemovalLast(x)
    BY <2>1, <2>2, <1>2, <1>3
  <2>3. CASE ~HasRow(x) /\ ~ShowIn(x)
    BY <2>1, <2>3, <1>2, <1>4, <1>5
  <2> QED BY <2>1, <2>2, <2>3
<1>7. \A r \in Reactions : HasRow(r)' \/ ShowIn(r)' => <<r, "echo">> \in excused'
  BY <1>1, <1>2, <1>4, <1>5 DEF EchoInv
<1>8. \A n \in DOMAIN queue' : queue'[n].op = "show" => queue'[n].id \in Incoming \cup Reactions
  BY <1>2 DEF EchoInv
<1> QED BY <1>1, <1>6, <1>7, <1>8 DEF EchoInv

LEMMA ExpireNews == ASSUME OutgoingShape, GoneInv, EchoInv, Expire PROVE GoneInv' /\ EchoInv'
<1>1. UNCHANGED <<job, queue, bridged, retracted>>
  BY DEF Expire
<1>2. \A u : (ShowIn(u)' <=> ShowIn(u)) /\ (RemovalLast(u)' <=> RemovalLast(u)) /\ (HasRow(u)' <=> HasRow(u))
  BY <1>1 DEF ShowIn, RemovalLast, HasRow
<1>3. \/ UNCHANGED <<unsends, echoes, excused>>
      \/ /\ unsends' = {} /\ echoes' = {}
         /\ excused' = excused \cup {<<u, "forgotten">> : u \in unsends} \cup {<<r, "echo">> : r \in echoes}
  BY DEF Expire, Tracking
<1>4. CASE UNCHANGED <<unsends, echoes, excused>>
  BY <1>1, <1>2, <1>4, Excused DEF GoneInv, EchoInv
<1>5. CASE /\ unsends' = {} /\ echoes' = {}
           /\ excused' = excused \cup {<<u, "forgotten">> : u \in unsends} \cup {<<r, "echo">> : r \in echoes}
  <2>1. (\A u \in unsends : Excuse(u)') /\ \A u : Excuse(u) => Excuse(u)'
    BY <1>5 DEF Excuse
  <2>2. GoneInv'
    BY <2>1, <1>1 DEF GoneInv
  <2>3. \A r \in Reactions : <<r, "sent">> \in excused' => <<r, "sent">> \in excused
    BY <1>5
  <2>4. \A r \in echoes : <<r, "echo">> \in excused'
    BY <1>5
  <2> QED BY <1>1, <1>2, <1>5, <2>2, <2>3, <2>4 DEF EchoInv
<1> QED BY <1>3, <1>4, <1>5

LEMMA CrashNews == ASSUME OutgoingShape, GoneInv, EchoInv, Crash PROVE GoneInv' /\ EchoInv'
<1>1. /\ queue' = <<>> /\ retracted' = retracted
      /\ excused' = excused \cup {<<u, "forgotten">> : u \in Ids} \cup {<<r, "echo">> : r \in Reactions}
  BY DEF Crash
<1>2. GoneInv'
  <2>1. \A x \in retracted' : x \in Ids
    BY <1>1, SortsApart DEF OutgoingShape
  <2>2. \A x \in Ids : Excuse(x)'
    BY <1>1 DEF Excuse
  <2> QED BY <2>1, <2>2 DEF GoneInv
<1>3. \A r \in Reactions : <<r, "echo">> \in excused'
  BY <1>1
<1>4. DOMAIN queue' = {}
  BY <1>1
<1> QED BY <1>2, <1>3, <1>4 DEF EchoInv

LEMMA OutgoingInitInv == ASSUME OutgoingInit PROVE OutgoingInv
<1>1. /\ job = NoJob /\ queue = <<>> /\ bridged = {} /\ retracted = {} /\ excused = {} /\ echoes = {}
      /\ unsends = {} /\ ownUnsends = {} /\ sendFaults = 0 /\ memo = NoMemo
      /\ stored = [u \in Ids |-> "none"] /\ phone = [p \in Pieces |-> "none"]
      /\ result = [e \in UserMessages \cup OwnEvents |-> "none"]
      /\ flag \in BOOLEAN /\ contactOn \in BOOLEAN /\ relayOn \in BOOLEAN /\ relayed = relayOn
  BY DEF OutgoingInit, OwnEvents
<1>2. OutgoingShape
  <2>1. memo \in Memos
    BY <1>1 DEF NoMemo, Memos, Answers
  <2>2. queue \in Seq(RemoteEvents)
    BY <1>1
  <2> QED BY <1>1, <2>1, <2>2 DEF OutgoingShape, Results
<1>3. job.at = "idle"
  BY <1>1 DEF NoJob
<1>4. \A e \in UserMessages : Untouched(<<e, 1>>) /\ Untouched(<<e, 2>>) /\ ~Apart(e)
  BY <1>1, TwoPieces DEF Untouched, Apart
<1>5. SentInv
  <2>1. UnsentInv /\ StageInv /\ UnsendInv
    BY <1>1, <1>3, <1>4 DEF UnsentInv, StageInv, UnsendInv, SendStages
  <2>2. RowsInv /\ EveryPieceRecalled /\ NoSilentLoss
    BY <1>1 DEF RowsInv, EveryPieceRecalled, NoSilentLoss
  <2> QED BY <2>1, <2>2 DEF SentInv
<1>6. GoneInv /\ EchoInv
  <2>1. DOMAIN queue = {}
    BY <1>1
  <2> QED BY <1>1, <2>1 DEF GoneInv, EchoInv, HasRow, ShowIn
<1>7. ListedInv
  BY <1>1 DEF ListedInv, NoMemo
<1> QED BY <1>2, <1>5, <1>6, <1>7 DEF OutgoingInv

LEMMA OutgoingStep == ASSUME OutgoingInv, [OutgoingNext]_outgoingVars PROVE OutgoingInv'
<1> USE DEF OutgoingInv
<1>22. ListedInv'
  BY ListedSteps
<1>1. CASE UNCHANGED outgoingVars
  <2> USE DEF Clear, Gone, Known, Loose, Apart, Untouched
  <2>1. OutgoingShape'
    BY <1>1 DEF outgoingVars, OutgoingShape
  <2>3. UnsentInv' /\ StageInv'
    BY <1>1 DEF outgoingVars, SentInv, UnsentInv, StageInv
  <2>4. RowsInv'
    BY <1>1 DEF outgoingVars, SentInv, RowsInv, OwnRow
  <2>5. UnsendInv'
    BY <1>1 DEF outgoingVars, SentInv, UnsendInv, PiecesOf
  <2>6. EveryPieceRecalled' /\ NoSilentLoss'
    BY <1>1 DEF outgoingVars, SentInv, PiecesOf, EveryPieceRecalled, NoSilentLoss
  <2>2. GoneInv' /\ EchoInv'
    BY <1>1 DEF outgoingVars, GoneInv, EchoInv, Excuse, RemovalLast, ShowIn, HasRow
  <2> QED BY <2>1, <2>2, <2>3, <2>4, <2>5, <2>6, <1>22 DEF SentInv
<1>2. ASSUME NEW e \in UserMessages, NEW kind \in Kinds, Begin(e, kind) PROVE OutgoingInv'
  BY <1>2, <1>22, BeginShape, BeginSent, QuietSteps
<1>3. CASE Route
  BY <1>3, <1>22, RouteShape, RouteSent, QuietSteps
<1>4. CASE Relay
  BY <1>4, <1>22, RelayShape, RelaySent, QuietSteps
<1>5. CASE SendPiece
  BY <1>5, <1>22, SendPieceShape, SendPieceSent, QuietSteps
<1>6. CASE Record
  BY <1>6, <1>22, RecordShape, RecordSent, QuietSteps
<1>7. CASE Hide
  BY <1>7, <1>22, HideShape, HideSent, QuietSteps
<1>8. CASE SaveRows
  <2>1. job.puppet => job.kind = "captioned"
    BY <1>8 DEF SaveRows, SentInv, StageInv, SendStages
  <2> QED BY <2>1, <1>8, <1>22, SaveRowsShape, SaveRowsSent, QuietSteps
<1>9. ASSUME NEW w \in bridged, Redact(w) PROVE OutgoingInv'
  <2>1. RowsInv
    BY DEF SentInv
  <2> QED BY <2>1, <1>9, <1>22, RedactShape, RedactSent, QuietSteps
<1>10. CASE Unsend
  BY <1>10, <1>22, UnsendShape, UnsendSent, QuietSteps
<1>11. CASE Removed
  BY <1>11, <1>22, RemovedShape, RemovedSent, QuietSteps
<1>12. CASE Change
  BY <1>12, <1>22, ChangeShape, BesideSent, QuietSteps
<1>13. ASSUME NEW r \in Reactions, React(r) PROVE OutgoingInv'
  BY <1>13, <1>22, ReactShape, BesideSent, ReactNews
<1>14. ASSUME NEW r \in Reactions, ReactionEcho(r) PROVE OutgoingInv'
  BY <1>14, <1>22, ReactionEchoShape, BesideSent, ReactionEchoNews
<1>15. CASE Track
  BY <1>15, <1>22, TrackShape, BesideSent, TrackNews
<1>16. ASSUME NEW x \in Incoming, NEW sms \in BOOLEAN, Arrives(x, sms) PROVE OutgoingInv'
  BY <1>16, <1>22, ArrivesShape, BesideSent, ArrivesNews
<1>17. ASSUME NEW x \in Incoming, Retract(x) PROVE OutgoingInv'
  BY <1>17, <1>22, RetractShape, BesideSent, RetractNews
<1>18. ASSUME NEW p \in Pieces, UnsendArrives(p) PROVE OutgoingInv'
  BY <1>18, <1>22, UnsendArrivesShape, BesideSent, UnsendArrivesNews
<1>19. CASE Handle
  <2>1. RowsInv
    BY DEF SentInv
  <2> QED BY <2>1, <1>19, <1>22, HandleShape, HandleSent, HandleNews
<1>20. CASE Expire
  BY <1>20, <1>22, ExpireShape, BesideSent, ExpireNews
<1>21. CASE Crash
  BY <1>21, <1>22, CrashShape, CrashSent, CrashNews
<1> HIDE DEF OutgoingInv
<1> QED BY <1>1, <1>2, <1>3, <1>4, <1>5, <1>6, <1>7, <1>8, <1>9, <1>10, <1>11, <1>12, <1>13, <1>14, <1>15,
           <1>16, <1>17, <1>18, <1>19, <1>20, <1>21 DEF OutgoingNext

(* The inductive invariant: one job sends a message, and what its events name *)
(* is what went out; what a redaction has dealt with stays dealt with; what   *)
(* was taken back is remembered and its removal is the last word in the queue.*)
THEOREM OutgoingSafe == OutgoingSpec => []OutgoingInv
<1> QED BY OutgoingInitInv, OutgoingStep, PTL DEF OutgoingSpec

(* A redaction told as done took back the piece its event is named for, and   *)
(* asked Apple for every other the bridge has a uuid of                       *)
(* (HandleMatrixMessageRemove).                                               *)
THEOREM RedactionsReach == OutgoingSpec => []EveryPieceRecalled
<1>1. OutgoingInv => EveryPieceRecalled
  BY DEF OutgoingInv, SentInv
<1> QED BY <1>1, OutgoingSafe, PTL

(* A piece told as sent that reached nobody was given to a relay the native   *)
(* side still had listed (has_sms_relay, send_message).                       *)
THEOREM RelayLossKnown == OutgoingSpec => []NoSilentLoss
<1>1. OutgoingInv => NoSilentLoss
  BY DEF OutgoingInv, SentInv
<1> QED BY <1>1, OutgoingSafe, PTL

(* What was taken back, and the text a reaction left as, are not shown, but   *)
(* for what the five-minute memory or a failed scrub explains (handleUnsend,  *)
(* trackSmsReactionEcho).                                                     *)
THEOREM TakenBackStaysGone == OutgoingSpec => []NothingReturns
<1>1. OutgoingInv => NothingReturns
  <2> SUFFICES ASSUME OutgoingInv PROVE UnsentStaysGone /\ ReactionSilent
    BY DEF NothingReturns
  <2>1. ASSUME queue = <<>>, NEW x \in retracted, HasRow(x) PROVE Excuse(x)
    <3>1. ~RemovalLast(x)
      <4>1. DOMAIN queue = {}
        BY <2>1
      <4> QED BY <4>1 DEF RemovalLast
    <3> QED BY <2>1, <3>1 DEF OutgoingInv, GoneInv
  <2>2. UnsentStaysGone
    BY <2>1 DEF UnsentStaysGone, Excuse
  <2>3. ReactionSilent
    BY DEF ReactionSilent, OutgoingInv, EchoInv
  <2> QED BY <2>2, <2>3
<1> QED BY <1>1, OutgoingSafe, PTL

-----------------------------------------------------------------------------
(* Group routing.  What is known of a group, its UUIDs and its member lists,*)
(* leads to its own portals: those of its UUIDs and of the rosters it had.  *)
(* Everything below is said of a set K of groups and of its complement, for *)
(* the rosters ev that the groups have had.                                 *)

UuidsOf(K) == UNION {GuidsOf[c] : c \in K}

(* The member lists that events and rows of these groups may give.         *)
ListsOf(ev, K) ==
  {L \in SUBSET (Others \cup MyHandles) : \E c \in K : NonSelf(L) \in ev[c]}

OwnPortals(ev, K) ==
  {Gid(u) : u \in UuidsOf(K)} \cup {Comma(S \cup {Me}) : S \in UNION {ev[c] : c \in K}}

NeverShared(ev, K) == \A c \in K, o \in Groups \ K : ev[c] \cap ev[o] = {}

(* Where a value of V is stored under a portal, and what it is mapped to.  *)
StoredAt(f, V, M) == \A x \in DOMAIN f : f[x] \in V => x \in M
LeadsTo(f, V, M) == \A x \in DOMAIN f : x \in V => f[x] \in M

CommaPortals == {Comma(S \cup {Me}) : S \in SUBSET Others}
CacheFields ==
  {"guids", "parts", "sms", "index", "last", "alias", "indexed", "starting", "plan"}
StoreFields == {"rooms", "rows", "guid", "sms"}

CachesKnown(m, ev) ==
  /\ DOMAIN m = CacheFields
  /\ \A p \in DOMAIN m.parts : m.parts[p] \in ListsOf(ev, Groups)
  /\ m.index \subseteq CommaPortals
  /\ DOMAIN m.plan = {"key", "first", "left"}
  /\ m.plan.left \subseteq OwnPortals(ev, Groups) /\ m.plan.key \notin m.plan.left

CachesKept(m, ev, K) ==
  /\ StoredAt(m.guids, UuidsOf(K), OwnPortals(ev, K))
  /\ StoredAt(m.parts, ListsOf(ev, K), OwnPortals(ev, K))
  /\ LeadsTo(m.alias, UuidsOf(K), OwnPortals(ev, K))
  /\ \A p \in m.plan.left : p \in OwnPortals(ev, K) => m.plan.key \in OwnPortals(ev, K)

StoreKnown(d, ev) ==
  /\ DOMAIN d = StoreFields
  /\ d.rooms \subseteq Portals
  /\ \A u \in DOMAIN d.rows : /\ DOMAIN d.rows[u] = {"portal", "parts", "carrier"}
                              /\ d.rows[u].parts \in ListsOf(ev, Groups)

RowsKept(table, ev, K) ==
  \A u \in DOMAIN table :
    u \in UuidsOf(K) \/ table[u].parts \in ListsOf(ev, K) => table[u].portal \in OwnPortals(ev, K)

StoreKept(d, ev, K) ==
  /\ StoredAt(d.guid, UuidsOf(K), OwnPortals(ev, K))
  /\ RowsKept(d.rows, ev, K)

WritesKnown(js, ev) ==
  \A j \in js :
    /\ j.portal \in Portals
    /\ j.parts \in ListsOf(ev, Groups) \cup {{}}
    /\ j.kind \in {"insert", "sync"} => j.parts # {}

WritesKept(js, ev, K) ==
  \A j \in js :
    j.guid \in UuidsOf(K) \/ j.parts \in ListsOf(ev, K) => j.portal \in OwnPortals(ev, K)

HomesKept(h, ev, K) == \A c \in K : h[c] \subseteq OwnPortals(ev, K)

Routed(m, d, js, h, ev) ==
  /\ ev \in [Groups -> SUBSET Rosters] /\ DOMAIN h = Groups
  /\ CachesKnown(m, ev) /\ StoreKnown(d, ev) /\ WritesKnown(js, ev)
  /\ \A K \in SUBSET Groups : NeverShared(ev, K) =>
       /\ CachesKept(m, ev, K) /\ StoreKept(d, ev, K)
       /\ WritesKept(js, ev, K) /\ HomesKept(h, ev, K)

AliasesHaveRooms(m, d) == \A u \in DOMAIN m.alias : m.alias[u] \in d.rooms

RoutingInv ==
  /\ roster \in [Groups -> Rosters]
  /\ \A c \in Groups : roster[c] \in ever[c]
  /\ Routed(mem, db, jobs, home, ever)
  /\ AliasesHaveRooms(mem, db)

(* A portal, a list and a UUID are of at most one of the two sides.        *)
LEMMA PortalOfOneSide ==
  ASSUME NEW ev \in [Groups -> SUBSET Rosters], NEW K \in SUBSET Groups, NeverShared(ev, K),
         NEW x \in OwnPortals(ev, K)
  PROVE  x \notin OwnPortals(ev, Groups \ K)
<1>1. ASSUME NEW u \in UuidsOf(K), x = Gid(u), x \in OwnPortals(ev, Groups \ K) PROVE FALSE
  <2>1. \A S : x # Comma(S)  BY <1>1 DEF Gid, Comma
  <2>2. PICK w \in UuidsOf(Groups \ K) : x = Gid(w)  BY <1>1, <2>1 DEF OwnPortals
  <2>3. u = w  BY <1>1, <2>2 DEF Gid
  <2> QED  BY <2>3, RoutingAssumption DEF UuidsOf
<1>2. ASSUME NEW S \in UNION {ev[c] : c \in K}, x = Comma(S \cup {Me}),
             x \in OwnPortals(ev, Groups \ K)
      PROVE  FALSE
  <2>1. \A u : x # Gid(u)  BY <1>2 DEF Gid, Comma
  <2>2. PICK T \in UNION {ev[c] : c \in Groups \ K} : x = Comma(T \cup {Me})
    BY <1>2, <2>1 DEF OwnPortals
  <2>3. S \cup {Me} = T \cup {Me}  BY <1>2, <2>2 DEF Comma
  <2>4. Me \notin S /\ Me \notin T  BY RoutingAssumption
  <2>5. S = T  BY <2>3, <2>4
  <2> QED  BY <2>5 DEF NeverShared
<1> QED  BY <1>1, <1>2 DEF OwnPortals

LEMMA ListOfOneSide ==
  ASSUME NEW ev, NEW K \in SUBSET Groups, NeverShared(ev, K), NEW L \in ListsOf(ev, K)
  PROVE  L \notin ListsOf(ev, Groups \ K)
BY DEF ListsOf, NeverShared

LEMMA UuidOfOneSide ==
  ASSUME NEW K \in SUBSET Groups, NEW u \in UuidsOf(K)
  PROVE  u \notin UuidsOf(Groups \ K)
BY RoutingAssumption DEF UuidsOf

(* Each is of one of them, and the sides are alike.                        *)
LEMMA Sides ==
  ASSUME NEW ev, NEW K \in SUBSET Groups
  PROVE  /\ NeverShared(ev, K) => NeverShared(ev, Groups \ K)
         /\ NeverShared(ev, Groups)
         /\ \A L \in ListsOf(ev, Groups) : L \in ListsOf(ev, K) \/ L \in ListsOf(ev, Groups \ K)
         /\ \A x \in OwnPortals(ev, Groups) :
              x \in OwnPortals(ev, K) \/ x \in OwnPortals(ev, Groups \ K)
<1>1. NeverShared(ev, K) => NeverShared(ev, Groups \ K)  BY DEF NeverShared
<1>2. NeverShared(ev, Groups)  BY DEF NeverShared
<1>3. \A L \in ListsOf(ev, Groups) : L \in ListsOf(ev, K) \/ L \in ListsOf(ev, Groups \ K)
  BY DEF ListsOf
<1>4. ASSUME NEW x \in OwnPortals(ev, Groups)
      PROVE  x \in OwnPortals(ev, K) \/ x \in OwnPortals(ev, Groups \ K)
  BY <1>4 DEF OwnPortals, UuidsOf
<1> QED  BY <1>1, <1>2, <1>3, <1>4

LEMMA OwnPortalsAre ==
  ASSUME NEW ev \in [Groups -> SUBSET Rosters], NEW K \in SUBSET Groups
  PROVE  /\ OwnPortals(ev, K) \subseteq Portals
         /\ \A u \in UuidsOf(K) : Gid(u) \in OwnPortals(ev, K) /\ u # None
         /\ \A L \in ListsOf(ev, K) : Comma(Canonical(L)) \in OwnPortals(ev, K)
         /\ \A u : Gid(u) \in OwnPortals(ev, K) => u \in UuidsOf(K)
<1>1. ASSUME NEW x \in OwnPortals(ev, K) PROVE x \in Portals
  <2>1. CASE \E u \in UuidsOf(K) : x = Gid(u)
    BY <2>1, RoutingAssumption DEF UuidsOf, Portals
  <2>2. CASE \E S \in UNION {ev[c] : c \in K} : x = Comma(S \cup {Me})
    <3>1. PICK S \in UNION {ev[c] : c \in K} : x = Comma(S \cup {Me})  BY <2>2
    <3>2. S \in SUBSET Others  BY RoutingAssumption
    <3> QED  BY <3>1, <3>2 DEF Portals
  <2> QED  BY <1>1, <2>1, <2>2 DEF OwnPortals
<1>2. ASSUME NEW u \in UuidsOf(K) PROVE Gid(u) \in OwnPortals(ev, K) /\ u # None
  BY RoutingAssumption DEF OwnPortals, UuidsOf
<1>3. ASSUME NEW L \in ListsOf(ev, K) PROVE Comma(Canonical(L)) \in OwnPortals(ev, K)
  BY DEF ListsOf, OwnPortals, Canonical
<1>4. ASSUME NEW u, Gid(u) \in OwnPortals(ev, K) PROVE u \in UuidsOf(K)
  <2>1. \A S : Gid(u) # Comma(S)  BY DEF Gid, Comma
  <2>2. PICK w \in UuidsOf(K) : Gid(u) = Gid(w)  BY <1>4, <2>1 DEF OwnPortals
  <2> QED  BY <2>2 DEF Gid
<1> QED  BY <1>1, <1>2, <1>3, <1>4

(* Lists are not empty, and of the others and us.                          *)
LEMMA ListsAre ==
  ASSUME NEW ev \in [Groups -> SUBSET Rosters], NEW K \in SUBSET Groups
  PROVE  {} \notin ListsOf(ev, K)
<1>1. ASSUME NEW S \in Rosters, S = {} PROVE FALSE
  <2>1. Cardinality(S) = 0  BY <1>1, FS_EmptySet
  <2>2. Cardinality(S) >= 2  BY RoutingAssumption
  <2> QED  BY <2>1, <2>2
<1>2. NonSelf({}) = {}  BY DEF NonSelf
<1> QED  BY <1>1, <1>2 DEF ListsOf

-----------------------------------------------------------------------------
(* Rosters are added to what groups have had.                              *)
LEMMA SidesGrow ==
  ASSUME NEW ev \in [Groups -> SUBSET Rosters], NEW ev2 \in [Groups -> SUBSET Rosters],
         \A c \in Groups : ev[c] \subseteq ev2[c], NEW K \in SUBSET Groups
  PROVE  /\ NeverShared(ev2, K) => NeverShared(ev, K)
         /\ OwnPortals(ev, K) \subseteq OwnPortals(ev2, K)
         /\ ListsOf(ev, K) \subseteq ListsOf(ev2, K)
<1>1. NeverShared(ev2, K) => NeverShared(ev, K)  BY DEF NeverShared
<1>2. OwnPortals(ev, K) \subseteq OwnPortals(ev2, K)
  <2>1. UNION {ev[c] : c \in K} \subseteq UNION {ev2[c] : c \in K}  OBVIOUS
  <2> QED  BY <2>1 DEF OwnPortals
<1>3. ListsOf(ev, K) \subseteq ListsOf(ev2, K)  BY DEF ListsOf
<1> QED  BY <1>1, <1>2, <1>3

(* What was a group's is not another's for a roster added later, as long   *)
(* as the two have never been the same people.                             *)
LEMMA SidesStay ==
  ASSUME NEW ev \in [Groups -> SUBSET Rosters], NEW ev2 \in [Groups -> SUBSET Rosters],
         \A c \in Groups : ev[c] \subseteq ev2[c], NEW K \in SUBSET Groups, NeverShared(ev2, K)
  PROVE  /\ \A L \in ListsOf(ev, Groups) : L \in ListsOf(ev2, K) => L \in ListsOf(ev, K)
         /\ \A x \in OwnPortals(ev, Groups) : x \in OwnPortals(ev2, K) => x \in OwnPortals(ev, K)
<1>1. NeverShared(ev2, Groups \ K) /\ (Groups \ K) \in SUBSET Groups  BY Sides
<1>2. /\ OwnPortals(ev, Groups \ K) \subseteq OwnPortals(ev2, Groups \ K)
      /\ ListsOf(ev, Groups \ K) \subseteq ListsOf(ev2, Groups \ K)
  BY <1>1, SidesGrow
<1>3. ASSUME NEW L \in ListsOf(ev, Groups), L \in ListsOf(ev2, K) PROVE L \in ListsOf(ev, K)
  BY <1>2, <1>3, Sides, ListOfOneSide
<1>4. ASSUME NEW x \in OwnPortals(ev, Groups), x \in OwnPortals(ev2, K)
      PROVE  x \in OwnPortals(ev, K)
  BY <1>2, <1>4, Sides, PortalOfOneSide
<1> QED  BY <1>3, <1>4

(* All that is kept stays so when only the rosters that were had change.   *)
LEMMA RoutedGrows ==
  ASSUME NEW m, NEW d, NEW js, NEW h, NEW ev, NEW ev2 \in [Groups -> SUBSET Rosters],
         \A c \in Groups : ev[c] \subseteq ev2[c], Routed(m, d, js, h, ev)
  PROVE  Routed(m, d, js, h, ev2)
<1>1. ev \in [Groups -> SUBSET Rosters] /\ DOMAIN h = Groups  BY DEF Routed
<1>2. CachesKnown(m, ev) /\ StoreKnown(d, ev) /\ WritesKnown(js, ev)  BY DEF Routed
<1>3. /\ OwnPortals(ev, Groups) \subseteq OwnPortals(ev2, Groups)
      /\ ListsOf(ev, Groups) \subseteq ListsOf(ev2, Groups)
  BY <1>1, SidesGrow
<1>4. CachesKnown(m, ev2)  BY <1>2, <1>3 DEF CachesKnown
<1>5. StoreKnown(d, ev2)  BY <1>2, <1>3 DEF StoreKnown
<1>6. WritesKnown(js, ev2)  BY <1>2, <1>3 DEF WritesKnown
<1>7. ASSUME NEW K \in SUBSET Groups, NeverShared(ev2, K)
      PROVE  /\ CachesKept(m, ev2, K) /\ StoreKept(d, ev2, K)
             /\ WritesKept(js, ev2, K) /\ HomesKept(h, ev2, K)
  <2>1. /\ NeverShared(ev, K) /\ OwnPortals(ev, K) \subseteq OwnPortals(ev2, K)
        /\ ListsOf(ev, K) \subseteq ListsOf(ev2, K)
    BY <1>1, <1>7, SidesGrow
  <2>2. /\ CachesKept(m, ev, K) /\ StoreKept(d, ev, K)
        /\ WritesKept(js, ev, K) /\ HomesKept(h, ev, K)
    BY <2>1 DEF Routed
  <2>3. /\ \A L \in ListsOf(ev, Groups) : L \in ListsOf(ev2, K) => L \in ListsOf(ev, K)
        /\ \A x \in OwnPortals(ev, Groups) : x \in OwnPortals(ev2, K) => x \in OwnPortals(ev, K)
    BY <1>1, <1>7, SidesStay
  <2>4. CachesKept(m, ev2, K)
    <3>1. StoredAt(m.guids, UuidsOf(K), OwnPortals(ev2, K))
      BY <2>1, <2>2 DEF CachesKept, StoredAt
    <3>2. StoredAt(m.parts, ListsOf(ev2, K), OwnPortals(ev2, K))
      BY <1>2, <2>1, <2>2, <2>3 DEF CachesKept, CachesKnown, StoredAt
    <3>3. LeadsTo(m.alias, UuidsOf(K), OwnPortals(ev2, K))
      BY <2>1, <2>2 DEF CachesKept, LeadsTo
    <3>4. \A x \in m.plan.left : x \in OwnPortals(ev2, K) => m.plan.key \in OwnPortals(ev2, K)
      BY <1>2, <2>1, <2>2, <2>3 DEF CachesKept, CachesKnown
    <3> QED  BY <3>1, <3>2, <3>3, <3>4 DEF CachesKept
  <2>5. StoreKept(d, ev2, K)
    <3>1. StoredAt(d.guid, UuidsOf(K), OwnPortals(ev2, K))
      BY <2>1, <2>2 DEF StoreKept, StoredAt
    <3>2. RowsKept(d.rows, ev2, K)
      BY <1>2, <2>1, <2>2, <2>3 DEF StoreKept, StoreKnown, RowsKept
    <3> QED  BY <3>1, <3>2 DEF StoreKept
  <2>6. WritesKept(js, ev2, K)
    <3>1. {} \notin ListsOf(ev2, K)  BY ListsAre
    <3> QED  BY <1>2, <2>1, <2>2, <2>3, <3>1 DEF WritesKnown, WritesKept
  <2>7. HomesKept(h, ev2, K)  BY <2>1, <2>2 DEF HomesKept
  <2> QED  BY <2>4, <2>5, <2>6, <2>7
<1> QED  BY <1>1, <1>4, <1>5, <1>6, <1>7 DEF Routed

-----------------------------------------------------------------------------
(* The operations on maps.                                                 *)
LEMMA PutStored ==
  ASSUME NEW f, NEW V, NEW M, NEW x, NEW v, StoredAt(f, V, M), v \in V => x \in M
  PROVE  StoredAt(Put(f, x, v), V, M)
BY DEF StoredAt, Put

LEMMA PutLeads ==
  ASSUME NEW f, NEW V, NEW M, NEW x, NEW v, LeadsTo(f, V, M), x \in V => v \in M
  PROVE  LeadsTo(Put(f, x, v), V, M)
BY DEF LeadsTo, Put

LEMMA WithoutStored ==
  ASSUME NEW f, NEW V, NEW M, NEW D, StoredAt(f, V, M)
  PROVE  StoredAt(Without(f, D), V, M)
BY DEF StoredAt, Without, Restrict

LEMMA WithoutLeads ==
  ASSUME NEW f, NEW V, NEW M, NEW D, LeadsTo(f, V, M)
  PROVE  LeadsTo(Without(f, D), V, M)
BY DEF LeadsTo, Without, Restrict

LEMMA RenamedStored ==
  ASSUME NEW f, NEW V, NEW M, NEW x, NEW y, StoredAt(f, V, M), x \in M => y \in M
  PROVE  StoredAt(Renamed(f, x, y), V, M)
<1>1. CASE x \notin DOMAIN f  BY <1>1 DEF Renamed
<1>2. CASE x \in DOMAIN f
  <2>1. StoredAt(Without(f, {x}), V, M)  BY WithoutStored
  <2>2. f[x] \in V => y \in M  BY <1>2 DEF StoredAt
  <2>3. StoredAt(Put(Without(f, {x}), y, f[x]), V, M)  BY <2>1, <2>2, PutStored
  <2> QED  BY <1>2, <2>3 DEF Renamed
<1> QED  BY <1>1, <1>2

LEMMA RedirectedLeads ==
  ASSUME NEW f, NEW V, NEW M, NEW x, NEW y, LeadsTo(f, V, M), x \in M => y \in M
  PROVE  LeadsTo(Redirected(f, x, y), V, M)
BY DEF LeadsTo, Redirected

(* Values that are all in V stay so.                                       *)
LEMMA PutWithin ==
  ASSUME NEW f, NEW V, NEW x, NEW v \in V, \A z \in DOMAIN f : f[z] \in V
  PROVE  \A z \in DOMAIN Put(f, x, v) : Put(f, x, v)[z] \in V
BY DEF Put

LEMMA RenamedWithin ==
  ASSUME NEW f, NEW V, NEW x, NEW y, \A z \in DOMAIN f : f[z] \in V
  PROVE  \A z \in DOMAIN Renamed(f, x, y) : Renamed(f, x, y)[z] \in V
<1>1. CASE x \notin DOMAIN f  BY <1>1 DEF Renamed
<1>2. CASE x \in DOMAIN f
  <2>1. \A z \in DOMAIN Without(f, {x}) : Without(f, {x})[z] \in V  BY DEF Without, Restrict
  <2> QED  BY <1>2, <2>1, PutWithin DEF Renamed
<1> QED  BY <1>1, <1>2

-----------------------------------------------------------------------------
(* Moving a portal, to one of the same side.                               *)
LEMMA FollowedPlan ==
  ASSUME NEW m, NEW x, NEW y, DOMAIN m = CacheFields
  PROVE  Followed(m, x, y).plan = m.plan
BY DEF Followed, CacheFields

LEMMA FollowedKept ==
  ASSUME NEW m, NEW ev, NEW x, NEW y, CachesKnown(m, ev), IsComma(y) => y \in CommaPortals
  PROVE  /\ CachesKnown(Followed(m, x, y), ev)
         /\ \A K \in SUBSET Groups :
              CachesKept(m, ev, K) /\ (x \in OwnPortals(ev, K) => y \in OwnPortals(ev, K))
                => CachesKept(Followed(m, x, y), ev, K)
<1>0. DOMAIN m = CacheFields  BY DEF CachesKnown
<1>1. /\ DOMAIN Followed(m, x, y) = CacheFields
      /\ Followed(m, x, y).guids = Renamed(m.guids, x, y)
      /\ Followed(m, x, y).parts = Renamed(m.parts, x, y)
      /\ Followed(m, x, y).index
           = (m.index \ {x}) \cup (IF m.indexed /\ IsComma(y) THEN {y} ELSE {})
      /\ Followed(m, x, y).alias = Redirected(m.alias, x, y)
      /\ Followed(m, x, y).plan = m.plan
  BY <1>0 DEF Followed, CacheFields
<1>2. CachesKnown(Followed(m, x, y), ev)
  <2>1. \A p \in DOMAIN Followed(m, x, y).parts :
          Followed(m, x, y).parts[p] \in ListsOf(ev, Groups)
    BY <1>1, RenamedWithin DEF CachesKnown
  <2>2. Followed(m, x, y).index \subseteq CommaPortals  BY <1>1 DEF CachesKnown
  <2> QED  BY <1>1, <2>1, <2>2 DEF CachesKnown
<1>3. ASSUME NEW K \in SUBSET Groups, CachesKept(m, ev, K),
             x \in OwnPortals(ev, K) => y \in OwnPortals(ev, K)
      PROVE  CachesKept(Followed(m, x, y), ev, K)
  <2>1. StoredAt(Followed(m, x, y).guids, UuidsOf(K), OwnPortals(ev, K))
    BY <1>1, <1>3, RenamedStored DEF CachesKept
  <2>2. StoredAt(Followed(m, x, y).parts, ListsOf(ev, K), OwnPortals(ev, K))
    BY <1>1, <1>3, RenamedStored DEF CachesKept
  <2>3. LeadsTo(Followed(m, x, y).alias, UuidsOf(K), OwnPortals(ev, K))
    BY <1>1, <1>3, RedirectedLeads DEF CachesKept
  <2> QED  BY <1>1, <1>3, <2>1, <2>2, <2>3 DEF CachesKept
<1> QED  BY <1>1, <1>2, <1>3

LEMMA MovedKept ==
  ASSUME NEW d, NEW ev, NEW x, NEW y \in Portals, StoreKnown(d, ev)
  PROVE  /\ StoreKnown(Moved(d, x, y), ev)
         /\ \A K \in SUBSET Groups :
              StoreKept(d, ev, K) /\ (x \in OwnPortals(ev, K) => y \in OwnPortals(ev, K))
                => StoreKept(Moved(d, x, y), ev, K)
<1>0. DOMAIN d = StoreFields  BY DEF StoreKnown
<1>1. /\ DOMAIN Moved(d, x, y) = StoreFields
      /\ Moved(d, x, y).rows = d.rows
      /\ Moved(d, x, y).rooms \subseteq d.rooms \cup {y}
      /\ Moved(d, x, y).guid \in {d.guid, Without(d.guid, {x}), Renamed(d.guid, x, y)}
  <2>1. CASE x \notin d.rooms  BY <1>0, <2>1 DEF Moved
  <2>2. CASE x \in d.rooms /\ y \in d.rooms  BY <1>0, <2>2 DEF Moved, StoreFields
  <2>3. CASE x \in d.rooms /\ y \notin d.rooms  BY <1>0, <2>3 DEF Moved, StoreFields
  <2> QED  BY <2>1, <2>2, <2>3
<1>2. StoreKnown(Moved(d, x, y), ev)  BY <1>1 DEF StoreKnown
<1>3. ASSUME NEW K \in SUBSET Groups, StoreKept(d, ev, K),
             x \in OwnPortals(ev, K) => y \in OwnPortals(ev, K)
      PROVE  StoreKept(Moved(d, x, y), ev, K)
  <2>1. StoredAt(d.guid, UuidsOf(K), OwnPortals(ev, K))  BY <1>3 DEF StoreKept
  <2>2. /\ StoredAt(Without(d.guid, {x}), UuidsOf(K), OwnPortals(ev, K))
        /\ StoredAt(Renamed(d.guid, x, y), UuidsOf(K), OwnPortals(ev, K))
    BY <1>3, <2>1, RenamedStored, WithoutStored
  <2> QED  BY <1>1, <1>3, <2>1, <2>2 DEF StoreKept
<1> QED  BY <1>2, <1>3

LEMMA HomesMovedKept ==
  ASSUME NEW h, NEW ev, NEW x, NEW y, DOMAIN h = Groups, NEW K \in SUBSET Groups,
         HomesKept(h, ev, K), x \in OwnPortals(ev, K) => y \in OwnPortals(ev, K)
  PROVE  HomesKept(HomeMoved(h, x, y), ev, K)
BY DEF HomesKept, HomeMoved

-----------------------------------------------------------------------------
(* Finding the portal of an event: for every side K, a list of K leads to   *)
(* a portal of K, and what is remembered is kept on its side.              *)

LEMMA IndexIsComma ==
  ASSUME NEW m, NEW ev, CachesKnown(m, ev), StoreKnown(db, ev)
  PROVE  Index(m) \subseteq CommaPortals
<1>1. ASSUME NEW x \in db.rooms, IsComma(x) PROVE x \in CommaPortals
  <2>1. x \in Portals  BY <1>1 DEF StoreKnown
  <2>2. \A u : x # Gid(u) /\ x # DirectPortal(u)  BY <1>1 DEF IsComma, Gid, DirectPortal
  <2> QED  BY <2>1, <2>2 DEF Portals, CommaPortals
<1>2. m.index \subseteq CommaPortals  BY DEF CachesKnown
<1> QED  BY <1>1, <1>2 DEF Index

LEMMA IndexedKept ==
  ASSUME NEW m, NEW ev \in [Groups -> SUBSET Rosters], NEW K \in SUBSET Groups,
         CachesKnown(m, ev), StoreKnown(db, ev), NEW L \in ListsOf(ev, K), NEW x \in Indexed(m, L)
  PROVE  x \in OwnPortals(ev, K)
<1>1. x \in CommaPortals /\ NonSelf(L) = NonSelf(x[2])  BY IndexIsComma DEF Indexed, SetsMatch
<1>2. PICK S \in SUBSET Others : x = Comma(S \cup {Me})  BY <1>1 DEF CommaPortals
<1>3. x[2] = S \cup {Me}  BY <1>2 DEF Comma
<1>4. NonSelf(S \cup {Me}) = S  BY RoutingAssumption DEF NonSelf, MyHandles
<1>5. x = Comma(Canonical(L))  BY <1>1, <1>2, <1>3, <1>4 DEF Canonical
<1> QED  BY <1>5, OwnPortalsAre

LEMMA ByMembersKept ==
  ASSUME NEW m, NEW ev \in [Groups -> SUBSET Rosters], NEW K \in SUBSET Groups,
         CachesKnown(m, ev), StoreKnown(db, ev), CachesKept(m, ev, K), StoreKept(db, ev, K),
         NEW u \in UuidsOf(K), NEW L \in ListsOf(ev, K), NEW x \in ByMembers(m, u, L)
  PROVE  x \in OwnPortals(ev, K)
<1> DEFINE inCache == {p \in DOMAIN m.parts : /\ IsGid(p) /\ p # Gid(u) /\ HasRoom(p)
                                              /\ SetsMatch(m.parts[p], L)}
           inStore == {p \in {db.rows[v].portal : v \in DOMAIN db.rows} :
                          /\ IsGroupPortal(p) /\ p # Gid(u) /\ HasRoom(p)
                          /\ SetsMatch(StoredRoster(db, p), L)}
<1>1. x \in inCache \cup Indexed(m, L) \cup inStore \cup {Gid(u)}  BY DEF ByMembers
<1>2. CASE x \in inCache
  <2>1. m.parts[x] \in ListsOf(ev, Groups) /\ NonSelf(m.parts[x]) = NonSelf(L) /\ x \in DOMAIN m.parts
    BY <1>2 DEF CachesKnown, SetsMatch
  <2>2. m.parts[x] \in ListsOf(ev, K)  BY <2>1 DEF ListsOf
  <2> QED  BY <2>1, <2>2 DEF CachesKept, StoredAt
<1>3. CASE x \in inStore
  <2>1. PICK v \in DOMAIN db.rows : db.rows[v].portal = x  BY <1>3
  <2> DEFINE own == {w \in DOMAIN db.rows : db.rows[w].portal = x}
             w == CHOOSE w \in own : TRUE
  <2>2. own # {}  BY <2>1
  <2>3. w \in own  BY <2>2
  <2>4. StoredRoster(db, x) = db.rows[w].parts  BY <2>2 DEF StoredRoster
  <2> HIDE DEF w
  <2>5. db.rows[w].parts \in ListsOf(ev, Groups) /\ NonSelf(db.rows[w].parts) = NonSelf(L)
    BY <1>3, <2>3, <2>4 DEF StoreKnown, SetsMatch
  <2>6. db.rows[w].parts \in ListsOf(ev, K)  BY <2>5 DEF ListsOf
  <2> QED  BY <2>3, <2>6 DEF StoreKept, RowsKept
<1>4. CASE x \in Indexed(m, L)  BY <1>4, IndexedKept
<1>5. CASE x = Gid(u)  BY <1>5, OwnPortalsAre
<1> QED  BY <1>1, <1>2, <1>3, <1>4, <1>5

(* The index is built, stale UUIDs and aliases are dropped.                *)
LEMMA WithIndexKept ==
  ASSUME NEW m, NEW ev, CachesKnown(m, ev), StoreKnown(db, ev)
  PROVE  /\ CachesKnown(WithIndex(m), ev)
         /\ WithIndex(m).alias = m.alias /\ WithIndex(m).index = Index(m)
         /\ \A K \in SUBSET Groups : CachesKept(m, ev, K) => CachesKept(WithIndex(m), ev, K)
<1>0. DOMAIN m = CacheFields  BY DEF CachesKnown
<1>1. /\ DOMAIN WithIndex(m) = CacheFields
      /\ WithIndex(m).guids = m.guids /\ WithIndex(m).parts = m.parts
      /\ WithIndex(m).alias = m.alias /\ WithIndex(m).plan = m.plan
      /\ WithIndex(m).index = Index(m)
  BY <1>0 DEF WithIndex, CacheFields
<1>2. CachesKnown(WithIndex(m), ev)  BY <1>1, IndexIsComma DEF CachesKnown
<1> QED  BY <1>1, <1>2 DEF CachesKept

LEMMA DroppedKept ==
  ASSUME NEW m, NEW ev, NEW D, CachesKnown(m, ev)
  PROVE  LET less == [m EXCEPT !.guids = Without(m.guids, D)]
         IN  /\ CachesKnown(less, ev) /\ less.alias = m.alias
             /\ \A K \in SUBSET Groups : CachesKept(m, ev, K) => CachesKept(less, ev, K)
<1> DEFINE less == [m EXCEPT !.guids = Without(m.guids, D)]
<1>0. DOMAIN m = CacheFields  BY DEF CachesKnown
<1>1. /\ DOMAIN less = CacheFields
      /\ less.guids = Without(m.guids, D) /\ less.parts = m.parts
      /\ less.alias = m.alias /\ less.plan = m.plan /\ less.index = m.index
  BY <1>0 DEF CacheFields
<1> HIDE DEF less
<1>2. CachesKnown(less, ev)  BY <1>1 DEF CachesKnown
<1>3. ASSUME NEW K \in SUBSET Groups, CachesKept(m, ev, K) PROVE CachesKept(less, ev, K)
  <2>1. StoredAt(less.guids, UuidsOf(K), OwnPortals(ev, K))
    BY <1>1, <1>3, WithoutStored DEF CachesKept
  <2> QED  BY <1>1, <1>3, <2>1 DEF CachesKept
<1> QED  BY <1>1, <1>2, <1>3 DEF less

LEMMA AliasKept ==
  ASSUME NEW m, NEW ev, NEW a, CachesKnown(m, ev)
  PROVE  LET other == [m EXCEPT !.alias = a]
         IN  /\ CachesKnown(other, ev) /\ other.alias = a
             /\ \A K \in SUBSET Groups :
                  CachesKept(m, ev, K) /\ LeadsTo(a, UuidsOf(K), OwnPortals(ev, K))
                    => CachesKept(other, ev, K)
<1> DEFINE other == [m EXCEPT !.alias = a]
<1>0. DOMAIN m = CacheFields  BY DEF CachesKnown
<1>1. /\ DOMAIN other = CacheFields
      /\ other.guids = m.guids /\ other.parts = m.parts
      /\ other.alias = a /\ other.plan = m.plan /\ other.index = m.index
  BY <1>0 DEF CacheFields
<1> HIDE DEF other
<1>2. CachesKnown(other, ev)  BY <1>1 DEF CachesKnown
<1>3. ASSUME NEW K \in SUBSET Groups, CachesKept(m, ev, K),
             LeadsTo(a, UuidsOf(K), OwnPortals(ev, K))
      PROVE  CachesKept(other, ev, K)
  BY <1>1, <1>3 DEF CachesKept
<1> QED  BY <1>1, <1>2, <1>3 DEF other

LEMMA ByGidKept ==
  ASSUME NEW m, NEW ev \in [Groups -> SUBSET Rosters], CachesKnown(m, ev), StoreKnown(db, ev),
         NEW u, NEW L, NEW r \in ByGid(m, u, L)
  PROVE  /\ CachesKnown(r.mem, ev) /\ r.mem.alias = m.alias
         /\ r.portal = Gid(u) \/ HasRoom(r.portal)
         /\ DOMAIN r = {"portal", "mem", "dropped"}
         /\ \A K \in SUBSET Groups : CachesKept(m, ev, K) /\ StoreKept(db, ev, K) =>
              /\ CachesKept(r.mem, ev, K)
              /\ u \in UuidsOf(K) /\ L \in ListsOf(ev, K) => r.portal \in OwnPortals(ev, K)
<1> DEFINE cached == {p \in DOMAIN m.guids : m.guids[p] = u}
           stale == {p \in cached : GuidCacheMatchIsStale(m, p, L)}
           good == {p \in cached \ stale : HasRoom(p)}
           Less(D) == [m EXCEPT !.guids = Without(m.guids, D)]
<1>1. \/ \E p \in good, D \in SUBSET stale :
           r = [portal |-> p, mem |-> Less(D), dropped |-> D]
      \/ \E p \in ByMembers(m, u, L) :
           r = [portal |-> p, mem |-> WithIndex(Less(stale)), dropped |-> stale]
  BY DEF ByGid
<1>2. \A D : /\ CachesKnown(Less(D), ev) /\ Less(D).alias = m.alias
             /\ \A K \in SUBSET Groups : CachesKept(m, ev, K) => CachesKept(Less(D), ev, K)
  BY DroppedKept
<1> HIDE DEF Less
<1>3. CASE \E p \in good, D \in SUBSET stale :
             r = [portal |-> p, mem |-> Less(D), dropped |-> D]
  <2>1. PICK p \in good, D \in SUBSET stale :
          r = [portal |-> p, mem |-> Less(D), dropped |-> D]
    BY <1>3
  <2>2. ASSUME NEW K \in SUBSET Groups, CachesKept(m, ev, K), u \in UuidsOf(K)
        PROVE  r.portal \in OwnPortals(ev, K)
    BY <2>1, <2>2 DEF CachesKept, StoredAt
  <2> QED  BY <1>2, <2>1, <2>2
<1>4. CASE \E p \in ByMembers(m, u, L) :
             r = [portal |-> p, mem |-> WithIndex(Less(stale)), dropped |-> stale]
  <2> HIDE DEF stale
  <2>1. PICK p \in ByMembers(m, u, L) :
          r = [portal |-> p, mem |-> WithIndex(Less(stale)), dropped |-> stale]
    BY <1>4
  <2>2. r.portal = p /\ r.mem = WithIndex(Less(stale)) /\ DOMAIN r = {"portal", "mem", "dropped"}
    BY <2>1
  <2>3. /\ CachesKnown(r.mem, ev) /\ r.mem.alias = m.alias
        /\ \A K \in SUBSET Groups : CachesKept(m, ev, K) => CachesKept(r.mem, ev, K)
    BY <1>2, <2>2, WithIndexKept
  <2>4. p = Gid(u) \/ HasRoom(p)  BY DEF ByMembers, Indexed
  <2>5. ASSUME NEW K \in SUBSET Groups, CachesKept(m, ev, K), StoreKept(db, ev, K),
               u \in UuidsOf(K), L \in ListsOf(ev, K)
        PROVE  p \in OwnPortals(ev, K)
    BY <2>5, ByMembersKept
  <2> QED  BY <2>2, <2>3, <2>4, <2>5
<1> QED  BY <1>1, <1>3, <1>4

(* What a search of either kind returns.                                   *)
Found(r, m, L, u, ev) ==
  /\ CachesKnown(r.mem, ev)
  /\ DOMAIN r = {"portal", "mem", "dropped"}
  /\ AliasesHaveRooms(m, db) => AliasesHaveRooms(r.mem, db)
  /\ \A K \in SUBSET Groups :
       /\ CachesKept(m, ev, K) /\ StoreKept(db, ev, K)
       /\ u = None \/ (u \in UuidsOf(K) <=> L \in ListsOf(ev, K))
       => /\ CachesKept(r.mem, ev, K)
          /\ L \in ListsOf(ev, K) => r.portal \in OwnPortals(ev, K)

LEMMA ByAliasFound ==
  ASSUME NEW m, NEW ev \in [Groups -> SUBSET Rosters], CachesKnown(m, ev), StoreKnown(db, ev),
         NEW u, u # None, NEW L, NEW r \in ByAlias(m, u, L)
  PROVE  Found(r, m, L, u, ev)
<1> DEFINE stale == /\ u \in DOMAIN m.alias
                    /\ GuidCacheMatchIsStale(m, m.alias[u], Canonical(L))
                    /\ L # {}
           rest == [m EXCEPT !.alias = Without(m.alias, {u})]
           m2 == IF stale THEN rest ELSE m
<1>1. /\ CachesKnown(rest, ev) /\ rest.alias = Without(m.alias, {u})
      /\ \A K \in SUBSET Groups : CachesKept(m, ev, K) => CachesKept(rest, ev, K)
  <2>1. \A K \in SUBSET Groups : CachesKept(m, ev, K) =>
          LeadsTo(Without(m.alias, {u}), UuidsOf(K), OwnPortals(ev, K))
    BY WithoutLeads DEF CachesKept
  <2>2. LET other == [m EXCEPT !.alias = Without(m.alias, {u})]
         IN  /\ CachesKnown(other, ev) /\ other.alias = Without(m.alias, {u})
             /\ \A K \in SUBSET Groups :
                  CachesKept(m, ev, K) /\ LeadsTo(Without(m.alias, {u}), UuidsOf(K), OwnPortals(ev, K))
                    => CachesKept(other, ev, K)
    BY AliasKept
  <2> QED  BY <2>1, <2>2
<1>2. AliasesHaveRooms(m, db) => AliasesHaveRooms(rest, db)
  BY <1>1 DEF AliasesHaveRooms, Without, Restrict
<1> HIDE DEF rest
<1>3. /\ CachesKnown(m2, ev)
      /\ AliasesHaveRooms(m, db) => AliasesHaveRooms(m2, db)
      /\ \A K \in SUBSET Groups : CachesKept(m, ev, K) => CachesKept(m2, ev, K)
  BY <1>1, <1>2
<1>4. r \in IF u \in DOMAIN m2.alias
            THEN {[portal |-> m2.alias[u], mem |-> m2, dropped |-> {}]}
            ELSE IF HasRoom(Gid(u))
            THEN {[portal |-> Gid(u), mem |-> m2, dropped |-> {}]}
            ELSE {IF s.portal = Gid(u) THEN s
                  ELSE [s EXCEPT !.mem.alias = Put(s.mem.alias, u, s.portal)] :
                    s \in ByGid(m2, u, L)}
  BY DEF ByAlias, rest
<1> HIDE DEF m2
<1>5. CASE u \in DOMAIN m2.alias /\ r = [portal |-> m2.alias[u], mem |-> m2, dropped |-> {}]
  BY <1>3, <1>5 DEF Found, CachesKept, LeadsTo
<1>6. CASE r = [portal |-> Gid(u), mem |-> m2, dropped |-> {}]
  BY <1>3, <1>6, OwnPortalsAre DEF Found
<1>7. CASE \E s \in ByGid(m2, u, L) :
             r = IF s.portal = Gid(u) THEN s
                 ELSE [s EXCEPT !.mem.alias = Put(s.mem.alias, u, s.portal)]
  <2>1. PICK s \in ByGid(m2, u, L) :
          r = IF s.portal = Gid(u) THEN s
              ELSE [s EXCEPT !.mem.alias = Put(s.mem.alias, u, s.portal)]
    BY <1>7
  <2>2. /\ CachesKnown(s.mem, ev) /\ s.mem.alias = m2.alias
        /\ s.portal = Gid(u) \/ HasRoom(s.portal)
        /\ DOMAIN s = {"portal", "mem", "dropped"}
        /\ \A K \in SUBSET Groups : CachesKept(m2, ev, K) /\ StoreKept(db, ev, K) =>
             /\ CachesKept(s.mem, ev, K)
             /\ u \in UuidsOf(K) /\ L \in ListsOf(ev, K) => s.portal \in OwnPortals(ev, K)
    BY <1>3, ByGidKept
  <2>3. CASE s.portal = Gid(u)
    BY <1>3, <2>1, <2>2, <2>3 DEF Found, AliasesHaveRooms
  <2>4. CASE s.portal # Gid(u)
    <3> DEFINE a == Put(s.mem.alias, u, s.portal)
               other == [s.mem EXCEPT !.alias = a]
    <3>1. /\ r.portal = s.portal /\ r.mem = other
          /\ DOMAIN r = {"portal", "mem", "dropped"}
      BY <2>1, <2>2, <2>4
    <3> HIDE DEF a
    <3>2. /\ CachesKnown(other, ev) /\ other.alias = a
          /\ \A K \in SUBSET Groups :
               CachesKept(s.mem, ev, K) /\ LeadsTo(a, UuidsOf(K), OwnPortals(ev, K))
                 => CachesKept(other, ev, K)
      BY <2>2, AliasKept
    <3> HIDE DEF other
    <3>3. AliasesHaveRooms(m, db) => AliasesHaveRooms(r.mem, db)
      <4>1. s.portal \in db.rooms  BY <2>2, <2>4 DEF HasRoom
      <4>2. AliasesHaveRooms(m2, db) => \A w \in DOMAIN a : a[w] \in db.rooms
        BY <2>2, <4>1 DEF AliasesHaveRooms, Put, a
      <4> QED  BY <1>3, <3>1, <3>2, <4>2 DEF AliasesHaveRooms
    <3>4. ASSUME NEW K \in SUBSET Groups, CachesKept(m, ev, K), StoreKept(db, ev, K),
                 u = None \/ (u \in UuidsOf(K) <=> L \in ListsOf(ev, K))
          PROVE  /\ CachesKept(r.mem, ev, K)
                 /\ L \in ListsOf(ev, K) => r.portal \in OwnPortals(ev, K)
      <4>1. /\ CachesKept(s.mem, ev, K)
            /\ u \in UuidsOf(K) => s.portal \in OwnPortals(ev, K)
        BY <1>3, <2>2, <3>4
      <4>2. LeadsTo(s.mem.alias, UuidsOf(K), OwnPortals(ev, K))  BY <4>1 DEF CachesKept
      <4>3. LeadsTo(a, UuidsOf(K), OwnPortals(ev, K))  BY <4>1, <4>2, PutLeads DEF a
      <4> QED  BY <3>1, <3>2, <3>4, <4>1, <4>3
    <3> QED  BY <3>1, <3>2, <3>3, <3>4 DEF Found
  <2> QED  BY <2>3, <2>4
<1> QED  BY <1>4, <1>5, <1>6, <1>7

LEMMA ByParticipantsFound ==
  ASSUME NEW m, NEW ev \in [Groups -> SUBSET Rosters], CachesKnown(m, ev), StoreKnown(db, ev),
         NEW u, NEW v, NEW L \in ListsOf(ev, Groups), NEW r \in ByParticipants(m, L, v)
  PROVE  Found(r, m, L, u, ev)
<1> DEFINE p == Comma(Canonical(L))
           near == {q \in Indexed(m, p[2]) : v = None \/ At(m.guids, q, v) = v}
           m2 == WithIndex(m)
           more == [m2 EXCEPT !.index = @ \cup {p}]
<1>1. /\ CachesKnown(m2, ev) /\ m2.alias = m.alias
      /\ \A K \in SUBSET Groups : CachesKept(m, ev, K) => CachesKept(m2, ev, K)
  BY WithIndexKept
<1>2. \/ r = [portal |-> p, mem |-> m2, dropped |-> {}]
      \/ \E q \in near : r = [portal |-> q, mem |-> m2, dropped |-> {}]
      \/ r = [portal |-> p, mem |-> more, dropped |-> {}]
  BY DEF ByParticipants
<1>3. p[2] = Canonical(L)  BY DEF Comma
<1> HIDE DEF m2
<1>4. \A K \in SUBSET Groups : L \in ListsOf(ev, K) =>
        Canonical(L) \in ListsOf(ev, K) /\ p \in OwnPortals(ev, K)
  <2>1. NonSelf(Canonical(L)) = NonSelf(L)  BY DEF NonSelf, Canonical, MyHandles
  <2>2. Canonical(L) \in SUBSET (Others \cup MyHandles)
    BY DEF ListsOf, NonSelf, Canonical, MyHandles
  <2>3. \A K \in SUBSET Groups : L \in ListsOf(ev, K) => Canonical(L) \in ListsOf(ev, K)
    BY <2>1, <2>2 DEF ListsOf
  <2>4. \A K \in SUBSET Groups : L \in ListsOf(ev, K) => p \in OwnPortals(ev, K)
    BY OwnPortalsAre
  <2> QED  BY <2>3, <2>4
<1>5. p \in CommaPortals
  BY DEF ListsOf, Canonical, CommaPortals, NonSelf
<1> HIDE DEF p
<1>6. CASE r = [portal |-> p, mem |-> m2, dropped |-> {}]
  BY <1>1, <1>4, <1>6 DEF Found, AliasesHaveRooms
<1>7. CASE \E q \in near : r = [portal |-> q, mem |-> m2, dropped |-> {}]
  <2>1. PICK q \in near : r = [portal |-> q, mem |-> m2, dropped |-> {}]  BY <1>7
  <2>2. q \in Indexed(m, Canonical(L))  BY <1>3, <2>1
  <2>3. \A K \in SUBSET Groups : L \in ListsOf(ev, K) => q \in OwnPortals(ev, K)
    BY <1>4, <2>2, IndexedKept
  <2> QED  BY <1>1, <2>1, <2>3 DEF Found, AliasesHaveRooms
<1>8. CASE r = [portal |-> p, mem |-> more, dropped |-> {}]
  <2>1. /\ DOMAIN more = CacheFields /\ more.index = m2.index \cup {p}
        /\ more.guids = m2.guids /\ more.parts = m2.parts
        /\ more.alias = m2.alias /\ more.plan = m2.plan
    BY <1>1 DEF CachesKnown, CacheFields
  <2> HIDE DEF more
  <2>2. CachesKnown(more, ev)  BY <1>1, <1>5, <2>1 DEF CachesKnown
  <2>3. \A K \in SUBSET Groups : CachesKept(m, ev, K) => CachesKept(more, ev, K)
    BY <1>1, <2>1 DEF CachesKept
  <2> QED  BY <1>1, <1>4, <1>8, <2>1, <2>2, <2>3 DEF Found, AliasesHaveRooms
<1> QED  BY <1>2, <1>6, <1>7, <1>8

-----------------------------------------------------------------------------
(* An event of a group: its list and its UUID are of the side of the group. *)
LEMMA EventOfGroup ==
  ASSUME NEW ev \in [Groups -> SUBSET Rosters], NEW c \in Groups, NEW S \in ev[c],
         NEW u \in GuidsOf[c] \cup {None}
  PROVE  /\ NonSelf(Listed(c, S)) = S
         /\ \A K \in SUBSET Groups : NeverShared(ev, K) =>
              /\ c \in K <=> Listed(c, S) \in ListsOf(ev, K)
              /\ u = None \/ (u \in UuidsOf(K) <=> Listed(c, S) \in ListsOf(ev, K))
<1>1. S \subseteq Others  BY RoutingAssumption
<1>2. Listed(c, S) \in SUBSET (Others \cup MyHandles) /\ NonSelf(Listed(c, S)) = S
  BY <1>1, RoutingAssumption DEF Listed, NonSelf, MyHandles
<1>3. \A K \in SUBSET Groups : c \in K => Listed(c, S) \in ListsOf(ev, K)
  BY <1>2 DEF ListsOf
<1>4. ASSUME NEW K \in SUBSET Groups, NeverShared(ev, K)
      PROVE  /\ c \in K <=> Listed(c, S) \in ListsOf(ev, K)
             /\ u = None \/ (u \in UuidsOf(K) <=> Listed(c, S) \in ListsOf(ev, K))
  <2>1. c \in K <=> Listed(c, S) \in ListsOf(ev, K)
    <3>1. c \notin K => Listed(c, S) \in ListsOf(ev, Groups \ K)  BY <1>3
    <3> QED  BY <1>3, <1>4, <3>1, ListOfOneSide
  <2>2. u = None \/ (u \in UuidsOf(K) <=> c \in K)  BY RoutingAssumption DEF UuidsOf
  <2> QED  BY <2>1, <2>2
<1> QED  BY <1>2, <1>4

LEMMA RememberKept ==
  ASSUME NEW ev \in [Groups -> SUBSET Rosters], NEW r, NEW e, CachesKnown(r.mem, ev),
         e.parts \in ListsOf(ev, Groups)
  PROVE  /\ CachesKnown(Remember(r, e), ev)
         /\ Remember(r, e).alias = r.mem.alias
         /\ \A K \in SUBSET Groups :
              /\ CachesKept(r.mem, ev, K)
              /\ e.guid = None \/ (e.guid \in UuidsOf(K) <=> e.parts \in ListsOf(ev, K))
              /\ e.parts \in ListsOf(ev, K) => r.portal \in OwnPortals(ev, K)
              => CachesKept(Remember(r, e), ev, K)
<1> DEFINE m == r.mem
           p == r.portal
           byUuid == e.guid # None /\ (IsComma(p) \/ p = Gid(e.guid))
           now == Remember(r, e)
<1>1. DOMAIN m = CacheFields  BY DEF CachesKnown
<1>2. /\ DOMAIN now = CacheFields
      /\ now.parts = IF e.parts # {} THEN Put(m.parts, p, e.parts) ELSE m.parts
      /\ now.guids = IF byUuid THEN Put(m.guids, p, e.guid) ELSE m.guids
      /\ now.alias = m.alias /\ now.index = m.index /\ now.plan = m.plan
  BY <1>1 DEF Remember, CacheFields
<1> HIDE DEF now
<1>3. CachesKnown(now, ev)
  <2>1. \A x \in DOMAIN now.parts : now.parts[x] \in ListsOf(ev, Groups)
    BY <1>2, PutWithin DEF CachesKnown
  <2> QED  BY <1>2, <2>1 DEF CachesKnown
<1>4. ASSUME NEW K \in SUBSET Groups, CachesKept(m, ev, K),
             e.guid = None \/ (e.guid \in UuidsOf(K) <=> e.parts \in ListsOf(ev, K)),
             e.parts \in ListsOf(ev, K) => p \in OwnPortals(ev, K)
      PROVE  CachesKept(now, ev, K)
  <2>1. StoredAt(m.guids, UuidsOf(K), OwnPortals(ev, K))  BY <1>4 DEF CachesKept
  <2>2. byUuid /\ e.guid \in UuidsOf(K) => p \in OwnPortals(ev, K)  BY <1>4
  <2>3. StoredAt(now.guids, UuidsOf(K), OwnPortals(ev, K))  BY <1>2, <2>1, <2>2, PutStored
  <2>4. StoredAt(m.parts, ListsOf(ev, K), OwnPortals(ev, K))  BY <1>4 DEF CachesKept
  <2>5. StoredAt(now.parts, ListsOf(ev, K), OwnPortals(ev, K))  BY <1>2, <1>4, <2>4, PutStored
  <2> QED  BY <1>2, <1>4, <2>3, <2>5 DEF CachesKept
<1> QED  BY <1>2, <1>3, <1>4 DEF now

LEMMA StartedKept ==
  ASSUME NEW ev \in [Groups -> SUBSET Rosters], NEW r, NEW e, r.portal \in Portals,
         e.parts \in ListsOf(ev, Groups)
  PROVE  /\ WritesKnown(Started(r, e), ev)
         /\ \A K \in SUBSET Groups :
              /\ e.guid = None \/ (e.guid \in UuidsOf(K) <=> e.parts \in ListsOf(ev, K))
              /\ e.parts \in ListsOf(ev, K) => r.portal \in OwnPortals(ev, K)
              => WritesKept(Started(r, e), ev, K)
<1>1. ASSUME NEW j \in Started(r, e)
      PROVE  /\ j.portal = r.portal /\ j.guid = e.guid
             /\ j.parts = e.parts \/ (j.parts = {} /\ j.kind = "uuid")
  BY DEF Started
<1>2. \A K \in SUBSET Groups : {} \notin ListsOf(ev, K)  BY ListsAre
<1>3. \A K \in SUBSET Groups : None \notin UuidsOf(K)  BY OwnPortalsAre
<1>4. WritesKnown(Started(r, e), ev)  BY <1>1, <1>2 DEF WritesKnown
<1>5. ASSUME NEW K \in SUBSET Groups,
             e.guid = None \/ (e.guid \in UuidsOf(K) <=> e.parts \in ListsOf(ev, K)),
             e.parts \in ListsOf(ev, K) => r.portal \in OwnPortals(ev, K)
      PROVE  WritesKept(Started(r, e), ev, K)
  BY <1>1, <1>2, <1>3, <1>5 DEF WritesKept
<1> QED  BY <1>4, <1>5

(* makePortalKey for an event of group c that lists its members.           *)
LEMMA PortalKeyKept ==
  ASSUME NEW ev, Routed(mem, db, jobs, home, ev), NEW c \in Groups, NEW S \in ev[c],
         NEW sender \in S, NEW u \in GuidsOf[c] \cup {None}, NEW carrier,
         NEW k \in PortalKey(Event(Listed(c, S), sender, u, carrier))
  PROVE  /\ CachesKnown(k.mem, ev) /\ WritesKnown(k.jobs, ev)
         /\ k.portal \in Portals
         /\ AliasesHaveRooms(mem, db) => AliasesHaveRooms(k.mem, db)
         /\ \A K \in SUBSET Groups : NeverShared(ev, K) =>
              /\ CachesKept(k.mem, ev, K) /\ WritesKept(k.jobs, ev, K)
              /\ c \in K <=> k.portal \in OwnPortals(ev, K)
<1> DEFINE L == Listed(c, S)
           e == Event(L, sender, u, carrier)
<1>0. /\ ev \in [Groups -> SUBSET Rosters] /\ CachesKnown(mem, ev) /\ StoreKnown(db, ev)
      /\ \A K \in SUBSET Groups : NeverShared(ev, K) =>
           CachesKept(mem, ev, K) /\ StoreKept(db, ev, K)
  BY DEF Routed
<1>1. e.parts = L /\ e.sender = sender /\ e.guid = u /\ e.carrier = carrier  BY DEF Event
<1>2. /\ NonSelf(L) = S
      /\ \A K \in SUBSET Groups : NeverShared(ev, K) =>
           /\ c \in K <=> L \in ListsOf(ev, K)
           /\ u = None \/ (u \in UuidsOf(K) <=> L \in ListsOf(ev, K))
  BY <1>0, EventOfGroup
<1>3. L \in ListsOf(ev, Groups) /\ NeverShared(ev, Groups)  BY <1>2, Sides
<1> HIDE DEF L
<1>4. IsGroupEvent(e)
  <2>1. sender \in Others /\ S \in Rosters  BY <1>0, RoutingAssumption
  <2>2. NonSelf(L \cup {sender}) = S  BY <1>2, <2>1, RoutingAssumption DEF NonSelf, MyHandles
  <2> QED  BY <1>1, <2>1, <2>2, RoutingAssumption DEF IsGroupEvent
<1> HIDE DEF e
<1>5. PICK r \in IF e.guid # None /\ ~e.carrier THEN ByAlias(mem, e.guid, e.parts)
                 ELSE ByParticipants(mem, e.parts, IF e.carrier THEN None ELSE e.guid) :
        k = [portal |-> r.portal, mem |-> Remember(r, e), dropped |-> r.dropped,
             jobs |-> Started(r, e)]
  BY <1>4 DEF PortalKey, e, L
<1>6. Found(r, mem, L, u, ev)
  <2>1. CASE e.guid # None /\ ~e.carrier  BY <1>0, <1>1, <1>5, <2>1, ByAliasFound
  <2>2. CASE ~(e.guid # None /\ ~e.carrier)
    BY <1>0, <1>1, <1>3, <1>5, <2>2, ByParticipantsFound
  <2> QED  BY <2>1, <2>2
<1>7. /\ CachesKnown(r.mem, ev)
      /\ AliasesHaveRooms(mem, db) => AliasesHaveRooms(r.mem, db)
      /\ \A K \in SUBSET Groups : NeverShared(ev, K) =>
           /\ CachesKept(r.mem, ev, K)
           /\ L \in ListsOf(ev, K) => r.portal \in OwnPortals(ev, K)
  BY <1>0, <1>2, <1>6 DEF Found
<1>8. r.portal \in Portals  BY <1>0, <1>3, <1>7, OwnPortalsAre
<1>9. /\ k.portal = r.portal /\ k.mem = Remember(r, e) /\ k.jobs = Started(r, e)  BY <1>5
<1>10. /\ CachesKnown(k.mem, ev) /\ k.mem.alias = r.mem.alias
       /\ \A K \in SUBSET Groups : NeverShared(ev, K) => CachesKept(k.mem, ev, K)
  BY <1>0, <1>1, <1>2, <1>3, <1>7, <1>9, RememberKept
<1>11. /\ WritesKnown(k.jobs, ev)
       /\ \A K \in SUBSET Groups : NeverShared(ev, K) => WritesKept(k.jobs, ev, K)
  BY <1>0, <1>1, <1>2, <1>3, <1>7, <1>8, <1>9, StartedKept
<1>12. ASSUME NEW K \in SUBSET Groups, NeverShared(ev, K)
       PROVE  c \in K <=> k.portal \in OwnPortals(ev, K)
  <2>1. c \in K => k.portal \in OwnPortals(ev, K)  BY <1>2, <1>7, <1>9, <1>12
  <2>2. NeverShared(ev, Groups \ K) /\ (Groups \ K) \in SUBSET Groups  BY <1>12, Sides
  <2>3. c \notin K => k.portal \in OwnPortals(ev, Groups \ K)  BY <1>2, <1>7, <1>9, <2>2
  <2>4. c \notin K => k.portal \notin OwnPortals(ev, K)
    BY <1>0, <1>12, <2>3, PortalOfOneSide
  <2> QED  BY <2>1, <2>4
<1>13. AliasesHaveRooms(mem, db) => AliasesHaveRooms(k.mem, db)
  BY <1>7, <1>10 DEF AliasesHaveRooms
<1> QED  BY <1>8, <1>9, <1>10, <1>11, <1>12, <1>13

-----------------------------------------------------------------------------
(* The smaller writes.                                                     *)
LEMMA ServiceSetAlias ==
  ASSUME NEW m, NEW x, NEW s, DOMAIN m = CacheFields
  PROVE  ServiceSet(m, x, s).alias = m.alias
BY DEF ServiceSet, CacheFields

LEMMA ServiceSetKept ==
  ASSUME NEW m, NEW ev, NEW x, NEW s, CachesKnown(m, ev)
  PROVE  /\ CachesKnown(ServiceSet(m, x, s), ev)
         /\ \A K \in SUBSET Groups : CachesKept(m, ev, K) => CachesKept(ServiceSet(m, x, s), ev, K)
<1>0. DOMAIN m = CacheFields  BY DEF CachesKnown
<1> DEFINE now == ServiceSet(m, x, s)
<1>1. /\ DOMAIN now = CacheFields
      /\ now.guids = m.guids /\ now.parts = m.parts /\ now.alias = m.alias
      /\ now.index = m.index /\ now.plan = m.plan
  BY <1>0 DEF ServiceSet, CacheFields
<1> HIDE DEF now
<1>2. CachesKnown(now, ev)  BY <1>1 DEF CachesKnown
<1>3. \A K \in SUBSET Groups : CachesKept(m, ev, K) => CachesKept(now, ev, K)
  BY <1>1 DEF CachesKept
<1> QED  BY <1>1, <1>2, <1>3 DEF now

LEMMA UuidSetKept ==
  ASSUME NEW m, NEW ev, NEW x, NEW u, CachesKnown(m, ev)
  PROVE  LET other == [m EXCEPT !.guids = Put(m.guids, x, u)]
         IN  /\ CachesKnown(other, ev) /\ other.alias = m.alias
             /\ \A K \in SUBSET Groups :
                  CachesKept(m, ev, K) /\ (u \in UuidsOf(K) => x \in OwnPortals(ev, K))
                    => CachesKept(other, ev, K)
<1> DEFINE other == [m EXCEPT !.guids = Put(m.guids, x, u)]
<1>0. DOMAIN m = CacheFields  BY DEF CachesKnown
<1>1. /\ DOMAIN other = CacheFields
      /\ other.guids = Put(m.guids, x, u) /\ other.parts = m.parts
      /\ other.alias = m.alias /\ other.plan = m.plan /\ other.index = m.index
  BY <1>0 DEF CacheFields
<1> HIDE DEF other
<1>2. CachesKnown(other, ev)  BY <1>1 DEF CachesKnown
<1>3. ASSUME NEW K \in SUBSET Groups, CachesKept(m, ev, K),
             u \in UuidsOf(K) => x \in OwnPortals(ev, K)
      PROVE  CachesKept(other, ev, K)
  <2>1. StoredAt(other.guids, UuidsOf(K), OwnPortals(ev, K))
    BY <1>1, <1>3, PutStored DEF CachesKept
  <2> QED  BY <1>1, <1>3, <2>1 DEF CachesKept
<1> QED  BY <1>1, <1>2, <1>3 DEF other

LEMMA UnlabelKept ==
  ASSUME NEW d, NEW ev \in [Groups -> SUBSET Rosters], NEW r, NEW e, StoreKnown(d, ev)
  PROVE  /\ StoreKnown(Unlabel(d, r, e), ev) /\ Unlabel(d, r, e).rooms = d.rooms
         /\ \A K \in SUBSET Groups : StoreKept(d, ev, K) => StoreKept(Unlabel(d, r, e), ev, K)
<1> DEFINE now == Unlabel(d, r, e)
<1>0. DOMAIN d = StoreFields  BY DEF StoreKnown
<1>1. /\ DOMAIN now = StoreFields /\ now.rooms = d.rooms /\ now.rows = d.rows
      /\ DOMAIN now.guid = DOMAIN d.guid
      /\ \A x \in DOMAIN d.guid : now.guid[x] \in {None, d.guid[x]}
  BY <1>0 DEF Unlabel, StoreFields
<1> HIDE DEF now
<1>2. StoreKnown(now, ev)  BY <1>1 DEF StoreKnown
<1>3. ASSUME NEW K \in SUBSET Groups, StoreKept(d, ev, K) PROVE StoreKept(now, ev, K)
  <2>1. None \notin UuidsOf(K)  BY OwnPortalsAre
  <2>2. StoredAt(now.guid, UuidsOf(K), OwnPortals(ev, K))
    BY <1>1, <1>3, <2>1 DEF StoreKept, StoredAt
  <2> QED  BY <1>1, <1>3, <2>2 DEF StoreKept
<1> QED  BY <1>1, <1>2, <1>3 DEF now

LEMMA ServiceSavedKept ==
  ASSUME NEW d, NEW ev, NEW m, NEW x, NEW s, StoreKnown(d, ev)
  PROVE  /\ StoreKnown(ServiceSaved(d, m, x, s), ev) /\ ServiceSaved(d, m, x, s).rooms = d.rooms
         /\ \A K \in SUBSET Groups :
              StoreKept(d, ev, K) => StoreKept(ServiceSaved(d, m, x, s), ev, K)
<1> DEFINE now == ServiceSaved(d, m, x, s)
<1>0. DOMAIN d = StoreFields  BY DEF StoreKnown
<1>1. /\ DOMAIN now = StoreFields
      /\ now.rooms = d.rooms /\ now.rows = d.rows /\ now.guid = d.guid
  BY <1>0 DEF ServiceSaved, StoreFields
<1> HIDE DEF now
<1>2. StoreKnown(now, ev)  BY <1>1 DEF StoreKnown
<1>3. \A K \in SUBSET Groups : StoreKept(d, ev, K) => StoreKept(now, ev, K)
  BY <1>1 DEF StoreKept
<1> QED  BY <1>1, <1>2, <1>3 DEF now

LEMMA LabelKept ==
  ASSUME NEW d, NEW ev, NEW x, NEW u, StoreKnown(d, ev)
  PROVE  LET now == [d EXCEPT !.guid = Put(d.guid, x, u)]
         IN  /\ StoreKnown(now, ev) /\ now.rooms = d.rooms
             /\ \A K \in SUBSET Groups :
                  StoreKept(d, ev, K) /\ (u \in UuidsOf(K) => x \in OwnPortals(ev, K))
                    => StoreKept(now, ev, K)
<1> DEFINE now == [d EXCEPT !.guid = Put(d.guid, x, u)]
<1>0. DOMAIN d = StoreFields  BY DEF StoreKnown
<1>1. /\ DOMAIN now = StoreFields
      /\ now.rooms = d.rooms /\ now.rows = d.rows /\ now.guid = Put(d.guid, x, u)
  BY <1>0 DEF StoreFields
<1> HIDE DEF now
<1>2. StoreKnown(now, ev)  BY <1>1 DEF StoreKnown
<1>3. ASSUME NEW K \in SUBSET Groups, StoreKept(d, ev, K),
             u \in UuidsOf(K) => x \in OwnPortals(ev, K)
      PROVE  StoreKept(now, ev, K)
  <2>1. StoredAt(now.guid, UuidsOf(K), OwnPortals(ev, K))
    BY <1>1, <1>3, PutStored DEF StoreKept
  <2> QED  BY <1>1, <1>3, <2>1 DEF StoreKept
<1> QED  BY <1>1, <1>2, <1>3 DEF now

LEMMA RowsSetKept ==
  ASSUME NEW d, NEW ev, NEW table, StoreKnown(d, ev),
         \A u \in DOMAIN table : /\ DOMAIN table[u] = {"portal", "parts", "carrier"}
                                 /\ table[u].parts \in ListsOf(ev, Groups)
  PROVE  LET now == [d EXCEPT !.rows = table]
         IN  /\ StoreKnown(now, ev) /\ now.rooms = d.rooms
             /\ \A K \in SUBSET Groups :
                  StoreKept(d, ev, K) /\ RowsKept(table, ev, K) => StoreKept(now, ev, K)
<1> DEFINE now == [d EXCEPT !.rows = table]
<1>0. DOMAIN d = StoreFields  BY DEF StoreKnown
<1>1. /\ DOMAIN now = StoreFields
      /\ now.rooms = d.rooms /\ now.rows = table /\ now.guid = d.guid
  BY <1>0 DEF StoreFields
<1> HIDE DEF now
<1>2. StoreKnown(now, ev)  BY <1>1 DEF StoreKnown
<1>3. \A K \in SUBSET Groups : StoreKept(d, ev, K) /\ RowsKept(table, ev, K) => StoreKept(now, ev, K)
  BY <1>1 DEF StoreKept
<1> QED  BY <1>1, <1>2, <1>3 DEF now

LEMMA RoomJobsKept ==
  ASSUME NEW ev \in [Groups -> SUBSET Rosters], NEW x \in Portals
  PROVE  /\ WritesKnown(RoomJobs(x), ev)
         /\ \A K \in SUBSET Groups : WritesKept(RoomJobs(x), ev, K)
<1>1. \A j \in RoomJobs(x) : j.portal = x /\ j.kind = "room" /\ j.guid = None /\ j.parts = {}
  BY DEF RoomJobs, RoomJob
<1>2. \A K \in SUBSET Groups : {} \notin ListsOf(ev, K)  BY ListsAre
<1>3. \A K \in SUBSET Groups : None \notin UuidsOf(K)  BY OwnPortalsAre
<1>4. WritesKnown(RoomJobs(x), ev)  BY <1>1 DEF WritesKnown
<1>5. \A K \in SUBSET Groups : WritesKept(RoomJobs(x), ev, K)
  BY <1>1, <1>2, <1>3 DEF WritesKept
<1> QED  BY <1>4, <1>5

LEMMA RequeuedKept ==
  ASSUME NEW ev \in [Groups -> SUBSET Rosters], NEW js, WritesKnown(js, ev), NEW x, NEW y \in Portals
  PROVE  /\ WritesKnown(Requeued(js, x, y), ev)
         /\ \A K \in SUBSET Groups : WritesKept(js, ev, K) => WritesKept(Requeued(js, x, y), ev, K)
<1> DEFINE room == RoomJob(y)
<1>1. \A j \in Requeued(js, x, y) : j \in js \/ j = room  BY DEF Requeued
<1>2. room.portal = y /\ room.kind = "room" /\ room.guid = None /\ room.parts = {}  BY DEF RoomJob
<1> HIDE DEF room
<1>3. \A K \in SUBSET Groups : {} \notin ListsOf(ev, K)  BY ListsAre
<1>4. \A K \in SUBSET Groups : None \notin UuidsOf(K)  BY OwnPortalsAre
<1>5. WritesKnown(Requeued(js, x, y), ev)  BY <1>1, <1>2 DEF WritesKnown
<1>6. \A K \in SUBSET Groups : WritesKept(js, ev, K) => WritesKept(Requeued(js, x, y), ev, K)
  BY <1>1, <1>2, <1>3, <1>4 DEF WritesKept
<1> QED  BY <1>5, <1>6

LEMMA SyncJobsKept ==
  ASSUME NEW ev \in [Groups -> SUBSET Rosters], NEW x \in Portals, NEW L \in ListsOf(ev, Groups)
  PROVE  /\ WritesKnown(SyncJobs(x, L), ev)
         /\ \A K \in SUBSET Groups :
              (L \in ListsOf(ev, K) => x \in OwnPortals(ev, K)) => WritesKept(SyncJobs(x, L), ev, K)
<1>1. \A j \in SyncJobs(x, L) : j.portal = x /\ j.guid = None /\ j.parts = L
  BY DEF SyncJobs
<1>2. {} \notin ListsOf(ev, Groups)  BY ListsAre
<1>3. \A K \in SUBSET Groups : None \notin UuidsOf(K)  BY OwnPortalsAre
<1>4. WritesKnown(SyncJobs(x, L), ev)  BY <1>1, <1>2 DEF WritesKnown
<1>5. \A K \in SUBSET Groups :
        (L \in ListsOf(ev, K) => x \in OwnPortals(ev, K)) => WritesKept(SyncJobs(x, L), ev, K)
  BY <1>1, <1>3 DEF WritesKept
<1> QED  BY <1>4, <1>5

LEMMA WritesJoined ==
  ASSUME NEW ev, NEW A, NEW B, WritesKnown(A, ev), WritesKnown(B, ev)
  PROVE  /\ WritesKnown(A \cup B, ev)
         /\ \A K \in SUBSET Groups :
              WritesKept(A, ev, K) /\ WritesKept(B, ev, K) => WritesKept(A \cup B, ev, K)
BY DEF WritesKnown, WritesKept

(* Aliases follow the portals that are moved.                              *)
LEMMA AliasesFollow ==
  ASSUME NEW m, NEW d, NEW ev, NEW x, NEW y, x # y, CachesKnown(m, ev), StoreKnown(d, ev),
         AliasesHaveRooms(m, d)
  PROVE  AliasesHaveRooms(Followed(m, x, y), Moved(d, x, y))
<1>1. DOMAIN m = CacheFields /\ DOMAIN d = StoreFields  BY DEF CachesKnown, StoreKnown
<1>2. Followed(m, x, y).alias = Redirected(m.alias, x, y)
  BY <1>1 DEF Followed, CacheFields
<1>3. CASE x \notin d.rooms
  <2>1. Moved(d, x, y) = d  BY <1>3 DEF Moved
  <2> QED  BY <1>2, <1>3, <2>1 DEF AliasesHaveRooms, Redirected
<1>4. CASE x \in d.rooms
  <2>1. (d.rooms \ {x}) \cup {y} \subseteq Moved(d, x, y).rooms
    <3>1. CASE y \in d.rooms  BY <1>1, <1>4, <3>1 DEF Moved, StoreFields
    <3>2. CASE y \notin d.rooms  BY <1>1, <1>4, <3>2 DEF Moved, StoreFields
    <3> QED  BY <3>1, <3>2
  <2> QED  BY <1>2, <2>1 DEF AliasesHaveRooms, Redirected
<1> QED  BY <1>3, <1>4

-----------------------------------------------------------------------------
(* Each action keeps the invariant.                                        *)

LEMMA RoutedParts ==
  ASSUME RoutingInv
  PROVE  /\ ever \in [Groups -> SUBSET Rosters] /\ DOMAIN home = Groups
         /\ CachesKnown(mem, ever) /\ StoreKnown(db, ever) /\ WritesKnown(jobs, ever)
         /\ \A K \in SUBSET Groups : NeverShared(ever, K) =>
              /\ CachesKept(mem, ever, K) /\ StoreKept(db, ever, K)
              /\ WritesKept(jobs, ever, K) /\ HomesKept(home, ever, K)
BY DEF RoutingInv, Routed

(* A message that lists the members its group had at some time.            *)
LEMMA ListedMessageKeeps ==
  ASSUME RoutingInv, NEW c \in Groups, NEW S \in ever[c], NEW sender \in S,
         NEW u \in GuidsOf[c] \cup {None}, NEW carrier, NEW live,
         RouteMessage(c, Event(Listed(c, S), sender, u, carrier), live)
  PROVE  RoutingInv'
<1> DEFINE L == Listed(c, S)
           e == Event(L, sender, u, carrier)
<1>1. e.parts = L /\ e.sender = sender /\ e.guid = u /\ e.carrier = carrier  BY DEF Event
<1>2. /\ ever \in [Groups -> SUBSET Rosters] /\ DOMAIN home = Groups
      /\ CachesKnown(mem, ever) /\ StoreKnown(db, ever) /\ WritesKnown(jobs, ever)
      /\ \A K \in SUBSET Groups : NeverShared(ever, K) =>
           /\ CachesKept(mem, ever, K) /\ StoreKept(db, ever, K)
           /\ WritesKept(jobs, ever, K) /\ HomesKept(home, ever, K)
  BY RoutedParts
<1>3. /\ \A K \in SUBSET Groups : NeverShared(ever, K) => (c \in K <=> L \in ListsOf(ever, K))
      /\ L \in ListsOf(ever, Groups) /\ L # {}
  <2>1. \A K \in SUBSET Groups : NeverShared(ever, K) => (c \in K <=> L \in ListsOf(ever, K))
    BY <1>2, EventOfGroup
  <2>2. NeverShared(ever, Groups)  BY DEF NeverShared
  <2>3. L \in ListsOf(ever, Groups)  BY <2>1, <2>2
  <2>4. {} \notin ListsOf(ever, Groups)  BY <1>2, ListsAre
  <2> QED  BY <2>1, <2>3, <2>4
<1> HIDE DEF L
<1>4. PICK k \in PortalKey(e) :
        LET p == SmsRedirect(e, k.portal)
        IN  /\ mem' = ServiceSet(k.mem, p, e.carrier)
            /\ db' = ServiceSaved(Unlabel(db, k, e), mem, p, e.carrier)
            /\ jobs' = jobs \cup k.jobs \cup RoomJobs(p)
                         \cup (IF live THEN SyncJobs(k.portal, e.parts) ELSE {})
            /\ home' = IF Guessed(e, p) THEN home ELSE [home EXCEPT ![c] = @ \cup {p}]
  BY DEF RouteMessage, L
<1>5. SmsRedirect(e, k.portal) = k.portal  BY <1>1, <1>3 DEF SmsRedirect
<1> DEFINE p == k.portal
<1>6. /\ mem' = ServiceSet(k.mem, p, carrier)
      /\ db' = ServiceSaved(Unlabel(db, k, e), mem, p, carrier)
      /\ jobs' = jobs \cup k.jobs \cup RoomJobs(p) \cup (IF live THEN SyncJobs(p, L) ELSE {})
      /\ home' = [home EXCEPT ![c] = @ \cup {p}]
  BY <1>1, <1>3, <1>4, <1>5 DEF Guessed
<1>7. /\ CachesKnown(k.mem, ever) /\ WritesKnown(k.jobs, ever) /\ p \in Portals
      /\ AliasesHaveRooms(mem, db) => AliasesHaveRooms(k.mem, db)
      /\ \A K \in SUBSET Groups : NeverShared(ever, K) =>
           /\ CachesKept(k.mem, ever, K) /\ WritesKept(k.jobs, ever, K)
           /\ c \in K <=> p \in OwnPortals(ever, K)
  BY PortalKeyKept DEF RoutingInv, L
<1> HIDE DEF e
<1>8. UNCHANGED <<roster, ever>>  BY DEF RouteMessage
<1>9. /\ CachesKnown(mem', ever) /\ mem'.alias = k.mem.alias
      /\ \A K \in SUBSET Groups : NeverShared(ever, K) => CachesKept(mem', ever, K)
  BY <1>6, <1>7, ServiceSetKept, ServiceSetAlias DEF CachesKnown
<1>10. /\ StoreKnown(db', ever) /\ db'.rooms = db.rooms
       /\ \A K \in SUBSET Groups : NeverShared(ever, K) => StoreKept(db', ever, K)
  <2>1. /\ StoreKnown(Unlabel(db, k, e), ever) /\ Unlabel(db, k, e).rooms = db.rooms
        /\ \A K \in SUBSET Groups : NeverShared(ever, K) => StoreKept(Unlabel(db, k, e), ever, K)
    BY <1>2, UnlabelKept
  <2> QED  BY <1>6, <2>1, ServiceSavedKept
<1>11. /\ WritesKnown(jobs', ever)
       /\ \A K \in SUBSET Groups : NeverShared(ever, K) => WritesKept(jobs', ever, K)
  <2> DEFINE synced == IF live THEN SyncJobs(p, L) ELSE {}
  <2>1. /\ WritesKnown(RoomJobs(p), ever)
        /\ \A K \in SUBSET Groups : WritesKept(RoomJobs(p), ever, K)
    BY <1>2, <1>7, RoomJobsKept
  <2>2. /\ WritesKnown(synced, ever)
        /\ \A K \in SUBSET Groups : NeverShared(ever, K) => WritesKept(synced, ever, K)
    <3>1. WritesKnown({}, ever) /\ \A K \in SUBSET Groups : WritesKept({}, ever, K)
      BY DEF WritesKnown, WritesKept
    <3>2. /\ WritesKnown(SyncJobs(p, L), ever)
          /\ \A K \in SUBSET Groups :
               NeverShared(ever, K) => WritesKept(SyncJobs(p, L), ever, K)
      BY <1>2, <1>3, <1>7, SyncJobsKept
    <3> QED  BY <3>1, <3>2
  <2> HIDE DEF synced
  <2>3. /\ WritesKnown(jobs \cup k.jobs, ever)
        /\ \A K \in SUBSET Groups : NeverShared(ever, K) => WritesKept(jobs \cup k.jobs, ever, K)
    BY <1>2, <1>7, WritesJoined
  <2>4. /\ WritesKnown(jobs \cup k.jobs \cup RoomJobs(p), ever)
        /\ \A K \in SUBSET Groups : NeverShared(ever, K) =>
             WritesKept(jobs \cup k.jobs \cup RoomJobs(p), ever, K)
    BY <2>1, <2>3, WritesJoined
  <2>5. jobs' = jobs \cup k.jobs \cup RoomJobs(p) \cup synced  BY <1>6 DEF synced
  <2> QED  BY <2>2, <2>4, <2>5, WritesJoined
<1>12. /\ DOMAIN home' = Groups
       /\ \A K \in SUBSET Groups : NeverShared(ever, K) => HomesKept(home', ever, K)
  BY <1>2, <1>6, <1>7 DEF HomesKept
<1>13. Routed(mem', db', jobs', home', ever)
  BY <1>2, <1>9, <1>10, <1>11, <1>12 DEF Routed
<1>14. AliasesHaveRooms(mem', db')
  BY <1>7, <1>9, <1>10 DEF RoutingInv, AliasesHaveRooms
<1> QED  BY <1>8, <1>13, <1>14 DEF RoutingInv

(* The portals a UUID names are of the side of its group.                  *)
LEMMA UuidPortalsOwn ==
  ASSUME NEW K \in SUBSET Groups, NEW c \in K, NEW e, e.guid \in GuidsOf[c],
         CachesKept(mem, ever, K), NEW p \in UuidPortals(e)
  PROVE  p \in OwnPortals(ever, K)
<1>1. e.guid \in UuidsOf(K)  BY DEF UuidsOf
<1>2. p = Gid(e.guid) \/ (p \in DOMAIN mem.guids /\ mem.guids[p] = e.guid)
  BY DEF UuidPortals
<1>3. Gid(e.guid) \in OwnPortals(ever, K)  BY <1>1 DEF OwnPortals
<1>4. StoredAt(mem.guids, UuidsOf(K), OwnPortals(ever, K))  BY DEF CachesKept
<1>5. ASSUME p \in DOMAIN mem.guids, mem.guids[p] = e.guid
      PROVE  p \in OwnPortals(ever, K)
  BY <1>1, <1>4, <1>5 DEF StoredAt
<1> QED  BY <1>2, <1>3, <1>5

(* One that lists nobody goes to a room there is, or to a direct chat.     *)
LEMMA BareMessageKeeps ==
  ASSUME RoutingInv, NEW c \in Groups, BareMessage(c)
  PROVE  RoutingInv'
<1>1. PICK sender \in roster[c] \cap Speakers, u \in GuidsOf[c] \cup {None} :
        RouteMessage(c, Event({}, sender, u, TRUE), TRUE)
  BY DEF BareMessage
<1> DEFINE e == Event({}, sender, u, TRUE)
<1>2. e.parts = {} /\ e.sender = sender /\ e.guid = u /\ ~e.named  BY DEF Event
<1>3. /\ ever \in [Groups -> SUBSET Rosters] /\ DOMAIN home = Groups
      /\ CachesKnown(mem, ever) /\ StoreKnown(db, ever) /\ WritesKnown(jobs, ever)
      /\ \A K \in SUBSET Groups : NeverShared(ever, K) =>
           /\ CachesKept(mem, ever, K) /\ StoreKept(db, ever, K)
           /\ WritesKept(jobs, ever, K) /\ HomesKept(home, ever, K)
  BY RoutedParts
<1>4. sender \in Others  BY RoutingAssumption DEF RoutingInv
<1>5. PICK k \in PortalKey(e) :
        LET p == SmsRedirect(e, k.portal)
        IN  /\ mem' = ServiceSet(k.mem, p, e.carrier)
            /\ db' = ServiceSaved(Unlabel(db, k, e), mem, p, e.carrier)
            /\ jobs' = jobs \cup k.jobs \cup RoomJobs(p) \cup SyncJobs(k.portal, e.parts)
            /\ home' = IF Guessed(e, p) THEN home ELSE [home EXCEPT ![c] = @ \cup {p}]
  BY <1>1 DEF RouteMessage
<1>6. UNCHANGED <<roster, ever>>  BY <1>1 DEF RouteMessage
<1> HIDE DEF e
<1>7. ~IsGroupEvent(e)
  <2>1. NonSelf({} \cup {sender}) \in {{}, {sender}}  BY DEF NonSelf
  <2>2. Cardinality({}) = 0 /\ Cardinality({sender}) = 1  BY FS_EmptySet, FS_Singleton
  <2>3. ~(Cardinality(NonSelf({} \cup {sender})) >= 2)  BY <2>1, <2>2
  <2> QED  BY <1>2, <2>3 DEF IsGroupEvent
<1>8. k.portal = DirectPortal(sender) /\ k.mem = mem /\ k.jobs = {}
  <2>1. NonSelf({}) = {}  BY DEF NonSelf
  <2>2. DirectKey(e) = DirectPortal(sender)  BY <1>2, <2>1 DEF DirectKey
  <2> QED  BY <1>5, <1>7, <2>2 DEF PortalKey
<1> DEFINE p == SmsRedirect(e, k.portal)
<1>9. p \in Portals
  <2>1. p \in db.rooms \/ p = k.portal
    <3> DEFINE with == {q \in Index(mem) : e.sender \in q[2]}
               all == UuidPortals(e) \cup (IF Cardinality(with) = 1 THEN with ELSE {})
    <3>1. p = IF e.carrier /\ ~IsGroupPortal(k.portal) /\ e.parts = {}
                 /\ Cardinality(all) = 1 /\ all \subseteq db.rooms
              THEN CHOOSE q \in all : TRUE ELSE k.portal
      BY DEF SmsRedirect
    <3> HIDE DEF all, p
    <3>2. CASE Cardinality(all) = 1 /\ all \subseteq db.rooms
      <4>1. all # {}  BY <3>2, FS_EmptySet
      <4> QED  BY <3>1, <3>2, <4>1
    <3> QED  BY <3>1, <3>2
  <2>2. k.portal \in Portals  BY <1>4, <1>8 DEF Portals
  <2> QED  BY <1>3, <2>1, <2>2 DEF StoreKnown
<1> HIDE DEF p
<1>10. /\ mem' = ServiceSet(mem, p, e.carrier)
       /\ db' = ServiceSaved(Unlabel(db, k, e), mem, p, e.carrier)
       /\ jobs' = jobs \cup RoomJobs(p)
       /\ home' = home \/ (p \in UuidPortals(e) /\ home' = [home EXCEPT ![c] = @ \cup {p}])
  <2>1. SyncJobs(k.portal, e.parts) = {}  BY <1>8 DEF SyncJobs, IsGid, DirectPortal
  <2> QED  BY <1>2, <1>5, <1>8, <2>1 DEF p, Guessed
<1>16. ASSUME NEW K \in SUBSET Groups, NeverShared(ever, K) PROVE HomesKept(home', ever, K)
  <2>1. ASSUME c \in K, p \in UuidPortals(e) PROVE p \in OwnPortals(ever, K)
    <3>1. u # None /\ e.guid = u  BY <1>2, <2>1 DEF UuidPortals
    <3>2. CachesKept(mem, ever, K)  BY <1>3, <1>16
    <3> QED  BY <1>1, <2>1, <3>1, <3>2, UuidPortalsOwn
  <2> QED  BY <1>3, <1>10, <1>16, <2>1 DEF HomesKept
<1>17. DOMAIN home' = Groups  BY <1>3, <1>10
<1>11. /\ CachesKnown(mem', ever) /\ mem'.alias = mem.alias
       /\ \A K \in SUBSET Groups : NeverShared(ever, K) => CachesKept(mem', ever, K)
  BY <1>3, <1>10, ServiceSetKept, ServiceSetAlias DEF CachesKnown
<1>12. /\ StoreKnown(db', ever) /\ db'.rooms = db.rooms
       /\ \A K \in SUBSET Groups : NeverShared(ever, K) => StoreKept(db', ever, K)
  <2>1. /\ StoreKnown(Unlabel(db, k, e), ever) /\ Unlabel(db, k, e).rooms = db.rooms
        /\ \A K \in SUBSET Groups : NeverShared(ever, K) => StoreKept(Unlabel(db, k, e), ever, K)
    BY <1>3, UnlabelKept
  <2> QED  BY <1>10, <2>1, ServiceSavedKept
<1>13. /\ WritesKnown(jobs', ever)
       /\ \A K \in SUBSET Groups : NeverShared(ever, K) => WritesKept(jobs', ever, K)
  <2>1. /\ WritesKnown(RoomJobs(p), ever)
        /\ \A K \in SUBSET Groups : WritesKept(RoomJobs(p), ever, K)
    BY <1>3, <1>9, RoomJobsKept
  <2> QED  BY <1>3, <1>10, <2>1, WritesJoined
<1>14. Routed(mem', db', jobs', home', ever)
  BY <1>3, <1>11, <1>12, <1>13, <1>16, <1>17 DEF Routed
<1>15. AliasesHaveRooms(mem', db')  BY <1>11, <1>12 DEF RoutingInv, AliasesHaveRooms
<1> QED  BY <1>6, <1>14, <1>15 DEF RoutingInv

(* What has been so far, with one roster more.                             *)
LEMMA OneMoreRoster ==
  ASSUME RoutingInv, NEW c \in Groups, NEW S \in Rosters,
         roster' = [roster EXCEPT ![c] = S], ever' = [ever EXCEPT ![c] = @ \cup {S}]
  PROVE  /\ Routed(mem, db, jobs, home, ever') /\ ever' \in [Groups -> SUBSET Rosters]
         /\ S \in ever'[c] /\ \A g \in Groups : ever[g] \subseteq ever'[g]
         /\ roster' \in [Groups -> Rosters] /\ \A g \in Groups : roster'[g] \in ever'[g]
<1>1. ever \in [Groups -> SUBSET Rosters] /\ Routed(mem, db, jobs, home, ever)
  BY RoutedParts DEF RoutingInv
<1>2. /\ ever' \in [Groups -> SUBSET Rosters] /\ S \in ever'[c]
      /\ \A g \in Groups : ever[g] \subseteq ever'[g]
  BY <1>1
<1>3. roster' \in [Groups -> Rosters] /\ \A g \in Groups : roster'[g] \in ever'[g]
  BY <1>1 DEF RoutingInv
<1> QED  BY <1>1, <1>2, <1>3, RoutedGrows

LEMMA ParticipantChangeKeeps ==
  ASSUME RoutingInv, NEW c \in Groups, NEW S \in Rosters, ParticipantChange(c, S)
  PROVE  RoutingInv'
<1>1. roster' = [roster EXCEPT ![c] = S] /\ ever' = [ever EXCEPT ![c] = @ \cup {S}]
  BY DEF ParticipantChange
<1>2. /\ Routed(mem, db, jobs, home, ever') /\ ever' \in [Groups -> SUBSET Rosters]
      /\ S \in ever'[c] /\ roster[c] \in ever'[c]
      /\ roster' \in [Groups -> Rosters] /\ \A g \in Groups : roster'[g] \in ever'[g]
  BY <1>1, OneMoreRoster DEF RoutingInv
<1>3. PICK sender \in roster[c] \cap Speakers, u \in GuidsOf[c] \cup {None} :
        LET e == Event(Listed(c, roster[c]), sender, u, c \in Carrier)
        IN  \E r \in PortalKey(e) :
              LET p == r.portal
                  q == Comma(Canonical(S))
                  m == IF p = q THEN r.mem ELSE Followed(r.mem, p, q)
                  un == Unlabel(db, r, e)
                  d == IF p = q THEN un ELSE Moved(un, p, q)
                  news == Listed(c, S)
              IN  /\ mem' = [ServiceSet(m, q, e.carrier) EXCEPT
                               !.guids = IF u = None THEN @ ELSE Put(@, q, u)]
                  /\ db' = ServiceSaved(d, m, q, e.carrier)
                  /\ jobs' = Requeued(jobs, p, q) \cup r.jobs \cup SyncJobs(p, news)
                  /\ home' = [HomeMoved(home, p, q) EXCEPT ![c] = @ \cup {q}]
                  /\ heard' = Put(Without(heard, {p}), q, e.carrier)
  BY DEF ParticipantChange
<1> DEFINE old == roster[c]
           L == Listed(c, old)
           news == Listed(c, S)
           q == Comma(Canonical(S))
           e == Event(L, sender, u, c \in Carrier)
<1>4. PICK k \in PortalKey(e) :
        LET p == k.portal
            m == IF p = q THEN k.mem ELSE Followed(k.mem, p, q)
            un == Unlabel(db, k, e)
            d == IF p = q THEN un ELSE Moved(un, p, q)
        IN  /\ mem' = [ServiceSet(m, q, e.carrier) EXCEPT
                         !.guids = IF u = None THEN @ ELSE Put(@, q, u)]
            /\ db' = ServiceSaved(d, m, q, e.carrier)
            /\ jobs' = Requeued(jobs, p, q) \cup k.jobs \cup SyncJobs(p, news)
            /\ home' = [HomeMoved(home, p, q) EXCEPT ![c] = @ \cup {q}]
  BY <1>3
<1> DEFINE p == k.portal
           m == IF p = q THEN k.mem ELSE Followed(k.mem, p, q)
           un == Unlabel(db, k, e)
           d == IF p = q THEN un ELSE Moved(un, p, q)
           marked == ServiceSet(m, q, e.carrier)
<1>5. PICK ev : ev = ever'  OBVIOUS
<1>6. /\ Routed(mem, db, jobs, home, ev) /\ ev \in [Groups -> SUBSET Rosters]
      /\ S \in ev[c] /\ old \in ev[c] /\ DOMAIN home = Groups
      /\ CachesKnown(mem, ev) /\ StoreKnown(db, ev) /\ WritesKnown(jobs, ev)
      /\ \A K \in SUBSET Groups : NeverShared(ev, K) =>
           /\ CachesKept(mem, ev, K) /\ StoreKept(db, ev, K)
           /\ WritesKept(jobs, ev, K) /\ HomesKept(home, ev, K)
  BY <1>2, <1>5 DEF Routed
<1>7. /\ CachesKnown(k.mem, ev) /\ WritesKnown(k.jobs, ev) /\ p \in Portals
      /\ AliasesHaveRooms(k.mem, db)
      /\ \A K \in SUBSET Groups : NeverShared(ev, K) =>
           /\ CachesKept(k.mem, ev, K) /\ WritesKept(k.jobs, ev, K)
           /\ c \in K <=> p \in OwnPortals(ev, K)
  BY <1>4, <1>6, PortalKeyKept DEF RoutingInv
<1>8. /\ \A K \in SUBSET Groups : NeverShared(ev, K) =>
           (c \in K <=> news \in ListsOf(ev, K)) /\ (u \in UuidsOf(K) => c \in K)
      /\ news \in ListsOf(ev, Groups) /\ NonSelf(news) = S
  <2>1. /\ NonSelf(news) = S
        /\ \A K \in SUBSET Groups : NeverShared(ev, K) => (c \in K <=> news \in ListsOf(ev, K))
    BY <1>6, EventOfGroup
  <2>2. NeverShared(ev, Groups)  BY DEF NeverShared
  <2>3. \A K \in SUBSET Groups : u \in UuidsOf(K) => c \in K
    <3>1. u = None => \A K \in SUBSET Groups : u \notin UuidsOf(K)  BY <1>6, OwnPortalsAre
    <3>2. u \in GuidsOf[c] => \A K \in SUBSET Groups : u \in UuidsOf(K) => c \in K
      BY RoutingAssumption DEF UuidsOf
    <3> QED  BY <3>1, <3>2
  <2> QED  BY <2>1, <2>2, <2>3
<1>9. /\ \A K \in SUBSET Groups : NeverShared(ev, K) /\ c \in K => q \in OwnPortals(ev, K)
      /\ q \in Portals /\ q \in CommaPortals
  <2>1. Canonical(news) = Canonical(S)
    <3>1. NonSelf(NonSelf(news)) = NonSelf(news)  BY DEF NonSelf
    <3> QED  BY <1>8, <3>1 DEF Canonical
  <2>2. \A K \in SUBSET Groups : NeverShared(ev, K) /\ c \in K => q \in OwnPortals(ev, K)
    BY <1>6, <1>8, <2>1, OwnPortalsAre
  <2>3. NonSelf(S) \in SUBSET Others  BY RoutingAssumption DEF NonSelf
  <2>4. q \in CommaPortals  BY <2>3 DEF CommaPortals, Canonical
  <2> QED  BY <2>2, <2>4 DEF CommaPortals, Portals
<1>10. \A K \in SUBSET Groups : NeverShared(ev, K) =>
         (p \in OwnPortals(ev, K) => q \in OwnPortals(ev, K))
  BY <1>7, <1>9
<1>11. /\ mem' = [marked EXCEPT !.guids = IF u = None THEN @ ELSE Put(@, q, u)]
       /\ db' = ServiceSaved(d, m, q, e.carrier)
       /\ jobs' = Requeued(jobs, p, q) \cup k.jobs \cup SyncJobs(p, news)
       /\ home' = [HomeMoved(home, p, q) EXCEPT ![c] = @ \cup {q}]
  BY <1>4
<1> HIDE DEF e, q, p, L, news
<1>12. /\ StoreKnown(un, ev) /\ un.rooms = db.rooms
       /\ \A K \in SUBSET Groups : NeverShared(ev, K) => StoreKept(un, ev, K)
  BY <1>6, UnlabelKept
<1> HIDE DEF un
<1>13. /\ CachesKnown(m, ev)
       /\ \A K \in SUBSET Groups : NeverShared(ev, K) => CachesKept(m, ev, K)
  BY <1>7, <1>9, <1>10, FollowedKept
<1>14. /\ StoreKnown(d, ev)
       /\ \A K \in SUBSET Groups : NeverShared(ev, K) => StoreKept(d, ev, K)
  BY <1>9, <1>10, <1>12, MovedKept
<1>15. AliasesHaveRooms(m, d)
  <2>1. AliasesHaveRooms(k.mem, un)  BY <1>7, <1>12 DEF AliasesHaveRooms
  <2> QED  BY <1>7, <1>12, <2>1, AliasesFollow
<1> HIDE DEF m, d
<1>16. /\ CachesKnown(mem', ev) /\ mem'.alias = m.alias
       /\ \A K \in SUBSET Groups : NeverShared(ev, K) => CachesKept(mem', ev, K)
  <2>1. /\ CachesKnown(marked, ev) /\ marked.alias = m.alias
        /\ \A K \in SUBSET Groups : NeverShared(ev, K) => CachesKept(marked, ev, K)
    <3>1. CachesKnown(m, ev) /\ DOMAIN m = CacheFields  BY <1>13 DEF CachesKnown
    <3>2. marked.alias = m.alias  BY <3>1, ServiceSetAlias
    <3>3. /\ CachesKnown(marked, ev)
          /\ \A K \in SUBSET Groups : CachesKept(m, ev, K) => CachesKept(marked, ev, K)
      BY <3>1, ServiceSetKept
    <3> QED  BY <1>13, <3>2, <3>3
  <2> HIDE DEF marked
  <2> DEFINE other == [marked EXCEPT !.guids = Put(marked.guids, q, u)]
  <2>2. /\ CachesKnown(other, ev) /\ other.alias = marked.alias
        /\ \A K \in SUBSET Groups : NeverShared(ev, K) => CachesKept(other, ev, K)
    <3>1. /\ CachesKnown(other, ev) /\ other.alias = marked.alias
          /\ \A K \in SUBSET Groups :
               CachesKept(marked, ev, K) /\ (u \in UuidsOf(K) => q \in OwnPortals(ev, K))
                 => CachesKept(other, ev, K)
      BY <2>1, UuidSetKept
    <3> QED  BY <1>8, <1>9, <2>1, <3>1
  <2>3. [marked EXCEPT !.guids = marked.guids] = [x \in DOMAIN marked |-> marked[x]]  OBVIOUS
  <2>4. CASE u # None
    <3>1. mem' = other  BY <1>11, <2>4
    <3> QED  BY <2>1, <2>2, <3>1
  <2>5. CASE u = None
    <3>1. mem' = [x \in DOMAIN marked |-> marked[x]]  BY <1>11, <2>3, <2>5
    <3>2. /\ DOMAIN mem' = CacheFields
          /\ mem'.guids = marked.guids /\ mem'.parts = marked.parts /\ mem'.alias = marked.alias
          /\ mem'.plan = marked.plan /\ mem'.index = marked.index
      BY <2>1, <3>1 DEF CachesKnown, CacheFields
    <3>3. CachesKnown(mem', ev)  BY <2>1, <3>2 DEF CachesKnown
    <3>4. \A K \in SUBSET Groups : NeverShared(ev, K) => CachesKept(mem', ev, K)
      BY <2>1, <3>2 DEF CachesKept
    <3> QED  BY <2>1, <3>2, <3>3, <3>4
  <2> QED  BY <2>4, <2>5
<1>17. /\ StoreKnown(db', ev) /\ db'.rooms = d.rooms
       /\ \A K \in SUBSET Groups : NeverShared(ev, K) => StoreKept(db', ev, K)
  BY <1>11, <1>14, ServiceSavedKept
<1>18. /\ WritesKnown(jobs', ev)
       /\ \A K \in SUBSET Groups : NeverShared(ev, K) => WritesKept(jobs', ev, K)
  <2> DEFINE waiting == Requeued(jobs, p, q)
  <2>1. /\ WritesKnown(waiting \cup k.jobs, ev)
        /\ \A K \in SUBSET Groups : NeverShared(ev, K) => WritesKept(waiting \cup k.jobs, ev, K)
    <3>1. /\ WritesKnown(waiting, ev)
          /\ \A K \in SUBSET Groups : NeverShared(ev, K) => WritesKept(waiting, ev, K)
      BY <1>6, <1>9, RequeuedKept
    <3> HIDE DEF waiting
    <3> QED  BY <1>7, <3>1, WritesJoined
  <2>2. /\ WritesKnown(SyncJobs(p, news), ev)
        /\ \A K \in SUBSET Groups : NeverShared(ev, K) => WritesKept(SyncJobs(p, news), ev, K)
    BY <1>6, <1>7, <1>8, SyncJobsKept DEF p
  <2> QED  BY <1>11, <2>1, <2>2, WritesJoined
<1>19. /\ DOMAIN home' = Groups
       /\ \A K \in SUBSET Groups : NeverShared(ev, K) => HomesKept(home', ev, K)
  <2> DEFINE h == HomeMoved(home, p, q)
  <2>1. DOMAIN h = Groups  BY DEF HomeMoved
  <2>2. \A K \in SUBSET Groups : NeverShared(ev, K) => HomesKept(h, ev, K)
    BY <1>6, <1>10, HomesMovedKept
  <2>3. home' = [h EXCEPT ![c] = @ \cup {q}]  BY <1>11
  <2> HIDE DEF h
  <2> QED  BY <1>9, <2>1, <2>2, <2>3 DEF HomesKept
<1>20. Routed(mem', db', jobs', home', ev)
  BY <1>6, <1>16, <1>17, <1>18, <1>19 DEF Routed
<1>21. AliasesHaveRooms(mem', db')  BY <1>15, <1>16, <1>17 DEF AliasesHaveRooms
<1>22. Routed(mem', db', jobs', home', ever')  BY <1>5, <1>20
<1> QED  BY <1>2, <1>21, <1>22 DEF RoutingInv

LEMMA MissedChangeKeeps ==
  ASSUME RoutingInv, NEW c \in Groups, NEW S \in Rosters, MissedChange(c, S)
  PROVE  RoutingInv'
<1>1. roster' = [roster EXCEPT ![c] = S] /\ ever' = [ever EXCEPT ![c] = @ \cup {S}]
  BY DEF MissedChange
<1>2. /\ Routed(mem, db, jobs, home, ever')
      /\ roster' \in [Groups -> Rosters] /\ \A g \in Groups : roster'[g] \in ever'[g]
  BY <1>1, OneMoreRoster
<1>3. mem' = mem /\ db' = db /\ jobs' = jobs /\ home' = home  BY DEF MissedChange
<1>4. Routed(mem', db', jobs', home', ever')  BY <1>2, <1>3
<1>5. AliasesHaveRooms(mem', db')  BY <1>3 DEF RoutingInv
<1> QED  BY <1>2, <1>4, <1>5 DEF RoutingInv

LEMMA GlimpseKeeps ==
  ASSUME RoutingInv, NEW c \in Groups, Glimpse(c)
  PROVE  RoutingInv'
<1>1. mem' = WithIndex(mem) /\ UNCHANGED <<db, jobs, roster, ever, home>>  BY DEF Glimpse
<1>2. /\ CachesKnown(mem', ever) /\ mem'.alias = mem.alias
      /\ \A K \in SUBSET Groups : NeverShared(ever, K) => CachesKept(mem', ever, K)
  BY <1>1, RoutedParts, WithIndexKept
<1>3. Routed(mem', db', jobs', home', ever')  BY <1>1, <1>2, RoutedParts DEF Routed
<1>4. AliasesHaveRooms(mem', db')  BY <1>1, <1>2 DEF RoutingInv, AliasesHaveRooms
<1> QED  BY <1>1, <1>3, <1>4 DEF RoutingInv

LEMMA CloudChatKeeps ==
  ASSUME RoutingInv, NEW c \in Groups, CloudChat(c)
  PROVE  RoutingInv'
<1>1. PICK u \in GuidsOf[c], S \in ever[c] :
        /\ db' = [db EXCEPT !.rows = Put(db.rows, u,
                     [portal |-> CloudPortal(c, u, S), parts |-> Listed(c, S),
                      carrier |-> c \in Carrier])]
        /\ mem' = ServiceSet(mem, CloudPortal(c, u, S), c \in Carrier)
        /\ UNCHANGED <<jobs, roster, ever, home>>
  BY DEF CloudChat
<1> DEFINE L == Listed(c, S)
           p == CloudPortal(c, u, S)
           new == [portal |-> p, parts |-> L, carrier |-> c \in Carrier]
           table == Put(db.rows, u, new)
<1>2. /\ ever \in [Groups -> SUBSET Rosters] /\ DOMAIN home = Groups
      /\ CachesKnown(mem, ever) /\ StoreKnown(db, ever) /\ WritesKnown(jobs, ever)
      /\ \A K \in SUBSET Groups : NeverShared(ever, K) =>
           /\ CachesKept(mem, ever, K) /\ StoreKept(db, ever, K)
           /\ WritesKept(jobs, ever, K) /\ HomesKept(home, ever, K)
  BY RoutedParts
<1>3. /\ NonSelf(L) = S
      /\ \A K \in SUBSET Groups : NeverShared(ever, K) =>
           (c \in K <=> L \in ListsOf(ever, K)) /\ (u = None \/ (u \in UuidsOf(K) <=> c \in K))
  BY <1>2, EventOfGroup
<1>4. L \in ListsOf(ever, Groups) /\ u # None
  <2>1. NeverShared(ever, Groups)  BY DEF NeverShared
  <2> QED  BY <1>3, <2>1, RoutingAssumption
<1>5. \A K \in SUBSET Groups : NeverShared(ever, K) /\ c \in K => p \in OwnPortals(ever, K)
  <2>1. Canonical(L) = Canonical(S)
    <3>1. NonSelf(NonSelf(L)) = NonSelf(L)  BY DEF NonSelf
    <3> QED  BY <1>3, <3>1 DEF Canonical
  <2>2. p \in {Gid(u), Comma(Canonical(L))}  BY <2>1 DEF CloudPortal
  <2>3. \A K \in SUBSET Groups : c \in K => u \in UuidsOf(K)  BY DEF UuidsOf
  <2> QED  BY <1>2, <1>3, <2>2, <2>3, OwnPortalsAre
<1> HIDE DEF L, p
<1>6. /\ \A w \in DOMAIN table : DOMAIN table[w] = {"portal", "parts", "carrier"}
      /\ \A w \in DOMAIN table : table[w].parts \in ListsOf(ever, Groups)
  <2>1. DOMAIN new = {"portal", "parts", "carrier"} /\ new.parts = L  OBVIOUS
  <2> HIDE DEF new
  <2> QED  BY <1>2, <1>4, <2>1 DEF StoreKnown, Put
<1>7. ASSUME NEW K \in SUBSET Groups, NeverShared(ever, K) PROVE RowsKept(table, ever, K)
  <2>1. new.parts = L /\ new.portal = p  OBVIOUS
  <2> HIDE DEF new
  <2>2. RowsKept(db.rows, ever, K)  BY <1>2, <1>7 DEF StoreKept
  <2>3. u \in UuidsOf(K) \/ L \in ListsOf(ever, K) => p \in OwnPortals(ever, K)
    BY <1>3, <1>4, <1>5, <1>7
  <2> QED  BY <2>1, <2>2, <2>3 DEF RowsKept, Put
<1>8. db' = [db EXCEPT !.rows = table]  BY <1>1 DEF L, p
<1> HIDE DEF table
<1>9. /\ StoreKnown(db', ever) /\ db'.rooms = db.rooms
      /\ \A K \in SUBSET Groups : NeverShared(ever, K) => StoreKept(db', ever, K)
  BY <1>2, <1>6, <1>7, <1>8, RowsSetKept
<1>10. /\ CachesKnown(mem', ever) /\ mem'.alias = mem.alias
       /\ \A K \in SUBSET Groups : NeverShared(ever, K) => CachesKept(mem', ever, K)
  <2> DEFINE s == c \in Carrier
  <2> HIDE DEF s
  <2>1. mem' = ServiceSet(mem, p, s)  BY <1>1 DEF p, s
  <2> QED  BY <1>2, <2>1, ServiceSetKept, ServiceSetAlias DEF CachesKnown
<1>11. Routed(mem', db', jobs', home', ever')  BY <1>1, <1>2, <1>9, <1>10 DEF Routed
<1>12. AliasesHaveRooms(mem', db')  BY <1>9, <1>10 DEF RoutingInv, AliasesHaveRooms
<1> QED  BY <1>1, <1>11, <1>12 DEF RoutingInv

-----------------------------------------------------------------------------
(* A goroutine's write: nothing but the database and the jobs changes.     *)
LEMMA WriteKeeps ==
  ASSUME RoutingInv, NEW j \in jobs, jobs' = jobs \ {j},
         UNCHANGED <<mem, roster, ever, home>>,
         StoreKnown(db', ever), db.rooms \subseteq db'.rooms,
         \A K \in SUBSET Groups : NeverShared(ever, K) => StoreKept(db', ever, K)
  PROVE  RoutingInv'
<1>1. WritesKnown(jobs', ever)  BY RoutedParts DEF WritesKnown
<1>2. \A K \in SUBSET Groups : NeverShared(ever, K) => WritesKept(jobs', ever, K)
  BY RoutedParts DEF WritesKept
<1>3. Routed(mem', db', jobs', home', ever')  BY <1>1, <1>2, RoutedParts DEF Routed
<1>4. AliasesHaveRooms(mem', db')  BY DEF RoutingInv, AliasesHaveRooms
<1> QED  BY <1>3, <1>4 DEF RoutingInv

LEMMA InsertRosterKeeps ==
  ASSUME RoutingInv, NEW j \in jobs, InsertRoster(j)
  PROVE  RoutingInv'
<1> DEFINE new == [portal |-> j.portal, parts |-> j.parts, carrier |-> FALSE]
           table == Put(db.rows, j.guid, new)
<1>1. j.kind = "insert" /\ jobs' = jobs \ {j}  BY DEF InsertRoster, Job
<1>2. UNCHANGED <<mem, roster, ever, home>>  BY DEF InsertRoster
<1>3. db' \in {db, [db EXCEPT !.rows = table]}  BY DEF InsertRoster
<1>4. /\ j.parts \in ListsOf(ever, Groups) /\ StoreKnown(db, ever)
  BY <1>1, RoutedParts DEF WritesKnown
<1>5. new.parts = j.parts /\ new.portal = j.portal /\ DOMAIN new = {"portal", "parts", "carrier"}
  OBVIOUS
<1> HIDE DEF new
<1>6. \A w \in DOMAIN table : /\ DOMAIN table[w] = {"portal", "parts", "carrier"}
                              /\ table[w].parts \in ListsOf(ever, Groups)
  BY <1>4, <1>5 DEF StoreKnown, Put
<1>7. ASSUME NEW K \in SUBSET Groups, NeverShared(ever, K) PROVE RowsKept(table, ever, K)
  <2>1. RowsKept(db.rows, ever, K) /\ WritesKept(jobs, ever, K)
    BY <1>7, RoutedParts DEF StoreKept
  <2> QED  BY <1>5, <2>1 DEF RowsKept, WritesKept, Put
<1> HIDE DEF table
<1>8. /\ StoreKnown(db', ever) /\ db'.rooms = db.rooms
      /\ \A K \in SUBSET Groups : NeverShared(ever, K) => StoreKept(db', ever, K)
  <2>1. CASE db' = db  BY <2>1, RoutedParts
  <2>2. CASE db' = [db EXCEPT !.rows = table]
    BY <1>4, <1>6, <1>7, <2>2, RoutedParts, RowsSetKept
  <2> QED  BY <1>3, <2>1, <2>2
<1> QED  BY <1>1, <1>2, <1>8, WriteKeeps

LEMMA SyncRosterKeeps ==
  ASSUME RoutingInv, NEW j \in jobs, SyncRoster(j)
  PROVE  RoutingInv'
<1> DEFINE p == j.portal
           L == j.parts
           own == {w \in DOMAIN db.rows : db.rows[w].portal = p}
           told == IF own # {} THEN own ELSE {w \in DOMAIN db.rows : p = Gid(w)}
           table == [w \in DOMAIN db.rows |->
                      IF w \in told THEN [db.rows[w] EXCEPT !.parts = L] ELSE db.rows[w]]
<1>1. j.kind = "sync" /\ jobs' = jobs \ {j}  BY DEF SyncRoster, Job
<1>2. UNCHANGED <<mem, roster, ever, home>>  BY DEF SyncRoster
<1>3. db' \in {db, [db EXCEPT !.rows = table]}  BY DEF SyncRoster, StoreRoster
<1>4. L \in ListsOf(ever, Groups) /\ StoreKnown(db, ever)  BY <1>1, RoutedParts DEF WritesKnown
<1>5. \A w \in told : db.rows[w].portal = p \/ p = Gid(w)  OBVIOUS
<1> HIDE DEF told, L
<1>6. \A w \in DOMAIN table :
        /\ DOMAIN table[w] = {"portal", "parts", "carrier"}
        /\ table[w].portal = db.rows[w].portal
        /\ table[w].parts = IF w \in told THEN L ELSE db.rows[w].parts
  BY <1>4 DEF StoreKnown
<1>7. DOMAIN table = DOMAIN db.rows  OBVIOUS
<1> HIDE DEF table
<1>8. \A w \in DOMAIN table : /\ DOMAIN table[w] = {"portal", "parts", "carrier"}
                              /\ table[w].parts \in ListsOf(ever, Groups)
  BY <1>4, <1>6, <1>7 DEF StoreKnown
<1>9. ASSUME NEW K \in SUBSET Groups, NeverShared(ever, K) PROVE RowsKept(table, ever, K)
  <2>1. RowsKept(db.rows, ever, K)  BY <1>9, RoutedParts DEF StoreKept
  <2>2. ASSUME NEW w \in told, w \in DOMAIN table, L \in ListsOf(ever, K)
        PROVE  db.rows[w].portal \in OwnPortals(ever, K)
    <3>1. p \in OwnPortals(ever, K)  BY <1>9, <2>2, RoutedParts DEF WritesKept, L
    <3>2. CASE p = Gid(w)
      <4>1. w \in UuidsOf(K)  BY <3>1, <3>2, RoutedParts, OwnPortalsAre
      <4> QED  BY <1>7, <2>1, <2>2, <4>1 DEF RowsKept
    <3> QED  BY <1>5, <2>2, <3>1, <3>2
  <2> QED  BY <1>6, <1>7, <2>1, <2>2 DEF RowsKept
<1>10. /\ StoreKnown(db', ever) /\ db'.rooms = db.rooms
       /\ \A K \in SUBSET Groups : NeverShared(ever, K) => StoreKept(db', ever, K)
  <2>1. CASE db' = db  BY <2>1, RoutedParts
  <2>2. CASE db' = [db EXCEPT !.rows = table]
    BY <1>4, <1>8, <1>9, <2>2, RoutedParts, RowsSetKept
  <2> QED  BY <1>3, <2>1, <2>2
<1> QED  BY <1>1, <1>2, <1>10, WriteKeeps

LEMMA SaveUuidKeeps ==
  ASSUME RoutingInv, NEW j \in jobs, SaveUuid(j)
  PROVE  RoutingInv'
<1>1. jobs' = jobs \ {j} /\ UNCHANGED <<mem, roster, ever, home>>  BY DEF SaveUuid, Job
<1>2. db' \in {db, [db EXCEPT !.guid = Put(db.guid, j.portal, j.guid)]}  BY DEF SaveUuid
<1>3. \A K \in SUBSET Groups : NeverShared(ever, K) =>
        (j.guid \in UuidsOf(K) => j.portal \in OwnPortals(ever, K))
  BY RoutedParts DEF WritesKept
<1>4. /\ StoreKnown(db', ever) /\ db'.rooms = db.rooms
      /\ \A K \in SUBSET Groups : NeverShared(ever, K) => StoreKept(db', ever, K)
  <2>1. CASE db' = db  BY <2>1, RoutedParts
  <2>2. CASE db' = [db EXCEPT !.guid = Put(db.guid, j.portal, j.guid)]
    <3>1. StoreKnown(db, ever)  BY RoutedParts
    <3> DEFINE now == [db EXCEPT !.guid = Put(db.guid, j.portal, j.guid)]
    <3>2. /\ StoreKnown(now, ever) /\ now.rooms = db.rooms
          /\ \A K \in SUBSET Groups :
               StoreKept(db, ever, K) /\ (j.guid \in UuidsOf(K) => j.portal \in OwnPortals(ever, K))
                 => StoreKept(now, ever, K)
      BY ONLY <3>1, LabelKept
    <3> HIDE DEF now
    <3>3. db' = now  BY <2>2 DEF now
    <3> QED  BY <1>3, <3>2, <3>3, RoutedParts
  <2> QED  BY <1>2, <2>1, <2>2
<1> QED  BY <1>1, <1>4, WriteKeeps

LEMMA MakeRoomKeeps ==
  ASSUME RoutingInv, NEW j \in jobs, MakeRoom(j)
  PROVE  RoutingInv'
<1> DEFINE p == j.portal
           named == IF IsGid(p) THEN Put(db.guid, p, At(mem.guids, p, p[2])) ELSE db.guid
           service == IF IsComma(p) THEN db.sms ELSE Put(db.sms, p, IsPortalSMS(mem, p))
           now == [db EXCEPT !.rooms = @ \cup {p}, !.guid = named, !.sms = service]
<1>1. jobs' = jobs \ {j} /\ UNCHANGED <<mem, roster, ever, home>>  BY DEF MakeRoom, Job
<1>2. db' = now  BY DEF MakeRoom
<1>3. StoreKnown(db, ever) /\ p \in Portals  BY RoutedParts DEF WritesKnown
<1>4. ASSUME NEW K \in SUBSET Groups, NeverShared(ever, K)
      PROVE  StoredAt(named, UuidsOf(K), OwnPortals(ever, K))
  <2>1. /\ StoredAt(db.guid, UuidsOf(K), OwnPortals(ever, K))
        /\ StoredAt(mem.guids, UuidsOf(K), OwnPortals(ever, K))
    BY <1>4, RoutedParts DEF StoreKept, CachesKept
  <2>2. ASSUME IsGid(p), At(mem.guids, p, p[2]) \in UuidsOf(K) PROVE p \in OwnPortals(ever, K)
    <3>1. CASE p \in DOMAIN mem.guids  BY <2>1, <2>2, <3>1 DEF StoredAt, At
    <3>2. CASE p \notin DOMAIN mem.guids
      <4>1. p[2] \in UuidsOf(K)  BY <2>2, <3>2 DEF At
      <4>2. \A S : p # Comma(S) /\ p # DirectPortal(S)
        BY <2>2 DEF IsGid, Comma, DirectPortal
      <4>3. PICK w \in Guids : p = Gid(w)  BY <1>3, <4>2 DEF Portals
      <4>4. p[2] = w  BY <4>3 DEF Gid
      <4> QED  BY <4>1, <4>3, <4>4, RoutedParts, OwnPortalsAre
    <3> QED  BY <3>1, <3>2
  <2> QED  BY <2>1, <2>2, PutStored
<1> HIDE DEF named, service
<1>5. /\ DOMAIN now = StoreFields /\ now.rooms = db.rooms \cup {p}
      /\ now.rows = db.rows /\ now.guid = named
  BY <1>3 DEF StoreKnown, StoreFields
<1> HIDE DEF now
<1>6. StoreKnown(now, ever)  BY <1>3, <1>5 DEF StoreKnown
<1>7. ASSUME NEW K \in SUBSET Groups, NeverShared(ever, K) PROVE StoreKept(now, ever, K)
  BY <1>4, <1>5, <1>7, RoutedParts DEF StoreKept
<1>8. /\ StoreKnown(db', ever) /\ db.rooms \subseteq db'.rooms
      /\ \A K \in SUBSET Groups : NeverShared(ever, K) => StoreKept(db', ever, K)
  BY <1>2, <1>5, <1>6, <1>7
<1> QED  BY <1>1, <1>8, WriteKeeps

-----------------------------------------------------------------------------
(* Startup.                                                                *)
LEMMA LoadedKept ==
  ASSUME NEW d, NEW ev
  PROVE  /\ CachesKnown(LoadedCaches(d), ev) /\ DOMAIN LoadedCaches(d).alias = {}
         /\ \A K \in SUBSET Groups :
              StoredAt(d.guid, UuidsOf(K), OwnPortals(ev, K)) => CachesKept(LoadedCaches(d), ev, K)
<1> DEFINE m == LoadedCaches(d)
<1>1. /\ DOMAIN m = CacheFields
      /\ m.guids = Restrict(d.guid, {p \in DOMAIN d.guid : d.guid[p] # None})
      /\ m.parts = NoFcn /\ m.alias = NoFcn /\ m.index = {} /\ m.plan = NoPlan
  BY DEF LoadedCaches, CacheFields
<1>2. DOMAIN NoFcn = {} /\ DOMAIN NoPlan = {"key", "first", "left"} /\ NoPlan.left = {}
  BY DEF NoFcn, NoPlan
<1> HIDE DEF m
<1>3. CachesKnown(m, ev)  BY <1>1, <1>2 DEF CachesKnown
<1>4. ASSUME NEW K \in SUBSET Groups, StoredAt(d.guid, UuidsOf(K), OwnPortals(ev, K))
      PROVE  CachesKept(m, ev, K)
  <2>1. StoredAt(m.guids, UuidsOf(K), OwnPortals(ev, K))  BY <1>1, <1>4 DEF StoredAt, Restrict
  <2>2. StoredAt(m.parts, ListsOf(ev, K), OwnPortals(ev, K))  BY <1>1, <1>2 DEF StoredAt
  <2>3. LeadsTo(m.alias, UuidsOf(K), OwnPortals(ev, K))  BY <1>1, <1>2 DEF LeadsTo
  <2> QED  BY <1>1, <1>2, <2>1, <2>2, <2>3 DEF CachesKept
<1> QED  BY <1>1, <1>2, <1>3, <1>4 DEF m

LEMMA RestartClientKeeps ==
  ASSUME RoutingInv, RestartClient
  PROVE  RoutingInv'
<1>1. mem' = LoadedCaches(db) /\ jobs' = {} /\ UNCHANGED <<db, roster, ever, home>>
  BY DEF RestartClient
<1>2. /\ CachesKnown(mem', ever) /\ DOMAIN mem'.alias = {}
      /\ \A K \in SUBSET Groups : NeverShared(ever, K) => CachesKept(mem', ever, K)
  BY <1>1, LoadedKept, RoutedParts DEF StoreKept
<1>3. /\ WritesKnown(jobs', ever)
      /\ \A K \in SUBSET Groups : NeverShared(ever, K) => WritesKept(jobs', ever, K)
  BY <1>1 DEF WritesKnown, WritesKept
<1>4. Routed(mem', db', jobs', home', ever')  BY <1>1, <1>2, <1>3, RoutedParts DEF Routed
<1>5. AliasesHaveRooms(mem', db')  BY <1>2 DEF AliasesHaveRooms
<1> QED  BY <1>1, <1>4, <1>5 DEF RoutingInv

(* Every shard of a carrier group is of the side of the key they make.     *)
LEMMA ShardsOfOneSide ==
  ASSUME RoutingInv, NEW key, NEW x \in CarrierShards(key), NEW K \in SUBSET Groups,
         NeverShared(ever, K), x \in OwnPortals(ever, K)
  PROVE  key \in OwnPortals(ever, K)
<1>1. PICK w \in DOMAIN db.rows :
        db.rows[w].portal = x /\ Comma(Canonical(db.rows[w].parts)) = key
  BY DEF CarrierShards
<1>2. db.rows[w].parts \in ListsOf(ever, Groups)  BY RoutedParts DEF StoreKnown
<1>3. CASE db.rows[w].parts \in ListsOf(ever, K)  BY <1>1, <1>3, RoutedParts, OwnPortalsAre
<1>4. CASE db.rows[w].parts \in ListsOf(ever, Groups \ K)
  <2>1. NeverShared(ever, Groups \ K) /\ (Groups \ K) \in SUBSET Groups  BY Sides
  <2>2. RowsKept(db.rows, ever, Groups \ K)  BY <2>1, RoutedParts DEF StoreKept
  <2>3. x \in OwnPortals(ever, Groups \ K)  BY <1>1, <1>4, <2>2 DEF RowsKept
  <2> QED  BY <2>3, RoutedParts, PortalOfOneSide
<1> QED  BY <1>2, <1>3, <1>4, Sides

LEMMA ConsolidateKeeps ==
  ASSUME RoutingInv, NEW key, Consolidate(key)
  PROVE  RoutingInv'
<1> DEFINE shards == CarrierShards(key)
           rooms == (shards \cap db.rooms) \ {key}
           table == [w \in DOMAIN db.rows |->
                      IF db.rows[w].portal \in shards THEN [db.rows[w] EXCEPT !.portal = key]
                      ELSE db.rows[w]]
<1>1. db' = [db EXCEPT !.rows = table] /\ UNCHANGED <<jobs, roster, ever, home>>
  BY DEF Consolidate
<1>2. \/ mem' = mem
      \/ \E first \in Survivors(key, shards) :
           mem' = [mem EXCEPT !.plan = [key |-> key, first |-> first, left |-> rooms]]
  BY DEF Consolidate
<1> HIDE DEF shards
<1>3. \A w \in DOMAIN table :
        /\ DOMAIN table[w] = {"portal", "parts", "carrier"}
        /\ table[w].parts = db.rows[w].parts
        /\ table[w].portal = IF db.rows[w].portal \in shards THEN key ELSE db.rows[w].portal
  BY RoutedParts DEF StoreKnown
<1>4. DOMAIN table = DOMAIN db.rows  OBVIOUS
<1> HIDE DEF table
<1>5. StoreKnown(db, ever) /\ CachesKnown(mem, ever)  BY RoutedParts
<1>6. \A w \in DOMAIN table : /\ DOMAIN table[w] = {"portal", "parts", "carrier"}
                              /\ table[w].parts \in ListsOf(ever, Groups)
  BY <1>3, <1>4, <1>5 DEF StoreKnown
<1>7. ASSUME NEW K \in SUBSET Groups, NeverShared(ever, K) PROVE RowsKept(table, ever, K)
  <2>1. RowsKept(db.rows, ever, K)  BY <1>7, RoutedParts DEF StoreKept
  <2>2. \A x \in shards : x \in OwnPortals(ever, K) => key \in OwnPortals(ever, K)
    BY <1>7, ShardsOfOneSide DEF shards
  <2> QED  BY <1>3, <1>4, <2>1, <2>2 DEF RowsKept
<1>8. /\ StoreKnown(db', ever) /\ db'.rooms = db.rooms
      /\ \A K \in SUBSET Groups : StoreKept(db, ever, K) /\ RowsKept(table, ever, K)
           => StoreKept(db', ever, K)
  BY <1>1, <1>5, <1>6, RowsSetKept
<1>9. \A K \in SUBSET Groups : NeverShared(ever, K) => StoreKept(db', ever, K)
  BY <1>7, <1>8, RoutedParts
<1>10. /\ CachesKnown(mem', ever) /\ mem'.alias = mem.alias
       /\ \A K \in SUBSET Groups : NeverShared(ever, K) => CachesKept(mem', ever, K)
  <2>1. CASE mem' = mem  BY <2>1, RoutedParts
  <2>2. CASE \E first \in Survivors(key, shards) :
               mem' = [mem EXCEPT !.plan = [key |-> key, first |-> first, left |-> rooms]]
    <3>1. PICK first \in Survivors(key, shards) :
            mem' = [mem EXCEPT !.plan = [key |-> key, first |-> first, left |-> rooms]]
      BY <2>2
    <3> DEFINE plan == [key |-> key, first |-> first, left |-> rooms]
    <3>2. DOMAIN plan = {"key", "first", "left"} /\ plan.left = rooms /\ plan.key = key  OBVIOUS
    <3>3. mem' = [mem EXCEPT !.plan = plan]  BY <3>1
    <3> HIDE DEF plan
    <3>4. /\ DOMAIN mem' = CacheFields /\ mem'.plan = plan
          /\ mem'.guids = mem.guids /\ mem'.parts = mem.parts
          /\ mem'.alias = mem.alias /\ mem'.index = mem.index
      BY <1>5, <3>3 DEF CachesKnown, CacheFields
    <3>5. rooms \subseteq OwnPortals(ever, Groups)
      <4>1. NeverShared(ever, Groups)  BY DEF NeverShared
      <4>2. RowsKept(db.rows, ever, Groups)  BY <4>1, RoutedParts DEF StoreKept
      <4>3. \A w \in DOMAIN db.rows : db.rows[w].portal \in OwnPortals(ever, Groups)
        BY <1>5, <4>2 DEF RowsKept, StoreKnown
      <4> QED  BY <4>3 DEF CarrierShards, shards
    <3>6. CachesKnown(mem', ever)  BY <1>5, <3>2, <3>4, <3>5 DEF CachesKnown
    <3>7. ASSUME NEW K \in SUBSET Groups, NeverShared(ever, K) PROVE CachesKept(mem', ever, K)
      <4>1. \A x \in rooms : x \in OwnPortals(ever, K) => key \in OwnPortals(ever, K)
        BY <3>7, ShardsOfOneSide DEF shards
      <4>2. CachesKept(mem, ever, K)  BY <3>7, RoutedParts
      <4> QED  BY <3>2, <3>4, <4>1, <4>2 DEF CachesKept
    <3> QED  BY <3>4, <3>6, <3>7
  <2> QED  BY <1>2, <2>1, <2>2
<1>11. Routed(mem', db', jobs', home', ever')
  BY <1>1, <1>8, <1>9, <1>10, RoutedParts DEF Routed
<1>12. AliasesHaveRooms(mem', db')  BY <1>8, <1>10 DEF RoutingInv, AliasesHaveRooms
<1> QED  BY <1>1, <1>11, <1>12 DEF RoutingInv

LEMMA MoveRoomKeeps ==
  ASSUME RoutingInv, NEW x \in mem.plan.left, MoveRoom(x)
  PROVE  RoutingInv'
<1> DEFINE y == mem.plan.key
           m == Followed(mem, x, y)
           less == [mem.plan EXCEPT !.left = @ \ {x}]
<1>1. /\ db' = Moved(db, x, y) /\ mem' = [m EXCEPT !.plan = less]
      /\ home' = HomeMoved(home, x, y) /\ jobs' = Requeued(jobs, x, y)
      /\ UNCHANGED <<roster, ever>>
  BY DEF MoveRoom
<1>2. /\ CachesKnown(mem, ever) /\ StoreKnown(db, ever) /\ DOMAIN home = Groups
      /\ ever \in [Groups -> SUBSET Rosters]
  BY RoutedParts
<1>3. \A K \in SUBSET Groups : NeverShared(ever, K) =>
        (x \in OwnPortals(ever, K) => y \in OwnPortals(ever, K))
  BY RoutedParts DEF CachesKept
<1>4. y \in Portals /\ (IsComma(y) => y \in CommaPortals)
  <2>1. NeverShared(ever, Groups)  BY DEF NeverShared
  <2>2. y \in OwnPortals(ever, Groups)  BY <1>2, <1>3, <2>1 DEF CachesKnown
  <2>3. y \in Portals  BY <1>2, <2>2, OwnPortalsAre
  <2>4. IsComma(y) => \A w : y # Gid(w) /\ y # DirectPortal(w)
    BY DEF IsComma, Gid, DirectPortal
  <2> QED  BY <2>3, <2>4 DEF Portals, CommaPortals
<1>5. DOMAIN less = {"key", "first", "left"} /\ less.left = mem.plan.left \ {x} /\ less.key = y
  BY <1>2 DEF CachesKnown
<1> HIDE DEF y, less
<1>6. /\ CachesKnown(m, ever) /\ m.plan = mem.plan
      /\ \A K \in SUBSET Groups : NeverShared(ever, K) => CachesKept(m, ever, K)
  <2>1. m.plan = mem.plan  BY <1>2, FollowedPlan DEF CachesKnown
  <2>2. /\ CachesKnown(m, ever)
        /\ \A K \in SUBSET Groups :
             CachesKept(mem, ever, K) /\ (x \in OwnPortals(ever, K) => y \in OwnPortals(ever, K))
               => CachesKept(m, ever, K)
    BY <1>2, <1>4, FollowedKept
  <2> QED  BY <1>3, <2>1, <2>2, RoutedParts
<1>7. /\ StoreKnown(db', ever)
      /\ \A K \in SUBSET Groups : NeverShared(ever, K) => StoreKept(db', ever, K)
  BY <1>1, <1>2, <1>3, <1>4, RoutedParts, MovedKept
<1>8. \A K \in SUBSET Groups : NeverShared(ever, K) => HomesKept(home', ever, K)
  BY <1>1, <1>2, <1>3, RoutedParts, HomesMovedKept
<1>9. DOMAIN home' = Groups  BY <1>1 DEF HomeMoved
<1>10. AliasesHaveRooms(m, db')
  <2>1. x # y  BY <1>2 DEF CachesKnown, y
  <2>2. AliasesHaveRooms(mem, db)  BY DEF RoutingInv
  <2> QED  BY <1>1, <1>2, <2>1, <2>2, AliasesFollow
<1> HIDE DEF m
<1>11. /\ DOMAIN mem' = CacheFields /\ mem'.plan = less
       /\ mem'.guids = m.guids /\ mem'.parts = m.parts
       /\ mem'.alias = m.alias /\ mem'.index = m.index
  BY <1>1, <1>6 DEF CachesKnown, CacheFields
<1>12. CachesKnown(mem', ever)
  BY <1>2, <1>5, <1>6, <1>11 DEF CachesKnown, y
<1>13. ASSUME NEW K \in SUBSET Groups, NeverShared(ever, K) PROVE CachesKept(mem', ever, K)
  BY <1>3, <1>5, <1>6, <1>11, <1>13 DEF CachesKept, y
<1>14. /\ WritesKnown(jobs', ever)
       /\ \A K \in SUBSET Groups : NeverShared(ever, K) => WritesKept(jobs', ever, K)
  BY <1>1, <1>2, <1>4, RoutedParts, RequeuedKept
<1>15. Routed(mem', db', jobs', home', ever')
  BY <1>1, <1>2, <1>7, <1>8, <1>9, <1>12, <1>13, <1>14 DEF Routed
<1>16. AliasesHaveRooms(mem', db')  BY <1>10, <1>11 DEF AliasesHaveRooms
<1> QED  BY <1>1, <1>15, <1>16 DEF RoutingInv

LEMMA StartDoneKeeps ==
  ASSUME RoutingInv, StartDone
  PROVE  RoutingInv'
<1>1. mem' = [mem EXCEPT !.starting = FALSE] /\ UNCHANGED <<db, jobs, roster, ever, home>>
  BY DEF StartDone
<1>2. CachesKnown(mem, ever)  BY RoutedParts
<1>3. /\ DOMAIN mem' = CacheFields /\ mem'.plan = mem.plan
      /\ mem'.guids = mem.guids /\ mem'.parts = mem.parts
      /\ mem'.alias = mem.alias /\ mem'.index = mem.index
  BY <1>1, <1>2 DEF CachesKnown, CacheFields
<1>4. CachesKnown(mem', ever)  BY <1>2, <1>3 DEF CachesKnown
<1>5. \A K \in SUBSET Groups : NeverShared(ever, K) => CachesKept(mem', ever, K)
  BY <1>3, RoutedParts DEF CachesKept
<1>6. Routed(mem', db', jobs', home', ever')  BY <1>1, <1>4, <1>5, RoutedParts DEF Routed
<1>7. AliasesHaveRooms(mem', db')  BY <1>1, <1>3 DEF RoutingInv, AliasesHaveRooms
<1> QED  BY <1>1, <1>6, <1>7 DEF RoutingInv

-----------------------------------------------------------------------------
(* The rooms there are at first are named by UUIDs of carrier groups.      *)
LEMMA RoutingStarts ==
  ASSUME Init
  PROVE  RoutingInv
<1> DEFINE held == UNION {GuidsOf[c] : c \in Carrier}
           Owner(u) == CHOOSE c \in Carrier : u \in GuidsOf[c]
<1>1. PICK rooms \in SUBSET {Gid(u) : u \in held} :
        db = [rooms |-> rooms,
              rows |-> [g \in {h \in Guids : Gid(h) \in rooms} |->
                   [portal |-> Gid(g), carrier |-> TRUE,
                    parts |-> FirstRoster[CHOOSE c \in Carrier : g \in GuidsOf[c]]]],
              guid |-> NoFcn, sms |-> [p \in rooms |-> TRUE]]
  BY DEF Init
<1>2. /\ mem = LoadedCaches(db) /\ jobs = {} /\ roster = FirstRoster
      /\ ever = [c \in Groups |-> {FirstRoster[c]}]
      /\ home = [c \in Groups |-> db.rooms \cap {Gid(h) : h \in GuidsOf[c]}]
  BY DEF Init
<1>3. /\ ever \in [Groups -> SUBSET Rosters] /\ DOMAIN home = Groups
      /\ roster \in [Groups -> Rosters] /\ \A c \in Groups : roster[c] \in ever[c]
  BY <1>2, RoutingAssumption
<1>4. /\ DOMAIN db = StoreFields /\ db.rooms = rooms /\ db.guid = NoFcn
      /\ DOMAIN db.rows = {u \in Guids : Gid(u) \in rooms}
      /\ \A u \in DOMAIN db.rows :
           /\ DOMAIN db.rows[u] = {"portal", "parts", "carrier"}
           /\ db.rows[u].portal = Gid(u) /\ db.rows[u].parts = FirstRoster[Owner(u)]
  <2> DEFINE FirstRow(u) == [portal |-> Gid(u), carrier |-> TRUE, parts |-> FirstRoster[Owner(u)]]
  <2>1. \A u : /\ DOMAIN FirstRow(u) = {"portal", "parts", "carrier"}
               /\ FirstRow(u).portal = Gid(u) /\ FirstRow(u).parts = FirstRoster[Owner(u)]
    OBVIOUS
  <2> DEFINE table == [g \in {h \in Guids : Gid(h) \in rooms} |-> FirstRow(g)]
             services == [p \in rooms |-> TRUE]
  <2>2. db = [rooms |-> rooms, rows |-> table, guid |-> NoFcn, sms |-> services]  BY <1>1
  <2> HIDE DEF FirstRow, services
  <2>3. /\ DOMAIN table = {u \in Guids : Gid(u) \in rooms}
        /\ \A u \in DOMAIN table : table[u] = FirstRow(u)
    OBVIOUS
  <2> HIDE DEF table
  <2>4. /\ DOMAIN db = StoreFields /\ db.rooms = rooms /\ db.guid = NoFcn /\ db.rows = table
    <3>1. DOMAIN db = {"rooms", "rows", "guid", "sms"}  BY <2>2
    <3>2. db.rooms = rooms  BY <2>2
    <3>3. db.guid = NoFcn  BY <2>2
    <3>4. db.rows = table  BY <2>2
    <3> QED  BY <3>1, <3>2, <3>3, <3>4 DEF StoreFields
  <2> QED  BY <2>1, <2>3, <2>4
<1>5. \A u \in DOMAIN db.rows : Owner(u) \in Groups /\ u \in GuidsOf[Owner(u)]
  <2>1. ASSUME NEW u \in DOMAIN db.rows PROVE \E c \in Carrier : u \in GuidsOf[c]
    <3>1. PICK w \in held : Gid(u) = Gid(w)  BY <1>4, <2>1
    <3> QED  BY <3>1 DEF Gid
  <2> QED  BY <2>1, RoutingAssumption
<1> HIDE DEF Owner
<1>6. ASSUME NEW u \in DOMAIN db.rows, NEW K \in SUBSET Groups
      PROVE  Owner(u) \in K => db.rows[u].parts \in ListsOf(ever, K)
  <2>1. FirstRoster[Owner(u)] \subseteq Others  BY <1>5, RoutingAssumption
  <2>2. NonSelf(FirstRoster[Owner(u)]) = FirstRoster[Owner(u)]
    BY <2>1, RoutingAssumption DEF NonSelf, MyHandles
  <2>3. FirstRoster[Owner(u)] \in ever[Owner(u)]  BY <1>2, <1>5
  <2> QED  BY <1>4, <2>1, <2>2, <2>3 DEF ListsOf
<1>7. StoreKnown(db, ever)
  <2>1. rooms \subseteq Portals  BY <1>1, RoutingAssumption DEF Portals
  <2> QED  BY <1>4, <1>5, <1>6, <2>1 DEF StoreKnown
<1>8. \A K \in SUBSET Groups : StoredAt(db.guid, UuidsOf(K), OwnPortals(ever, K))
  BY <1>4 DEF StoredAt, NoFcn
<1>9. /\ CachesKnown(mem, ever) /\ DOMAIN mem.alias = {}
      /\ \A K \in SUBSET Groups : CachesKept(mem, ever, K)
  BY <1>2, <1>8, LoadedKept
<1>10. WritesKnown(jobs, ever) /\ \A K \in SUBSET Groups : WritesKept(jobs, ever, K)
  BY <1>2 DEF WritesKnown, WritesKept
<1>11. ASSUME NEW K \in SUBSET Groups, NeverShared(ever, K)
       PROVE  StoreKept(db, ever, K) /\ HomesKept(home, ever, K)
  <2>1. ASSUME NEW u \in DOMAIN db.rows,
               u \in UuidsOf(K) \/ db.rows[u].parts \in ListsOf(ever, K)
        PROVE  db.rows[u].portal \in OwnPortals(ever, K)
    <3>1. u \in UuidsOf(K)
      <4>1. CASE Owner(u) \in K  BY <1>5, <4>1 DEF UuidsOf
      <4>2. CASE Owner(u) \in Groups \ K
        <5>1. db.rows[u].parts \in ListsOf(ever, Groups \ K)  BY <1>6, <4>2
        <5>2. db.rows[u].parts \notin ListsOf(ever, K)  BY <1>11, <5>1, ListOfOneSide
        <5> QED  BY <2>1, <5>2
      <4> QED  BY <1>5, <4>1, <4>2
    <3> QED  BY <1>3, <1>4, <3>1, OwnPortalsAre
  <2>2. HomesKept(home, ever, K)
    <3>1. ASSUME NEW c \in K, NEW x \in home[c] PROVE x \in OwnPortals(ever, K)
      <4>1. PICK u \in GuidsOf[c] : x = Gid(u)  BY <1>2, <3>1
      <4>2. u \in UuidsOf(K)  BY <4>1 DEF UuidsOf
      <4> QED  BY <1>3, <4>1, <4>2, OwnPortalsAre
    <3> QED  BY <3>1 DEF HomesKept
  <2> QED  BY <1>8, <2>1, <2>2 DEF StoreKept, RowsKept
<1>12. Routed(mem, db, jobs, home, ever)
  BY <1>3, <1>7, <1>9, <1>10, <1>11 DEF Routed
<1>13. AliasesHaveRooms(mem, db)  BY <1>9 DEF AliasesHaveRooms
<1> QED  BY <1>3, <1>12, <1>13 DEF RoutingInv

LEMMA RoutingStays ==
  ASSUME RoutingInv, [Next]_vars
  PROVE  RoutingInv'
<1>1. CASE UNCHANGED vars
  <2>1. UNCHANGED <<mem, db, jobs, roster, ever, home>>  BY <1>1 DEF vars
  <2>2. Routed(mem', db', jobs', home', ever')  BY <2>1 DEF RoutingInv
  <2>3. AliasesHaveRooms(mem', db')  BY <2>1 DEF RoutingInv
  <2> QED  BY <2>1, <2>2, <2>3 DEF RoutingInv
<1>2. ASSUME NEW c \in Groups, Message(c) PROVE RoutingInv'
  <2>1. PICK sender \in roster[c] \cap Speakers, u \in GuidsOf[c] \cup {None} :
          RouteMessage(c, Event(Listed(c, roster[c]), sender, u, c \in Carrier), TRUE)
    BY <1>2 DEF Message
  <2>2. roster[c] \in ever[c]  BY DEF RoutingInv
  <2> DEFINE carrier == c \in Carrier
  <2> HIDE DEF carrier
  <2>3. RouteMessage(c, Event(Listed(c, roster[c]), sender, u, carrier), TRUE)
    BY <2>1 DEF carrier
  <2> QED  BY <2>2, <2>3, ListedMessageKeeps
<1>3. ASSUME NEW c \in Groups, StoredMessage(c) PROVE RoutingInv'
  <2>1. PICK S \in ever[c], u \in GuidsOf[c] : \E sender \in S \cap Speakers :
          RouteMessage(c, Event(Listed(c, S), sender, u, c \in Carrier), FALSE)
    BY <1>3 DEF StoredMessage
  <2>2. PICK sender \in S \cap Speakers :
          RouteMessage(c, Event(Listed(c, S), sender, u, c \in Carrier), FALSE)
    BY <2>1
  <2> DEFINE carrier == c \in Carrier
  <2> HIDE DEF carrier
  <2>3. RouteMessage(c, Event(Listed(c, S), sender, u, carrier), FALSE)
    BY <2>2 DEF carrier
  <2> QED  BY <2>3, ListedMessageKeeps
<1>4. ASSUME NEW c \in Groups, BareMessage(c) PROVE RoutingInv'  BY <1>4, BareMessageKeeps
<1>5. ASSUME NEW c \in Groups, NEW S \in Rosters \ {roster[c]}, ParticipantChange(c, S)
      PROVE  RoutingInv'
  BY <1>5, ParticipantChangeKeeps
<1>6. ASSUME NEW c \in Groups, NEW S \in Rosters \ {roster[c]}, MissedChange(c, S)
      PROVE  RoutingInv'
  BY <1>6, MissedChangeKeeps
<1>7. ASSUME NEW c \in Groups, Glimpse(c) PROVE RoutingInv'  BY <1>7, GlimpseKeeps
<1>8. ASSUME NEW c \in Groups, CloudChat(c) PROVE RoutingInv'  BY <1>8, CloudChatKeeps
<1>9. ASSUME NEW j \in jobs, InsertRoster(j) PROVE RoutingInv'  BY <1>9, InsertRosterKeeps
<1>10. ASSUME NEW j \in jobs, SyncRoster(j) PROVE RoutingInv'  BY <1>10, SyncRosterKeeps
<1>11. ASSUME NEW j \in jobs, SaveUuid(j) PROVE RoutingInv'  BY <1>11, SaveUuidKeeps
<1>12. ASSUME NEW j \in jobs, MakeRoom(j) PROVE RoutingInv'  BY <1>12, MakeRoomKeeps
<1>13. ASSUME RestartClient PROVE RoutingInv'  BY <1>13, RestartClientKeeps
<1>14. ASSUME NEW S \in Rosters, Consolidate(Comma(Canonical(S))) PROVE RoutingInv'
  BY <1>14, ConsolidateKeeps
<1>15. ASSUME NEW x \in mem.plan.left, MoveRoom(x) PROVE RoutingInv'  BY <1>15, MoveRoomKeeps
<1>16. ASSUME StartDone PROVE RoutingInv'  BY <1>16, StartDoneKeeps
<1> QED
  BY <1>1, <1>2, <1>3, <1>4, <1>5, <1>6, <1>7, <1>8, <1>9, <1>10, <1>11, <1>12, <1>13, <1>14,
     <1>15, <1>16
  DEF Next

(* Whatever UUIDs, stale caches and moves are met on the way, messages     *)
(* that list members or are placed by their UUID, of groups that never had *)
(* the same members, are never put into one room                           *)
(* (makePortalKey, reIDPortalWithCacheUpdate, consolidateOneCarrierGroup). *)
THEOREM GroupsNeverMix == Spec => []NoMixing
<1>1. Init => RoutingInv  BY RoutingStarts
<1>2. RoutingInv /\ [Next]_vars => RoutingInv'  BY RoutingStays
<1>3. RoutingInv => NoMixing
  <2> SUFFICES ASSUME RoutingInv, NEW K \in SUBSET Groups, Strangers(K),
                      NEW g \in K, NEW h \in Groups \ K
               PROVE  home[g] \cap home[h] = {}
    BY DEF NoMixing
  <2>1. NeverShared(ever, K)  BY DEF NeverShared, Strangers
  <2>2. NeverShared(ever, Groups \ K) /\ (Groups \ K) \in SUBSET Groups  BY <2>1, Sides
  <2>3. HomesKept(home, ever, K) /\ HomesKept(home, ever, Groups \ K)
    BY <2>1, <2>2, RoutedParts
  <2>4. home[g] \subseteq OwnPortals(ever, K) /\ home[h] \subseteq OwnPortals(ever, Groups \ K)
    BY <2>3 DEF HomesKept
  <2>5. \A x \in OwnPortals(ever, K) : x \notin OwnPortals(ever, Groups \ K)
    BY <2>1, RoutedParts, PortalOfOneSide
  <2> QED  BY <2>4, <2>5
<1> QED  BY <1>1, <1>2, <1>3, PTL DEF Spec

(* An alias always leads to a portal that has a room, also between the     *)
(* moves of a consolidation (makePortalKey, reIDPortalWithCacheUpdate).    *)
THEOREM AliasesLeadToRooms == Spec => []NoDanglingAlias
<1>1. Init => RoutingInv  BY RoutingStarts
<1>2. RoutingInv /\ [Next]_vars => RoutingInv'  BY RoutingStays
<1>3. RoutingInv => NoDanglingAlias
  BY DEF RoutingInv, AliasesHaveRooms, NoDanglingAlias, HasRoom
<1> QED  BY <1>1, <1>2, <1>3, PTL DEF Spec

-----------------------------------------------------------------------------
(* Notices.  A sender's last group is of a side whose groups had them: the *)
(* portals kept in lastGroupForMember are known, and whoever is kept under *)
(* one of K's portals was in a group of K.                                 *)

PeopleOf(ev, K) == UNION UNION {ev[c] : c \in K}

SendersKept(last, ev) ==
  \A s \in DOMAIN last :
    /\ last[s] \in OwnPortals(ev, Groups)
    /\ \A K \in SUBSET Groups :
         NeverShared(ev, K) /\ last[s] \in OwnPortals(ev, K) => s \in PeopleOf(ev, K)

SendersInv == RoutingInv /\ SendersKept(mem.last, ever)

(* More rosters: a portal that was of one side stays there.                *)
LEMMA SendersGrow ==
  ASSUME NEW last, NEW ev \in [Groups -> SUBSET Rosters], NEW ev2 \in [Groups -> SUBSET Rosters],
         \A c \in Groups : ev[c] \subseteq ev2[c], SendersKept(last, ev)
  PROVE  SendersKept(last, ev2)
<1> SUFFICES ASSUME NEW s \in DOMAIN last
             PROVE  /\ last[s] \in OwnPortals(ev2, Groups)
                    /\ \A K \in SUBSET Groups :
                         NeverShared(ev2, K) /\ last[s] \in OwnPortals(ev2, K)
                           => s \in PeopleOf(ev2, K)
  BY DEF SendersKept
<1>1. last[s] \in OwnPortals(ev, Groups)  BY DEF SendersKept
<1>2. last[s] \in OwnPortals(ev2, Groups)  BY <1>1, SidesGrow
<1>3. ASSUME NEW K \in SUBSET Groups, NeverShared(ev2, K), last[s] \in OwnPortals(ev2, K)
      PROVE  s \in PeopleOf(ev2, K)
  <2>1. NeverShared(ev, K)  BY <1>3, SidesGrow
  <2>2. last[s] \in OwnPortals(ev, K)  BY <1>1, <1>3, SidesStay
  <2>3. s \in PeopleOf(ev, K)  BY <2>1, <2>2 DEF SendersKept
  <2> QED  BY <2>3 DEF PeopleOf
<1> QED  BY <1>2, <1>3

(* A member of c writes in a portal of c's side.                           *)
LEMMA SendersPut ==
  ASSUME NEW last, NEW ev, SendersKept(last, ev), NEW c \in Groups, NEW S \in ev[c],
         NEW s \in S, NEW p,
         \A K \in SUBSET Groups : NeverShared(ev, K) => (c \in K <=> p \in OwnPortals(ev, K))
  PROVE  SendersKept(Put(last, s, p), ev)
<1>1. p \in OwnPortals(ev, Groups)
  <2>1. NeverShared(ev, Groups)  BY DEF NeverShared
  <2> QED  BY <2>1
<1>2. ASSUME NEW K \in SUBSET Groups, NeverShared(ev, K), p \in OwnPortals(ev, K)
      PROVE  s \in PeopleOf(ev, K)
  BY <1>2 DEF PeopleOf
<1>3. /\ DOMAIN Put(last, s, p) = DOMAIN last \cup {s}
      /\ \A x \in DOMAIN last \cup {s} : Put(last, s, p)[x] = IF x = s THEN p ELSE last[x]
  BY DEF Put
<1> QED  BY <1>1, <1>2, <1>3 DEF SendersKept

(* A portal moves to one of the same side.                                 *)
LEMMA SendersRedirected ==
  ASSUME NEW last, NEW ev \in [Groups -> SUBSET Rosters], SendersKept(last, ev), NEW x, NEW y,
         \A K \in SUBSET Groups :
           NeverShared(ev, K) => (x \in OwnPortals(ev, K) => y \in OwnPortals(ev, K))
  PROVE  SendersKept(Redirected(last, x, y), ev)
<1>1. /\ DOMAIN Redirected(last, x, y) = DOMAIN last
      /\ \A s \in DOMAIN last : Redirected(last, x, y)[s] = IF last[s] = x THEN y ELSE last[s]
  BY DEF Redirected
<1>2. ASSUME NEW s \in DOMAIN last, last[s] = x PROVE y \in OwnPortals(ev, Groups)
  <2>1. NeverShared(ev, Groups)  BY DEF NeverShared
  <2>2. x \in OwnPortals(ev, Groups)  BY <1>2 DEF SendersKept
  <2> QED  BY <2>1, <2>2
<1>3. ASSUME NEW s \in DOMAIN last, last[s] = x, NEW K \in SUBSET Groups, NeverShared(ev, K),
             y \in OwnPortals(ev, K)
      PROVE  s \in PeopleOf(ev, K)
  <2>1. NeverShared(ev, Groups \ K) /\ (Groups \ K) \in SUBSET Groups  BY <1>3, Sides
  <2>2. x \in OwnPortals(ev, Groups)  BY <1>3 DEF SendersKept
  <2>3. y \notin OwnPortals(ev, Groups \ K)  BY <1>3, PortalOfOneSide
  <2>4. x \in OwnPortals(ev, K)  BY <2>1, <2>2, <2>3, Sides
  <2> QED  BY <1>3, <2>4 DEF SendersKept
<1> QED  BY <1>1, <1>2, <1>3 DEF SendersKept

-----------------------------------------------------------------------------
(* Which step changes a sender's last group: a search for a portal does not. *)
LEMMA ByGidLast ==
  ASSUME NEW m, DOMAIN m = CacheFields, NEW u, NEW L, NEW r \in ByGid(m, u, L)
  PROVE  /\ DOMAIN r = {"portal", "mem", "dropped"}
         /\ DOMAIN r.mem = CacheFields /\ r.mem.last = m.last
<1> DEFINE cached == {p \in DOMAIN m.guids : m.guids[p] = u}
           stale == {p \in cached : GuidCacheMatchIsStale(m, p, L)}
           good == {p \in cached \ stale : HasRoom(p)}
           Less(D) == [m EXCEPT !.guids = Without(m.guids, D)]
<1>1. \/ \E p \in good, D \in SUBSET stale :
           r = [portal |-> p, mem |-> Less(D), dropped |-> D]
      \/ \E p \in ByMembers(m, u, L) :
           r = [portal |-> p, mem |-> WithIndex(Less(stale)), dropped |-> stale]
  BY DEF ByGid
<1>2. ASSUME NEW D PROVE DOMAIN Less(D) = CacheFields /\ Less(D).last = m.last
  BY DEF CacheFields
<1> HIDE DEF Less
<1>3. ASSUME NEW D
      PROVE  DOMAIN WithIndex(Less(D)) = CacheFields /\ WithIndex(Less(D)).last = Less(D).last
  BY <1>2 DEF WithIndex, CacheFields
<1> HIDE DEF good, stale
<1> QED  BY <1>1, <1>2, <1>3

LEMMA ByAliasLast ==
  ASSUME NEW m, DOMAIN m = CacheFields, NEW u, NEW L, NEW r \in ByAlias(m, u, L)
  PROVE  DOMAIN r.mem = CacheFields /\ r.mem.last = m.last
<1> DEFINE stale == /\ u \in DOMAIN m.alias
                    /\ GuidCacheMatchIsStale(m, m.alias[u], Canonical(L))
                    /\ L # {}
           m2 == IF stale THEN [m EXCEPT !.alias = Without(m.alias, {u})] ELSE m
<1>1. DOMAIN m2 = CacheFields /\ m2.last = m.last  BY DEF CacheFields
<1>2. \/ r.mem = m2
      \/ \E found \in ByGid(m2, u, L) :
           r = found \/ r = [found EXCEPT !.mem.alias = Put(found.mem.alias, u, found.portal)]
  <2> HIDE DEF stale
  <2>1. r \in IF u \in DOMAIN m2.alias
              THEN {[portal |-> m2.alias[u], mem |-> m2, dropped |-> {}]}
              ELSE IF HasRoom(Gid(u))
              THEN {[portal |-> Gid(u), mem |-> m2, dropped |-> {}]}
              ELSE {IF f.portal = Gid(u) THEN f
                    ELSE [f EXCEPT !.mem.alias = Put(f.mem.alias, u, f.portal)] :
                      f \in ByGid(m2, u, L)}
    BY DEF ByAlias, stale
  <2> HIDE DEF m2
  <2> QED  BY <2>1
<1> HIDE DEF m2
<1>3. ASSUME NEW found \in ByGid(m2, u, L),
             r = [found EXCEPT !.mem.alias = Put(found.mem.alias, u, found.portal)]
      PROVE  DOMAIN r.mem = CacheFields /\ r.mem.last = found.mem.last
  <2>1. DOMAIN found = {"portal", "mem", "dropped"} /\ DOMAIN found.mem = CacheFields
    BY <1>1, ByGidLast
  <2>2. r.mem = [found.mem EXCEPT !.alias = Put(found.mem.alias, u, found.portal)]
    BY <1>3, <2>1
  <2> QED  BY <2>1, <2>2 DEF CacheFields
<1> QED  BY <1>1, <1>2, <1>3, ByGidLast

LEMMA ByParticipantsLast ==
  ASSUME DOMAIN mem = CacheFields, NEW L, NEW u, NEW r \in ByParticipants(mem, L, u)
  PROVE  DOMAIN r.mem = CacheFields /\ r.mem.last = mem.last
<1> DEFINE m2 == WithIndex(mem)
           p == Comma(Canonical(L))
<1>1. DOMAIN m2 = CacheFields /\ m2.last = mem.last  BY DEF WithIndex, CacheFields
<1> HIDE DEF m2
<1>2. r.mem = m2 \/ r.mem = [m2 EXCEPT !.index = @ \cup {p}]
  BY DEF ByParticipants, m2
<1> QED  BY <1>1, <1>2 DEF CacheFields

(* An event leaves it alone, or names its sender and its portal.           *)
LEMMA PortalKeyLast ==
  ASSUME DOMAIN mem = CacheFields, NEW e, NEW k \in PortalKey(e)
  PROVE  k.mem.last \in {mem.last, Put(mem.last, e.sender, k.portal)}
<1>1. CASE ~IsGroupEvent(e)  BY <1>1 DEF PortalKey
<1>2. CASE IsGroupEvent(e)
  <2>1. PICK r \in IF e.guid # None /\ ~e.carrier THEN ByAlias(mem, e.guid, e.parts)
                   ELSE ByParticipants(mem, e.parts, IF e.carrier THEN None ELSE e.guid) :
          k = [portal |-> r.portal, mem |-> Remember(r, e), dropped |-> r.dropped,
               jobs |-> Started(r, e)]
    BY <1>2 DEF PortalKey
  <2>2. DOMAIN r.mem = CacheFields /\ r.mem.last = mem.last
    <3>1. CASE e.guid # None /\ ~e.carrier  BY <2>1, <3>1, ByAliasLast
    <3>2. CASE ~(e.guid # None /\ ~e.carrier)  BY <2>1, <3>2, ByParticipantsLast
    <3> QED  BY <3>1, <3>2
  <2>3. k.portal = r.portal /\ k.mem = Remember(r, e)  BY <2>1
  <2>4. Remember(r, e).last \in {r.mem.last, Put(r.mem.last, e.sender, r.portal)}
    BY <2>2 DEF Remember, CacheFields
  <2> QED  BY <2>2, <2>3, <2>4
<1> QED  BY <1>1, <1>2

LEMMA ServiceSetLast ==
  ASSUME NEW m, DOMAIN m = CacheFields, NEW p, NEW b
  PROVE  DOMAIN ServiceSet(m, p, b) = CacheFields /\ ServiceSet(m, p, b).last = m.last
BY DEF ServiceSet, CacheFields

LEMMA FollowedLast ==
  ASSUME NEW m, DOMAIN m = CacheFields, NEW x, NEW y
  PROVE  /\ DOMAIN Followed(m, x, y) = CacheFields
         /\ Followed(m, x, y).last = Redirected(m.last, x, y)
BY DEF Followed, CacheFields

(* The invariant under each action.                                        *)
LEMMA SendersOfListed ==
  ASSUME SendersInv, NEW c \in Groups, NEW S \in ever[c], NEW sender \in S,
         NEW u \in GuidsOf[c] \cup {None}, NEW carrier, NEW live,
         RouteMessage(c, Event(Listed(c, S), sender, u, carrier), live)
  PROVE  SendersKept(mem'.last, ever')
<1> DEFINE e == Event(Listed(c, S), sender, u, carrier)
<1>1. e.sender = sender  BY DEF Event
<1>2. DOMAIN mem = CacheFields  BY RoutedParts DEF SendersInv, CachesKnown
<1>3. PICK k \in PortalKey(e) : \E p : mem' = ServiceSet(k.mem, p, e.carrier)
  BY DEF RouteMessage
<1>4. /\ CachesKnown(k.mem, ever)
      /\ \A K \in SUBSET Groups : NeverShared(ever, K) =>
           (c \in K <=> k.portal \in OwnPortals(ever, K))
  BY PortalKeyKept DEF SendersInv, RoutingInv
<1> HIDE DEF e
<1>5. mem'.last = k.mem.last  BY <1>3, <1>4, ServiceSetLast DEF CachesKnown
<1>6. k.mem.last \in {mem.last, Put(mem.last, sender, k.portal)}
  BY <1>1, <1>2, PortalKeyLast
<1>7. SendersKept(mem.last, ever)  BY DEF SendersInv
<1>8. SendersKept(Put(mem.last, sender, k.portal), ever)  BY <1>4, <1>7, SendersPut
<1>9. UNCHANGED ever  BY DEF RouteMessage
<1> QED  BY <1>5, <1>6, <1>7, <1>8, <1>9

LEMMA SendersOfBare ==
  ASSUME SendersInv, NEW c \in Groups, BareMessage(c)
  PROVE  mem'.last = mem.last /\ UNCHANGED ever
<1>1. DOMAIN mem = CacheFields  BY RoutedParts DEF SendersInv, CachesKnown
<1>2. PICK sender \in roster[c] \cap Speakers, u \in GuidsOf[c] \cup {None} :
        RouteMessage(c, Event({}, sender, u, TRUE), TRUE)
  BY DEF BareMessage
<1> DEFINE e == Event({}, sender, u, TRUE)
<1>3. e.parts = {} /\ e.sender = sender /\ ~e.named  BY DEF Event
<1> HIDE DEF e
<1>4. ~IsGroupEvent(e)
  <2>1. NonSelf({} \cup {sender}) \in {{}, {sender}}  BY DEF NonSelf
  <2>2. Cardinality({}) = 0 /\ Cardinality({sender}) = 1  BY FS_EmptySet, FS_Singleton
  <2>3. ~(Cardinality(NonSelf({} \cup {sender})) >= 2)  BY <2>1, <2>2
  <2> QED  BY <1>3, <2>3 DEF IsGroupEvent
<1>5. PICK k \in PortalKey(e) : \E p : mem' = ServiceSet(k.mem, p, e.carrier)
  BY <1>2 DEF RouteMessage, e
<1>6. k.mem = mem  BY <1>4, <1>5 DEF PortalKey
<1>7. UNCHANGED ever  BY <1>2 DEF RouteMessage
<1> QED  BY <1>1, <1>5, <1>6, <1>7, ServiceSetLast

LEMMA SendersOfChange ==
  ASSUME SendersInv, NEW c \in Groups, NEW S \in Rosters, ParticipantChange(c, S)
  PROVE  SendersKept(mem'.last, ever')
<1>1. roster' = [roster EXCEPT ![c] = S] /\ ever' = [ever EXCEPT ![c] = @ \cup {S}]
  BY DEF ParticipantChange
<1>2. /\ Routed(mem, db, jobs, home, ever') /\ ever' \in [Groups -> SUBSET Rosters]
      /\ S \in ever'[c] /\ roster[c] \in ever'[c] /\ \A g \in Groups : ever[g] \subseteq ever'[g]
  BY <1>1, OneMoreRoster DEF SendersInv, RoutingInv
<1>3. PICK ev : ev = ever'  OBVIOUS
<1>4. /\ ev \in [Groups -> SUBSET Rosters] /\ S \in ev[c] /\ roster[c] \in ev[c]
      /\ Routed(mem, db, jobs, home, ev) /\ DOMAIN mem = CacheFields
  BY <1>2, <1>3 DEF Routed, CachesKnown
<1>5. SendersKept(mem.last, ev)
  <2>1. ever \in [Groups -> SUBSET Rosters]  BY RoutedParts DEF SendersInv
  <2> QED  BY <1>2, <1>3, <2>1, SendersGrow DEF SendersInv
<1> DEFINE q == Comma(Canonical(S))
<1>6. PICK sender \in roster[c] \cap Speakers, u \in GuidsOf[c] \cup {None} :
        LET e == Event(Listed(c, roster[c]), sender, u, c \in Carrier)
        IN  \E r \in PortalKey(e) :
              LET p == r.portal
                  to == Comma(Canonical(S))
                  m == IF p = to THEN r.mem ELSE Followed(r.mem, p, to)
                  un == Unlabel(db, r, e)
                  d == IF p = to THEN un ELSE Moved(un, p, to)
                  news == Listed(c, S)
              IN  /\ mem' = [ServiceSet(m, to, e.carrier) EXCEPT
                               !.guids = IF u = None THEN @ ELSE Put(@, to, u)]
                  /\ db' = ServiceSaved(d, m, to, e.carrier)
                  /\ jobs' = Requeued(jobs, p, to) \cup r.jobs \cup SyncJobs(p, news)
                  /\ home' = [HomeMoved(home, p, to) EXCEPT ![c] = @ \cup {to}]
                  /\ heard' = Put(Without(heard, {p}), to, e.carrier)
  BY DEF ParticipantChange
<1> DEFINE e == Event(Listed(c, roster[c]), sender, u, c \in Carrier)
<1>7. PICK k \in PortalKey(e) :
        LET m == IF k.portal = q THEN k.mem ELSE Followed(k.mem, k.portal, q)
        IN  mem' = [ServiceSet(m, q, e.carrier) EXCEPT
                      !.guids = IF u = None THEN @ ELSE Put(@, q, u)]
  BY <1>6
<1> DEFINE p == k.portal
           m == IF p = q THEN k.mem ELSE Followed(k.mem, p, q)
<1>8. /\ CachesKnown(k.mem, ev)
      /\ \A K \in SUBSET Groups : NeverShared(ev, K) => (c \in K <=> p \in OwnPortals(ev, K))
  BY <1>4, <1>7, PortalKeyKept
<1>9. e.sender = sender  BY DEF Event
<1>10. \A K \in SUBSET Groups : NeverShared(ev, K) =>
         (p \in OwnPortals(ev, K) => q \in OwnPortals(ev, K))
  <2>1. S \in SUBSET Others /\ NonSelf(S) = S
    BY RoutingAssumption DEF NonSelf, MyHandles
  <2>2. \A K \in SUBSET Groups : c \in K => q \in OwnPortals(ev, K)
    BY <1>4, <2>1 DEF OwnPortals, Canonical
  <2> QED  BY <1>8, <2>2
<1>11. k.mem.last \in {mem.last, Put(mem.last, sender, p)}
  BY <1>4, <1>7, <1>9, PortalKeyLast
<1>12. SendersKept(k.mem.last, ev)
  <2>1. SendersKept(Put(mem.last, sender, p), ev)  BY <1>4, <1>5, <1>8, SendersPut
  <2> QED  BY <1>5, <1>11, <2>1
<1>13. mem' = [ServiceSet(m, q, e.carrier) EXCEPT
                 !.guids = IF u = None THEN @ ELSE Put(@, q, u)]
  BY <1>7
<1> HIDE DEF e, p, q
<1>14. DOMAIN m = CacheFields /\ m.last \in {k.mem.last, Redirected(k.mem.last, p, q)}
  BY <1>8, FollowedLast DEF CachesKnown
<1> HIDE DEF m
<1>15. mem'.last = m.last  BY <1>13, <1>14, ServiceSetLast DEF CacheFields
<1>16. SendersKept(Redirected(k.mem.last, p, q), ev)
  BY <1>4, <1>10, <1>12, SendersRedirected
<1>17. SendersKept(mem'.last, ev)  BY <1>12, <1>14, <1>15, <1>16
<1> QED  BY <1>3, <1>17

LEMMA SendersOfMissed ==
  ASSUME SendersInv, NEW c \in Groups, NEW S \in Rosters, MissedChange(c, S)
  PROVE  SendersKept(mem'.last, ever')
<1>1. roster' = [roster EXCEPT ![c] = S] /\ ever' = [ever EXCEPT ![c] = @ \cup {S}]
  BY DEF MissedChange
<1>2. ever' \in [Groups -> SUBSET Rosters] /\ \A g \in Groups : ever[g] \subseteq ever'[g]
  BY <1>1, OneMoreRoster DEF SendersInv
<1>3. mem' = mem  BY DEF MissedChange
<1>4. ever \in [Groups -> SUBSET Rosters]  BY RoutedParts DEF SendersInv
<1>5. PICK ev : ev = ever'  OBVIOUS
<1>6. SendersKept(mem.last, ev)  BY <1>2, <1>4, <1>5, SendersGrow DEF SendersInv
<1> QED  BY <1>3, <1>5, <1>6

LEMMA SendersOfMove ==
  ASSUME SendersInv, NEW x \in mem.plan.left, MoveRoom(x)
  PROVE  SendersKept(mem'.last, ever')
<1> DEFINE y == mem.plan.key
           m == Followed(mem, x, y)
           less == [mem.plan EXCEPT !.left = @ \ {x}]
<1>1. mem' = [m EXCEPT !.plan = less] /\ UNCHANGED ever  BY DEF MoveRoom
<1>2. DOMAIN mem = CacheFields /\ ever \in [Groups -> SUBSET Rosters]
  BY RoutedParts DEF SendersInv, CachesKnown
<1>3. \A K \in SUBSET Groups : NeverShared(ever, K) =>
        (x \in OwnPortals(ever, K) => y \in OwnPortals(ever, K))
  BY RoutedParts DEF SendersInv, CachesKept
<1>4. DOMAIN m = CacheFields /\ m.last = Redirected(mem.last, x, y)  BY <1>2, FollowedLast
<1> HIDE DEF y, less
<1>5. SendersKept(Redirected(mem.last, x, y), ever)
  BY <1>2, <1>3, SendersRedirected DEF SendersInv
<1> HIDE DEF m
<1>6. mem'.last = m.last  BY <1>1, <1>4 DEF CacheFields
<1> QED  BY <1>1, <1>4, <1>5, <1>6

(* What else a step does leaves the senders alone, or forgets them.        *)
LEMMA SendersOfRest ==
  ASSUME SendersInv, UNCHANGED ever,
         \/ mem' = mem \/ mem' = WithIndex(mem) \/ mem' = LoadedCaches(db)
         \/ \E p, b : mem' = ServiceSet(mem, p, b)
         \/ \E plan : mem' = [mem EXCEPT !.plan = plan]
         \/ mem' = [mem EXCEPT !.starting = FALSE]
  PROVE  SendersKept(mem'.last, ever')
<1>1. DOMAIN mem = CacheFields  BY RoutedParts DEF SendersInv, CachesKnown
<1>2. SendersKept(NoFcn, ever)  BY DEF SendersKept, NoFcn
<1>3. CASE mem' = LoadedCaches(db)
  <2>1. mem'.last = NoFcn  BY <1>3 DEF LoadedCaches
  <2> QED  BY <1>2, <2>1
<1>4. CASE mem' # LoadedCaches(db)
  <2>1. mem'.last = mem.last
    <3>1. WithIndex(mem).last = mem.last  BY <1>1 DEF WithIndex, CacheFields
    <3>2. \A p, b : ServiceSet(mem, p, b).last = mem.last  BY <1>1, ServiceSetLast
    <3>3. [mem EXCEPT !.starting = FALSE].last = mem.last  BY <1>1 DEF CacheFields
    <3>4. CASE \E plan : mem' = [mem EXCEPT !.plan = plan]
      <4>1. PICK plan : mem' = [mem EXCEPT !.plan = plan]  BY <3>4
      <4> QED  BY <1>1, <4>1 DEF CacheFields
    <3>5. CASE mem' = [mem EXCEPT !.starting = FALSE]  BY <3>3, <3>5
    <3>6. CASE mem' = mem \/ mem' = WithIndex(mem)  BY <3>1, <3>6
    <3>7. CASE \E p, b : mem' = ServiceSet(mem, p, b)  BY <3>2, <3>7
    <3> QED  BY <1>4, <3>4, <3>5, <3>6, <3>7
  <2> QED  BY <2>1 DEF SendersInv
<1> QED  BY <1>3, <1>4

LEMMA SendersStay ==
  ASSUME SendersInv, [Next]_vars
  PROVE  SendersInv'
<1>1. RoutingInv'  BY RoutingStays DEF SendersInv
<1>2. ever \in [Groups -> SUBSET Rosters] /\ \A c \in Groups : roster[c] \in ever[c]
  BY RoutedParts DEF SendersInv, RoutingInv
<1>3. CASE UNCHANGED vars
  <2>1. mem' = mem /\ UNCHANGED ever  BY <1>3 DEF vars
  <2>2. SendersKept(mem'.last, ever')  BY <2>1 DEF SendersInv
  <2> QED  BY <1>1, <2>2 DEF SendersInv
<1>4. ASSUME NEW c \in Groups, Message(c) PROVE SendersKept(mem'.last, ever')
  <2>1. PICK sender \in roster[c] \cap Speakers, u \in GuidsOf[c] \cup {None} :
          RouteMessage(c, Event(Listed(c, roster[c]), sender, u, c \in Carrier), TRUE)
    BY <1>4 DEF Message
  <2> DEFINE carrier == c \in Carrier
  <2> HIDE DEF carrier
  <2>2. RouteMessage(c, Event(Listed(c, roster[c]), sender, u, carrier), TRUE)
    BY <2>1 DEF carrier
  <2> QED  BY <1>2, <2>2, SendersOfListed
<1>5. ASSUME NEW c \in Groups, StoredMessage(c) PROVE SendersKept(mem'.last, ever')
  <2>1. PICK S \in ever[c], u \in GuidsOf[c] : \E sender \in S \cap Speakers :
          RouteMessage(c, Event(Listed(c, S), sender, u, c \in Carrier), FALSE)
    BY <1>5 DEF StoredMessage
  <2>2. PICK sender \in S \cap Speakers :
          RouteMessage(c, Event(Listed(c, S), sender, u, c \in Carrier), FALSE)
    BY <2>1
  <2> DEFINE carrier == c \in Carrier
  <2> HIDE DEF carrier
  <2>3. RouteMessage(c, Event(Listed(c, S), sender, u, carrier), FALSE)
    BY <2>2 DEF carrier
  <2> QED  BY <2>3, SendersOfListed
<1>6. ASSUME NEW c \in Groups, BareMessage(c) PROVE SendersKept(mem'.last, ever')
  BY <1>6, SendersOfBare DEF SendersInv
<1>7. ASSUME NEW c \in Groups, NEW S \in Rosters \ {roster[c]}, ParticipantChange(c, S)
      PROVE  SendersKept(mem'.last, ever')
  BY <1>7, SendersOfChange
<1>8. ASSUME NEW c \in Groups, NEW S \in Rosters \ {roster[c]}, MissedChange(c, S)
      PROVE  SendersKept(mem'.last, ever')
  BY <1>8, SendersOfMissed
<1>9. ASSUME NEW c \in Groups, Glimpse(c) PROVE SendersKept(mem'.last, ever')
  BY <1>9, SendersOfRest DEF Glimpse
<1>10. ASSUME NEW c \in Groups, CloudChat(c) PROVE SendersKept(mem'.last, ever')
  <2>1. UNCHANGED ever /\ \E p, b : mem' = ServiceSet(mem, p, b)  BY <1>10 DEF CloudChat
  <2> QED  BY <2>1, SendersOfRest
<1>11. ASSUME NEW j \in jobs, InsertRoster(j) \/ SyncRoster(j) \/ SaveUuid(j) \/ MakeRoom(j)
       PROVE  SendersKept(mem'.last, ever')
  BY <1>11, SendersOfRest DEF InsertRoster, SyncRoster, SaveUuid, MakeRoom
<1>12. ASSUME RestartClient PROVE SendersKept(mem'.last, ever')
  BY <1>12, SendersOfRest DEF RestartClient
<1>13. ASSUME NEW S \in Rosters, Consolidate(Comma(Canonical(S)))
       PROVE  SendersKept(mem'.last, ever')
  <2>1. UNCHANGED ever /\ (mem' = mem \/ \E plan : mem' = [mem EXCEPT !.plan = plan])
    BY <1>13 DEF Consolidate
  <2> QED  BY <2>1, SendersOfRest
<1>14. ASSUME NEW x \in mem.plan.left, MoveRoom(x) PROVE SendersKept(mem'.last, ever')
  BY <1>14, SendersOfMove
<1>15. ASSUME StartDone PROVE SendersKept(mem'.last, ever')
  BY <1>15, SendersOfRest DEF StartDone
<1>16. ASSUME Next PROVE SendersKept(mem'.last, ever')
  BY <1>4, <1>5, <1>6, <1>7, <1>8, <1>9, <1>10, <1>11, <1>12, <1>13, <1>14, <1>15, <1>16 DEF Next
<1> QED  BY <1>1, <1>3, <1>16 DEF SendersInv

-----------------------------------------------------------------------------
(* Whom a notice of a group of K leads to.                                 *)
LEMMA NoticeLeads ==
  ASSUME SendersInv, NEW K \in SUBSET Groups, NeverShared(ever, K), NEW g \in K,
         NEW e \in Glimpses(g), NEW p \in TypingShown(e) \cup ReceiptShown(e) \cup BareShown(e),
         p \in OwnPortals(ever, Groups \ K)
  PROVE  e.sender \in PeopleOf(ever, Groups \ K)
<1> DEFINE s == e.sender
           N == Groups \ K
<1>1. /\ NeverShared(ever, N) /\ N \in SUBSET Groups /\ ever \in [Groups -> SUBSET Rosters]
      /\ CachesKnown(mem, ever) /\ StoreKnown(db, ever) /\ CachesKept(mem, ever, K)
  BY Sides, RoutedParts DEF SendersInv
<1>2. /\ s \in roster[g] /\ e.parts \in {{}, {Alt}} /\ e.guid \in GuidsOf[g] \cup {None}
      /\ roster[g] \in Rosters
  <2>1. PICK sender \in roster[g] \cap Speakers, u \in GuidsOf[g] \cup {None},
             parts \in {{}, {Alt}} : e = Event(parts, sender, u, g \in Carrier)
    BY DEF Glimpses
  <2>2. e.sender = sender /\ e.parts = parts /\ e.guid = u  BY <2>1 DEF Event
  <2> QED  BY <2>1, <2>2 DEF SendersInv, RoutingInv
<1>3. s \in Others /\ s # Me  BY <1>2, RoutingAssumption
<1>4. DirectKey(e) = DirectPortal(s)
  <2>1. NonSelf(e.parts) = {}  BY <1>2 DEF NonSelf, MyHandles
  <2> QED  BY <2>1 DEF DirectKey
<1>5. DirectPortal(s) \notin OwnPortals(ever, N)
  BY DEF OwnPortals, DirectPortal, Gid, Comma
<1>6. ASSUME p \in KnownByUuid(e) PROVE FALSE
  <2>1. e.guid # None  BY <1>6 DEF KnownByUuid
  <2>2. e.guid \in UuidsOf(K)  BY <1>2, <2>1 DEF UuidsOf
  <2>3. p = Gid(e.guid) \/ (p \in DOMAIN mem.guids /\ mem.guids[p] = e.guid)
    BY <1>6, <2>1 DEF KnownByUuid
  <2>4. p \in OwnPortals(ever, K)
    BY <1>1, <2>2, <2>3, OwnPortalsAre DEF CachesKept, StoredAt
  <2> QED  BY <1>1, <2>4, PortalOfOneSide
<1>9. ASSUME p \in Index(mem), s \in p[2] PROVE s \in PeopleOf(ever, N)
  <2>1. p \in CommaPortals  BY <1>1, <1>9, IndexIsComma
  <2>2. \A u : p # Gid(u)  BY <2>1 DEF CommaPortals, Comma, Gid
  <2>3. PICK S \in UNION {ever[c] : c \in N} : p = Comma(S \cup {Me})
    BY <2>2 DEF OwnPortals
  <2>4. s \in S  BY <1>3, <1>9, <2>3 DEF Comma
  <2> QED  BY <2>3, <2>4 DEF PeopleOf
<1>7. ASSUME p \in GroupOfMember(mem, s) PROVE s \in PeopleOf(ever, N)
  <2>1. CASE s \in DOMAIN mem.last
    <3>1. p = mem.last[s]  BY <1>7, <2>1 DEF GroupOfMember
    <3> QED  BY <1>1, <2>1, <3>1 DEF SendersInv, SendersKept
  <2>2. CASE s \notin DOMAIN mem.last
    <3>1. p \in Index(mem) /\ s \in p[2]  BY <1>7, <2>2 DEF GroupOfMember
    <3> QED  BY <1>9, <3>1
  <2> QED  BY <2>1, <2>2
<1>10. ASSUME p \in UuidPortals(e) PROVE FALSE
  <2>1. e.guid # None  BY <1>10 DEF UuidPortals
  <2>2. p \in OwnPortals(ever, K)  BY <1>1, <1>2, <1>10, <2>1, UuidPortalsOwn
  <2> QED  BY <1>1, <2>2, PortalOfOneSide
<1>8. \/ p \in KnownByUuid(e) \cup GroupOfMember(mem, s) \cup {DirectPortal(s)}
      \/ p \in UuidPortals(e)
      \/ p \in Index(mem) /\ s \in p[2]
  <2>1. ASSUME p \in BareShown(e)
        PROVE  p = DirectPortal(s) \/ p \in UuidPortals(e) \/ (p \in Index(mem) /\ s \in p[2])
    <3> DEFINE with == {q \in Index(mem) : e.sender \in q[2]}
               all == UuidPortals(e) \cup (IF Cardinality(with) = 1 THEN with ELSE {})
    <3>1. p = SmsRedirect(e, DirectPortal(s))  BY <1>4, <2>1 DEF BareShown
    <3>2. \/ p = DirectPortal(s)
          \/ p = (CHOOSE q \in all : TRUE) /\ Cardinality(all) = 1
      BY <3>1 DEF SmsRedirect
    <3>3. all \subseteq UuidPortals(e) \cup with  OBVIOUS
    <3> HIDE DEF all
    <3>4. p = DirectPortal(s) \/ p \in all
      <4>1. Cardinality(all) = 1 => all # {}  BY FS_EmptySet
      <4> QED  BY <3>2, <4>1
    <3> QED  BY <3>3, <3>4
  <2>2. ASSUME p \in TypingShown(e) \cup ReceiptShown(e)
        PROVE  p \in KnownByUuid(e) \cup GroupOfMember(mem, s) \cup {DirectPortal(s)}
    BY <1>4, <2>2 DEF TypingShown, ReceiptShown, TypingFound, ShownIn
  <2> QED  BY <2>1, <2>2
<1> QED  BY <1>5, <1>6, <1>7, <1>8, <1>9, <1>10

(* A typing notice or receipt of a group, or a text of it that lists       *)
(* nobody, is shown in a room of strangers to it only if its sender was    *)
(* among those too (handleTyping, handleReadReceipt,                       *)
(* findGroupPortalForMember, resolveSMSGroupRedirectPortal).               *)
THEOREM NoticesNeverStray == Spec => []NoticesStay
<1>1. Init => SendersInv
  <2>1. ASSUME Init PROVE SendersKept(mem.last, ever)
    <3>1. mem.last = NoFcn  BY <2>1 DEF Init, LoadedCaches
    <3> QED  BY <3>1 DEF SendersKept, NoFcn
  <2> QED  BY <2>1, RoutingStarts DEF SendersInv
<1>2. SendersInv /\ [Next]_vars => SendersInv'  BY SendersStay
<1>3. SendersInv => NoticesStay
  <2> SUFFICES ASSUME SendersInv, NEW K \in SUBSET Groups, Strangers(K), NEW g \in K,
                      NEW e \in Glimpses(g),
                      NEW p \in TypingShown(e) \cup ReceiptShown(e) \cup BareShown(e),
                      NEW h \in Groups \ K, p \in home[h]
               PROVE  \E o \in Groups \ K : \E S \in ever[o] : e.sender \in S
    BY DEF NoticesStay
  <2>1. NeverShared(ever, K)  BY DEF NeverShared, Strangers
  <2>2. NeverShared(ever, Groups \ K) /\ (Groups \ K) \in SUBSET Groups  BY <2>1, Sides
  <2>3. home[h] \subseteq OwnPortals(ever, Groups \ K)
    BY <2>2, RoutedParts DEF SendersInv, HomesKept
  <2>4. e.sender \in PeopleOf(ever, Groups \ K)  BY <2>1, <2>3, NoticeLeads
  <2> QED  BY <2>4 DEF PeopleOf
<1> QED  BY <1>1, <1>2, <1>3, PTL DEF Spec

=============================================================================
