------------------------------ MODULE Session ------------------------------
(***************************************************************************)
(* Who the bridge is to Apple: the registration (IDS users, identity and   *)
(* APS state, kept or dropped together), the three places that remember it *)
(* (the login row, session.json, the keystore with the signing keys), the  *)
(* clients that use it and the login flow that renews it.                  *)
(*                                                                         *)
(* A session is [reg, ver]: the registration it belongs to and how often   *)
(* Apple has refreshed it since.  Every registration with a new identity   *)
(* after the first tells all contacts that "X added a new Mac"; two APNs   *)
(* connections on the token of one registration drop each other.           *)
(***************************************************************************)
EXTENDS Naturals, FiniteSets

CONSTANTS Handles,       \* phone numbers and addresses of the account
          CloudKit,      \* UseCloudKitBackfill
          MaxClients,    \* bound: IMClient values made
          MaxRegs,       \* bound: registrations
          MaxRefreshes,  \* bound: refreshes of a registration
          MaxSessionFaults \* bound: resets, losses, wedges and failures

ASSUME SessionAssumption ==
    /\ Handles # {} /\ CloudKit \in BOOLEAN
    /\ {MaxClients, MaxRegs, MaxRefreshes, MaxSessionFaults} \subseteq Nat

VARIABLES
    up,        \* the process runs
    mounted,   \* the keystore file is where it should be
    keystore,  \* registrations whose keys that file holds
    clique,    \* trustedpeers.plist says the keychain circle was joined
    row,       \* the user_login row: [there, session, handle]
    backup,    \* session.json: [session, handle]
    regs,      \* registrations made
    expired,   \* sessions Apple takes no longer, or that lack a service
    client,    \* the IMClient values, numbered as they are made
    current,   \* UserLogin.Client, 0 for none
    rebuild,   \* recreateClient: "no", "asked", or "stopped" between its two steps
    login,     \* the login flow: its stage, connection and result
    signout,   \* fnLogout is between the logout and the removal of the files
    sessionFaults,
    (* History. *)
    rowLost, backupLost, \* the row, the file holds no session: never written or destroyed
    kept,      \* the registration last completed
    needless,  \* registrations made although a usable copy existed
    signedOut, \* registrations the user has signed out of
    escaped,   \* those a crash, a failed removal or a login in progress has kept
    saved      \* the newest session the current client has saved

sessionVars == <<up, mounted, keystore, clique, row, backup, regs, expired, client, current,
          rebuild, login, signout, sessionFaults, rowLost, backupLost, kept, needless, signedOut,
          escaped, saved>>

Clients == 1..MaxClients
Nothing == [reg |-> 0, ver |-> 0]
Sessions == [reg : 0..MaxRegs, ver : 0..MaxRefreshes]
ClientRecords ==
    [stage : {"none", "loaded", "connected", "failed", "closed"}, open : BOOLEAN,
     session : Sessions, pending : Sessions, flow : BOOLEAN]
LoginFlows ==
    [stage : {"idle", "password", "code", "device", "passcode", "handle", "saved"},
     open : BOOLEAN, token : 0..MaxRegs + 1, session : Sessions]
LoginRows == [there : BOOLEAN, session : Sessions, handle : Handles \cup {"none"}]
Backups == [session : Sessions, handle : Handles \cup {"none"}]
NoClient == [stage |-> "none", open |-> FALSE, session |-> Nothing, pending |-> Nothing,
             flow |-> FALSE]
NoLogin == [stage |-> "idle", open |-> FALSE, token |-> 0, session |-> Nothing]
NoLoginRow == [there |-> FALSE, session |-> Nothing, handle |-> "none"]
NoBackup == [session |-> Nothing, handle |-> "none"]
disk == <<mounted, keystore, clique>>
hist == <<rowLost, backupLost, kept, needless, signedOut, escaped>>

SessionInit ==
    /\ up = FALSE /\ mounted = TRUE /\ keystore = {} /\ clique = FALSE
    /\ row = NoLoginRow /\ backup = NoBackup /\ regs = 0 /\ expired = {}
    /\ client = [c \in Clients |-> NoClient] /\ current = 0
    /\ rebuild = "no" /\ login = NoLogin /\ signout = FALSE /\ sessionFaults = 0
    /\ rowLost = TRUE /\ backupLost = TRUE /\ kept = 0 /\ needless = {}
    /\ signedOut = {} /\ escaped = {} /\ saved = Nothing

Made == Cardinality({c \in Clients : client[c].stage # "none"})
SessionFault == sessionFaults < MaxSessionFaults /\ sessionFaults' = sessionFaults + 1

(* ValidateKeystore: an empty session references no keys. *)
Valid(s) == s = Nothing \/ (mounted /\ s.reg \in keystore)

(* The row's session, else the one in session.json; not validated yet. *)
CachedSession == IF row.session # Nothing THEN row.session ELSE backup.session

(* The cached parts are a coupled set: all are reused or none. *)
Reusable == IF Valid(CachedSession) THEN CachedSession ELSE Nothing

(* What tryAutoRestore (and check-restore) asks of session.json. *)
Restorable ==
    /\ backup.session # Nothing /\ Valid(backup.session)
    /\ CloudKit => clique

-----------------------------------------------------------------------------
(* Loading a login, connecting, saving.                                     *)

(* LoadUserLogin without its Disconnect: session.json gets a copy of the    *)
(* row unless the row's session is empty; the new client opens its APNs     *)
(* connection at once.                                                      *)
\* (mutant) An empty row is copied too.
CopyAlways(r) == [session |-> r.session, handle |-> r.handle]

BackupCopy(r) ==
    IF r.session = Nothing THEN backup ELSE [session |-> r.session, handle |-> r.handle]

LoadUserLogin(r) ==
    /\ Made < MaxClients
    /\ client' = [client EXCEPT ![Made + 1] =
           [NoClient EXCEPT !.stage = "loaded", !.open = TRUE, !.session = r.session]]
    /\ current' = Made + 1
    /\ backup' = BackupCopy(r) /\ backupLost' = (backupLost /\ r.session = Nothing)
    /\ saved' = Nothing

(* The restored row has no preferred handle. *)
TryAutoRestore == [there |-> TRUE, session |-> backup.session, handle |-> "none"]

StartBridge ==
    /\ ~up /\ up' = TRUE
    /\ \/ row.there /\ LoadUserLogin(row) /\ UNCHANGED <<row, rowLost>>
       \/ /\ ~row.there /\ Restorable
          /\ row' = TryAutoRestore /\ rowLost' = FALSE
          /\ LoadUserLogin(TryAutoRestore)
       \/ /\ ~row.there /\ ~Restorable
          /\ UNCHANGED <<row, rowLost, client, current, backup, backupLost, saved>>
    /\ UNCHANGED <<disk, regs, expired, rebuild, login, signout, sessionFaults, kept,
                   needless, signedOut, escaped>>

(* Connect finds the signing keys missing: the login is cleared and the     *)
(* user asked to log in again.  The connection stays open.                  *)
ConnectWithoutKeys ==
    /\ up /\ current # 0 /\ client[current].stage = "loaded"
    /\ ~Valid(client[current].session)
    /\ row' = [row EXCEPT !.session = Nothing]
    /\ rowLost' = TRUE
    /\ client' = [client EXCEPT ![current].stage = "failed"]
    /\ UNCHANGED <<up, disk, backup, regs, expired, current, rebuild, login, signout,
                   sessionFaults, backupLost, kept, needless, signedOut, escaped,
                   saved>>

ConnectFails ==
    /\ up /\ current # 0 /\ client[current].stage = "loaded"
    /\ Valid(client[current].session)
    /\ IF client[current].session = Nothing THEN UNCHANGED sessionFaults ELSE SessionFault
    /\ client' = [client EXCEPT ![current].stage = "failed"]
    /\ UNCHANGED <<up, disk, row, backup, regs, expired, current, rebuild, login,
                   signout, hist, saved>>

(* The preferred handle is kept if it is among those Apple reports, else    *)
(* the first of them is taken and remembered; the state is saved at once.   *)
ChosenHandle(preferred, available) ==
    IF preferred \in available THEN preferred ELSE CHOOSE h \in available : TRUE

Connect ==
    /\ up /\ current # 0 /\ client[current].stage = "loaded"
    /\ client[current].session # Nothing /\ Valid(client[current].session)
    /\ client' = [client EXCEPT ![current].stage = "connected"]
    /\ row' = [row EXCEPT !.handle = ChosenHandle(row.handle, Handles),
                          !.session = client[current].session]
    /\ saved' = client[current].session
    /\ UNCHANGED <<up, disk, backup, regs, expired, current, rebuild, login, signout,
                   sessionFaults, hist>>

(* Apple refreshes the registration; a goroutine starts a save.             *)
UpdateUsers(c) ==
    /\ up /\ client[c].stage = "connected" /\ client[c].pending = Nothing
    /\ client[c].session.ver < MaxRefreshes
    /\ LET fresher == [client[c].session EXCEPT !.ver = @ + 1] IN
       client' = [client EXCEPT ![c].session = fresher, ![c].pending = fresher]
    /\ UNCHANGED <<up, disk, row, backup, regs, expired, current, rebuild, login,
                   signout, sessionFaults, hist, saved>>

(* One save at a time and client: two of them may also overtake each other. *)
PeriodicStateSave(c) ==
    /\ up /\ client[c].stage = "connected" /\ client[c].pending = Nothing
    /\ client' = [client EXCEPT ![c].pending = client[c].session]
    /\ UNCHANGED <<up, disk, row, backup, regs, expired, current, rebuild, login,
                   signout, sessionFaults, hist, saved>>

(* persistState takes its snapshot before it looks at the login: the        *)
(* runtime may stall in between, for longer than a rebuild takes.  A save   *)
(* by a client that was replaced meanwhile is dropped.                      *)
\* (mutant) The save does not look whether its client was replaced.
AnyClient(c) == TRUE

StillCurrent(c) == current = c

PersistState(c) ==
    /\ up /\ client[c].pending # Nothing
    /\ IF StillCurrent(c) /\ row.there
       THEN /\ row' = [row EXCEPT !.session = client[c].pending]
            /\ saved' = IF current = c THEN client[c].pending ELSE saved
       ELSE UNCHANGED <<row, saved>>
    /\ client' = [client EXCEPT ![c].pending = Nothing]
    /\ UNCHANGED <<up, disk, backup, regs, expired, current, rebuild, login, signout,
                   sessionFaults, hist>>

(* Disconnect: the stop channel is closed, which asks the saver for a last  *)
(* save, and so is the APNs connection.                                     *)
Disconnected(c) ==
    [client EXCEPT ![c].stage = "closed", ![c].open = FALSE,
                   ![c].pending = IF @ = Nothing THEN client[c].session ELSE @]

(* Nothing has arrived on the connection for ten minutes.                   *)
WatchdogFires ==
    /\ up /\ current # 0 /\ client[current].stage = "connected" /\ rebuild = "no"
    /\ SessionFault /\ rebuild' = "asked"
    /\ UNCHANGED <<up, disk, row, backup, regs, expired, client, current, login,
                   signout, hist, saved>>

(* recreateClient: LoadUserLogin first disconnects the client it replaces,  *)
(* if that one ever connected.                                              *)
\* (mutant) As bridgev2 does: the old client is just forgotten.
KeepExisting == client

StopExisting == IF client[current].stage = "connected" THEN Disconnected(current) ELSE client

BeginRebuild ==
    /\ up /\ rebuild = "asked" /\ current # 0
    /\ client' = StopExisting
    /\ rebuild' = "stopped"
    /\ UNCHANGED <<up, disk, row, backup, regs, expired, current, login, signout,
                   sessionFaults, hist, saved>>

FinishRebuild ==
    /\ up /\ rebuild = "stopped" /\ row.there
    /\ LoadUserLogin(row)
    /\ rebuild' = "no"
    /\ UNCHANGED <<up, disk, row, regs, expired, login, signout, sessionFaults, rowLost,
                   kept, needless, signedOut, escaped>>

-----------------------------------------------------------------------------
(* The login flow (either of the two: they differ in where the hardware     *)
(* configuration comes from).                                               *)

(* Start opens a connection: on the token of the cached session when that   *)
(* is usable, on a new one otherwise.  bridgev2 connects the logins it has  *)
(* before it takes commands.                                                *)
LoginStart ==
    /\ up /\ login.stage = "idle"
    /\ current # 0 => client[current].stage # "loaded"
    /\ login' = [stage |-> "password", open |-> TRUE, session |-> Nothing,
                 token |-> IF Reusable # Nothing THEN Reusable.reg ELSE regs + 1]
    /\ UNCHANGED <<up, disk, row, backup, regs, expired, client, current, rebuild,
                   signout, sessionFaults, hist, saved>>

Needs2fa ==
    /\ up /\ login.stage = "password"
    /\ login' = [login EXCEPT !.stage = "code"]
    /\ UNCHANGED <<up, disk, row, backup, regs, expired, client, current, rebuild,
                   signout, sessionFaults, hist, saved>>

(* Without CloudKit there is nothing to decrypt and the passcode is not     *)
(* asked for; with it, the device comes first if there are several.         *)
AfterRegistration == IF CloudKit THEN {"device", "passcode"} ELSE {"handle"}

SelectDevice ==
    /\ up /\ login.stage = "device"
    /\ login' = [login EXCEPT !.stage = "passcode"]
    /\ UNCHANGED <<up, disk, row, backup, regs, expired, client, current, rebuild,
                   signout, sessionFaults, hist, saved>>

(* LoginSession.finish registers a session that expired again, with the     *)
(* identity and the token it has: contacts are told nothing.                *)
Renewed(s) == IF s \in expired THEN [s EXCEPT !.ver = @ + 1] ELSE s

(* finishLogin looks for the cached session again.  A registration writes   *)
(* its keys to the keystore, into a new file if the old one is missing.     *)
FinishLogin ==
    /\ up /\ login.stage \in {"password", "code"}
    /\ \E s \in AfterRegistration : login' = [login EXCEPT !.stage = s, !.session =
           IF Reusable # Nothing THEN Renewed(Reusable) ELSE [reg |-> regs + 1, ver |-> 0]]
    /\ \/ /\ Reusable # Nothing
          /\ UNCHANGED <<disk, regs, needless>>
       \/ /\ Reusable = Nothing /\ regs < MaxRegs
          /\ regs' = regs + 1
          /\ keystore' = (IF mounted THEN keystore ELSE {}) \cup {regs + 1}
          /\ mounted' = TRUE
          /\ needless' = IF mounted /\ kept \in keystore \ signedOut /\ ~(rowLost /\ backupLost)
                         THEN needless \cup {regs + 1} ELSE needless
          /\ UNCHANGED clique
    /\ UNCHANGED <<up, row, backup, expired, client, current, rebuild, signout,
                   sessionFaults, rowLost, backupLost, kept, signedOut, escaped, saved>>

JoinKeychain ==
    /\ up /\ login.stage = "passcode"
    /\ clique' = TRUE
    /\ login' = [login EXCEPT !.stage = "handle"]
    /\ UNCHANGED <<up, mounted, keystore, row, backup, regs, expired, client, current,
                   rebuild, signout, sessionFaults, hist, saved>>

(* A wrong password, code or passcode, or the user cancels: the flow is     *)
(* dropped but nobody closes its connection.                                *)
LoginEnds ==
    /\ up /\ login.stage \in {"password", "code", "device", "passcode", "handle"} /\ SessionFault
    /\ login' = [login EXCEPT !.stage = "idle", !.session = Nothing]
    /\ UNCHANGED <<up, disk, row, backup, regs, expired, client, current, rebuild,
                   signout, hist, saved>>

(* completeLoginWithMeta: session.json first, then the login row with the   *)
(* client that takes the flow's connection over.  A row that exists is      *)
(* updated; whether bridgev2 disconnects the client it replaces is its own  *)
(* affair.                                                                  *)
SaveSessionState(h) ==
    /\ up /\ login.stage = "handle"
    /\ backup' = [session |-> login.session, handle |-> h]
    /\ backupLost' = FALSE /\ kept' = login.session.reg
    /\ login' = [login EXCEPT !.stage = "saved"]
    /\ UNCHANGED <<up, disk, row, regs, expired, client, current, rebuild, signout,
                   sessionFaults, rowLost, needless, signedOut, escaped, saved>>

NewLogin ==
    /\ up /\ login.stage = "saved" /\ Made < MaxClients
    /\ row' = [there |-> TRUE, session |-> login.session, handle |-> backup.handle]
    /\ rowLost' = FALSE
    /\ \E before \in {client, IF current # 0 THEN Disconnected(current) ELSE client} :
          client' = [c \in Clients |->
              IF c = Made + 1
              THEN [NoClient EXCEPT !.stage = "loaded", !.open = TRUE, !.flow = TRUE,
                                    !.session = login.session]
              ELSE [before[c] EXCEPT !.flow = @ \/ c = current]]
    /\ current' = Made + 1
    /\ saved' = Nothing
    /\ login' = NoLogin
    /\ escaped' = escaped \cup (IF signout THEN {login.session.reg} ELSE {})
    /\ UNCHANGED <<up, disk, backup, regs, expired, rebuild, signout, sessionFaults,
                   backupLost, kept, needless, signedOut>>

-----------------------------------------------------------------------------
(* Signing out.                                                             *)

(* The login is removed, its client disconnected; the files are still there. *)
Logout ==
    /\ up /\ row.there /\ current # 0 /\ ~signout
    /\ signedOut' = signedOut \cup ({CachedSession.reg, client[current].session.reg} \ {0})
    /\ row' = NoLoginRow /\ current' = 0
    /\ client' = Disconnected(current)
    /\ rebuild' = "no" /\ saved' = Nothing
    /\ signout' = TRUE /\ rowLost' = TRUE
    /\ UNCHANGED <<up, disk, backup, regs, expired, login, sessionFaults, backupLost,
                   kept, needless, escaped>>

(* With no login left, fnLogout goes straight to the files of an earlier one, *)
(* or of one that is just being made.                                        *)
LogoutAgain ==
    /\ up /\ ~row.there /\ ~signout /\ SessionFault
    /\ backup.session # Nothing \/ clique
    /\ signedOut' = IF login.stage = "saved" THEN signedOut
                    ELSE signedOut \cup ({CachedSession.reg} \ {0})
    /\ signout' = TRUE
    /\ UNCHANGED <<up, disk, row, backup, regs, expired, client, current, rebuild,
                   login, rowLost, backupLost, kept, needless, escaped, saved>>

\* (mutant) session.json is forgotten.
ClearTrustOnly ==
    /\ up /\ signout
    /\ signout' = FALSE
    /\ clique' = (row.there /\ clique)
    /\ escaped' = IF row.there THEN escaped ELSE {login.session.reg} \ {0}
    /\ UNCHANGED <<up, mounted, keystore, row, backup, regs, expired, client, current,
                   rebuild, login, sessionFaults, backupLost, rowLost, kept, needless,
                   signedOut, saved>>

(* The files are removed when no login is left, the trust circle's among     *)
(* them.  A file that cannot be removed stays, with a warning in the log.    *)
ClearLocalSessionBackup ==
    /\ up /\ signout
    /\ signout' = FALSE
    /\ \/ /\ row.there
          /\ UNCHANGED <<backup, clique, backupLost, escaped, sessionFaults>>
       \/ /\ ~row.there
          /\ backup' = NoBackup /\ clique' = FALSE /\ backupLost' = TRUE
          /\ escaped' = {login.session.reg} \ {0}
          /\ UNCHANGED sessionFaults
       \/ /\ ~row.there /\ backup.session # Nothing /\ SessionFault
          /\ escaped' = escaped \cup ({backup.session.reg, login.session.reg} \ {0})
          /\ clique' \in {FALSE, clique}
          /\ UNCHANGED <<backup, backupLost>>
    /\ UNCHANGED <<up, mounted, keystore, row, regs, expired, client, current, rebuild,
                   login, rowLost, kept, needless, signedOut, saved>>

-----------------------------------------------------------------------------
(* Crashes and losses.                                                      *)

(* The process stops or dies: connections and pending saves are gone.       *)
Stopped ==
    /\ up' = FALSE
    /\ client' = [c \in Clients |-> IF client[c].stage = "none" THEN NoClient
                                    ELSE [NoClient EXCEPT !.stage = "closed"]]
    /\ current' = 0 /\ login' = NoLogin /\ rebuild' = "no" /\ signout' = FALSE
    /\ saved' = Nothing
    /\ escaped' = escaped \cup (IF signout THEN {backup.session.reg} \ {0} ELSE {})

BridgeDies ==
    /\ up /\ Stopped
    /\ UNCHANGED <<disk, row, backup, regs, expired, sessionFaults, rowLost, backupLost,
                   kept, needless, signedOut>>

(* session.json is written in place: a crash meanwhile leaves half of it,   *)
(* which the next start cannot parse.                                       *)
TornSave ==
    /\ up /\ SessionFault /\ Stopped
    /\ login.stage = "handle" \/ rebuild = "stopped"
    /\ backup' = NoBackup /\ backupLost' = TRUE
    /\ UNCHANGED <<disk, row, regs, expired, rowLost, kept, needless, signedOut>>

(* While the bridge is down nobody refreshes its session: the certificates   *)
(* run out, or the next version of the bridge asks for a service that was    *)
(* not registered.                                                          *)
RegistrationExpires ==
    /\ ~up /\ CachedSession \notin {Nothing} \cup expired /\ CachedSession.ver < MaxRefreshes
    /\ SessionFault
    /\ expired' = expired \cup {[CachedSession EXCEPT !.ver = v] : v \in 0..CachedSession.ver}
    /\ UNCHANGED <<up, disk, row, backup, regs, client, current, rebuild, login, signout, hist,
                   saved>>

ResetDatabase ==
    /\ ~up /\ row.there /\ SessionFault
    /\ row' = NoLoginRow /\ rowLost' = TRUE
    /\ UNCHANGED <<up, disk, backup, regs, expired, client, current, rebuild, login,
                   signout, backupLost, kept, needless, signedOut, escaped, saved>>

(* The keystore file is moved away, or back.                                *)
KeystoreMoves ==
    /\ ~up /\ keystore # {} /\ SessionFault
    /\ mounted' = ~mounted
    /\ UNCHANGED <<up, keystore, clique, row, backup, regs, expired, client, current,
                   rebuild, login, signout, hist, saved>>

SessionNext ==
    \/ StartBridge \/ ConnectWithoutKeys \/ ConnectFails \/ Connect
    \/ WatchdogFires \/ BeginRebuild \/ FinishRebuild
    \/ \E c \in Clients : UpdateUsers(c) \/ PeriodicStateSave(c) \/ PersistState(c)
    \/ LoginStart \/ Needs2fa \/ FinishLogin \/ SelectDevice \/ JoinKeychain \/ LoginEnds
    \/ (\E h \in Handles : SaveSessionState(h)) \/ NewLogin
    \/ Logout \/ LogoutAgain \/ ClearLocalSessionBackup
    \/ BridgeDies \/ TornSave \/ ResetDatabase \/ KeystoreMoves \/ RegistrationExpires

SessionSpec == SessionInit /\ [][SessionNext]_sessionVars

-----------------------------------------------------------------------------
SessionTypeOK ==
    /\ up \in BOOLEAN /\ mounted \in BOOLEAN /\ clique \in BOOLEAN /\ signout \in BOOLEAN
    /\ rowLost \in BOOLEAN /\ backupLost \in BOOLEAN
    /\ keystore \cup needless \cup signedOut \cup escaped \subseteq 1..MaxRegs
    /\ expired \subseteq Sessions
    /\ row \in LoginRows /\ backup \in Backups
    /\ client \in [Clients -> ClientRecords] /\ login \in LoginFlows
    /\ current \in 0..MaxClients /\ rebuild \in {"no", "asked", "stopped"}
    /\ saved \in Sessions

(* Contacts are told of a new device only when there is no way around it:   *)
(* no login registers a new identity while the keys of the last one that    *)
(* was saved are in the keystore, the user has not signed it out, and the   *)
(* row or the file still remembers it, expired or not.  (loadCachedSession  *)
(* with the guard of LoadUserLogin that keeps a good session.json from      *)
(* being overwritten by a cleared row.)                                     *)
RegistersOnce == needless = {}

(* Clients that were loaded one after the other never have the same APNs    *)
(* token open twice: LoadUserLogin disconnects the client it replaces.      *)
(* Clients made or replaced by a login flow are left out: the flow itself   *)
(* opens a connection on the token in use.                                  *)
OneConnection ==
    \A c, d \in Clients :
        (/\ client[c].open /\ client[d].open /\ ~client[c].flow /\ ~client[d].flow
         /\ client[c].session.reg = client[d].session.reg) => c = d

(* The row never falls back behind what the current client has saved, in    *)
(* particular not to the state of a client it replaced whose save was       *)
(* stalled.                                                                 *)
SuccessorKept ==
    (saved # Nothing /\ row.session # Nothing) =>
        row.session.reg = saved.reg /\ row.session.ver >= saved.ver

(* A registration the user has signed out of does not come back through a   *)
(* restart or a later login, unless the process died or failed to remove    *)
(* session.json before fnLogout was through, or a login in progress had     *)
(* picked it up by then; the next logout that gets through ends that too.   *)
LoggedOutStaysOut ==
    /\ row.session.reg \notin signedOut \ escaped
    /\ current # 0 => client[current].session.reg \notin signedOut \ escaped

(* What the comments of fnLogout say (commands.go:423-425, 506-507): a       *)
(* re-login or a restart never resumes what was signed out.                  *)
NeverResumed ==
    /\ row.session.reg \notin signedOut
    /\ current # 0 => client[current].session.reg \notin signedOut
=============================================================================
