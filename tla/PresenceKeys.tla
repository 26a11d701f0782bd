---------------------------- MODULE PresenceKeys ----------------------------
(***************************************************************************)
(* The keys that decrypt contacts' presence: pulled from a CloudKit zone   *)
(* page by page, or received live, and then subscribed to on APNs.         *)
(*                                                                         *)
(* The zone is a row of invitations, each with the key of one contact; an  *)
(* invitation can be decoded once its channel is known.  Times are steps   *)
(* on the scale of the pass's floors: 1 is the two minutes after which an  *)
(* unfinished walk resumes, then 15 min, 30 min, 1 h, 2 h and 4 h.         *)
(***************************************************************************)
EXTENDS Naturals, FiniteSets

CONSTANTS MaxZone,    \* bound: invitations in the zone
          MaxLive,    \* bound: keys received live
          MaxFaults   \* bound: failures, cancelled passes and restarts

ASSUME PresenceAssumption == {MaxZone, MaxLive} \subseteq Nat

ZoneKeys == 1..MaxZone
Live == MaxZone + 1 .. MaxZone + MaxLive
Keys == ZoneKeys \cup Live
ResumeFloor == 1
FreshFloor == 3
SuccessFloor == 6

VARIABLES
    ready,       \* StatusKit is initialised and the backfill has settled
    zone,        \* how many invitations the zone holds
    decodable,   \* those whose channel is known
    walkToken,   \* continuation token: the invitations before it were walked
    meta,        \* the pass-meta row: floors, and what the last passes found
    age,         \* time since the row's last attempt
    first,       \* the one pass of this process that ignores the floors is used
    pulling,     \* the pass in flight
    held,        \* keys StatusKit holds
    subscribed,  \* keys whose channel APNs was asked for
    timers,      \* debounce timers running, by generation
    gen,         \* presenceSubscribeGen
    waiting,     \* subscribeToContactPresence calls that wait for the lock
    running,     \* the call that has it: the keys it read, or "no"
    faults,
    (* History. *)
    missed,      \* keys whose subscription failed or whose pass was cut short
    promised     \* decodable invitations the recovery walk set out to read

walk == <<zone, decodable, walkToken, meta, age, first, pulling>>
sub == <<subscribed, timers, gen, waiting, running>>
keysVars == <<ready, walk, held, sub, faults, missed, promised>>

NoPass == [on |-> FALSE, at |-> 0, new |-> {}, recovery |-> FALSE]
NewMeta == [errs |-> 0, established |-> FALSE, pulled |-> FALSE, drained |-> FALSE,
            recovered |-> FALSE]
NotRunning == [on |-> FALSE, read |-> {}]

KeysTypeOK ==
    /\ zone \in 0..MaxZone /\ decodable \subseteq ZoneKeys /\ walkToken \in 0..zone
    /\ held \subseteq Keys /\ subscribed \subseteq held /\ age \in 0..SuccessFloor
    /\ timers \subseteq 1..gen /\ running.read \subseteq held
    /\ pulling \in [on : BOOLEAN, at : 0..zone, new : SUBSET held, recovery : BOOLEAN]
    /\ {gen, waiting} \subseteq Nat

KeysInit ==
    /\ ready = FALSE /\ zone \in 0..MaxZone /\ decodable \in SUBSET (1..zone)
    /\ walkToken = 0 /\ meta = NewMeta /\ age = SuccessFloor /\ first = FALSE
    /\ pulling = NoPass /\ held = {} /\ subscribed = {} /\ timers = {} /\ gen = 0
    /\ waiting = 0 /\ running = NotRunning /\ faults = 0 /\ missed = {} /\ promised = {}

Fault == faults < MaxFaults /\ faults' = faults + 1

-----------------------------------------------------------------------------
(* The pass over the zone.                                                  *)

(* nextAllowedAt.  A walk that is not finished resumes soon; the long floor *)
(* holds only once keys were found and the last walk found no more.         *)
BackoffFloor(errs) == IF errs < 4 THEN errs + 1 ELSE 5

Floor ==
    IF meta.errs > 0 THEN BackoffFloor(meta.errs)
    ELSE IF ~meta.drained THEN ResumeFloor
    ELSE IF ~meta.established \/ meta.pulled THEN FreshFloor
    ELSE SuccessFloor

(* A token is parked behind invitations that gave no key: walk once more.   *)
Stranded ==
    /\ walkToken > 0 /\ ~meta.established /\ meta.drained /\ ~meta.recovered

BeginPass(force) ==
    /\ ready /\ ~pulling.on
    /\ ~first \/ force \/ age >= Floor
    /\ first' = TRUE
    (* The token row of a recovery walk may fail to be cleared; the walk    *)
    (* starts over all the same.                                            *)
    /\ \/ walkToken' = (IF Stranded THEN 0 ELSE walkToken) /\ UNCHANGED faults
       \/ Stranded /\ Fault /\ UNCHANGED walkToken
    /\ pulling' = [NoPass EXCEPT !.on = TRUE, !.recovery = Stranded,
                              !.at = IF Stranded THEN 0 ELSE walkToken]
    /\ age' = 0
    /\ promised' = IF Stranded THEN decodable ELSE promised

PeriodicPull ==
    /\ BeginPass(FALSE)
    /\ UNCHANGED <<ready, zone, decodable, meta, held, sub, missed>>

(* A presence update that cannot be decrypted forces a pass; its cooldown   *)
(* is left out, so that one may be forced at any time.                      *)
DecryptFails ==
    /\ BeginPass(TRUE)
    /\ UNCHANGED <<ready, zone, decodable, meta, held, sub, missed>>

(* One page: the FFI holds the keys it decodes, the token is saved.         *)
Page ==
    /\ pulling.on /\ pulling.at < zone
    /\ LET next == pulling.at + 1
           new == ({next} \cap decodable) \ held IN
       /\ held' = held \cup new
       /\ pulling' = [pulling EXCEPT !.at = next, !.new = @ \cup new]
       /\ walkToken' = next
    /\ UNCHANGED <<ready, zone, decodable, meta, age, first, sub, faults, missed,
                   promised>>

(* The meta row a pass leaves.  The one recovery walk counts only if it did *)
(* not fail: a token that could not be cleared would strand the keys again. *)
\* (mutant) A failed recovery walk counts too.
RecoveredAlways(err) == meta.recovered \/ pulling.recovery

Recovered(err) == meta.recovered \/ (pulling.recovery /\ ~err)

MetaAfter(err, complete) ==
    IF err THEN [meta EXCEPT !.errs = IF @ < 4 THEN @ + 1 ELSE @, !.drained = FALSE,
                             !.recovered = Recovered(err)]
    ELSE [errs |-> 0, established |-> meta.established \/ pulling.new # {},
          pulled |-> pulling.new # {}, drained |-> complete, recovered |-> Recovered(err)]

(* The zone is walked to its end: new keys are subscribed to.               *)
EndPass ==
    /\ pulling.on /\ pulling.at = zone
    /\ meta' = MetaAfter(FALSE, TRUE)
    /\ waiting' = IF pulling.new # {} THEN waiting + 1 ELSE waiting
    /\ pulling' = NoPass
    /\ UNCHANGED <<ready, zone, decodable, walkToken, age, first, held, subscribed,
                   timers, gen, running, faults, missed, promised>>

(* A page fails, or the pass is cancelled between two: the pass returns     *)
(* before it subscribes to the keys it has found.                           *)
CutShort(err) ==
    /\ pulling.on /\ Fault
    /\ err \/ pulling.at > 0
    /\ meta' = MetaAfter(err, FALSE)
    /\ missed' = missed \cup pulling.new
    /\ pulling' = NoPass
    /\ UNCHANGED <<ready, zone, decodable, walkToken, age, first, held, sub, promised>>

(* Time passes.                                                             *)
Tick ==
    /\ age < SuccessFloor /\ ~pulling.on
    /\ age' = age + 1
    /\ UNCHANGED <<ready, zone, decodable, walkToken, meta, first, pulling, held, sub, faults,
                   missed, promised>>

-----------------------------------------------------------------------------
(* Live keys and subscriptions.                                             *)

(* OnKeysReceived: every key re-arms the debounce timer.                    *)
\* (mutant) A burst is swallowed while a subscription is under way.
ArmLeading(t) == IF running.on THEN t ELSE t \cup {gen + 1}

Arm(t) == t \cup {gen + 1}

OnKeysReceived(k) ==
    /\ ready /\ k \notin held
    /\ held' = held \cup {k}
    /\ timers' = Arm(timers) /\ gen' = gen + 1
    /\ UNCHANGED <<ready, walk, subscribed, waiting, running, faults, missed, promised>>

(* Only the latest timer subscribes.                                        *)
TimerFires(g) ==
    /\ g \in timers /\ timers' = timers \ {g}
    /\ waiting' = IF g = gen THEN waiting + 1 ELSE waiting
    /\ UNCHANGED <<ready, walk, held, subscribed, gen, running, faults, missed, promised>>

(* Calls are serialised; the keys are read once the lock is held.           *)
Subscribe ==
    /\ waiting > 0 /\ ~running.on
    /\ waiting' = waiting - 1 /\ running' = [on |-> TRUE, read |-> held]
    /\ UNCHANGED <<ready, walk, held, subscribed, timers, gen, faults, missed, promised>>

Subscribed ==
    /\ running.on
    /\ subscribed' = subscribed \cup running.read /\ running' = NotRunning
    /\ missed' = missed \ running.read
    /\ UNCHANGED <<ready, walk, held, timers, gen, waiting, faults, promised>>

SubscribeFails ==
    /\ running.on /\ Fault
    /\ running' = NotRunning
    /\ missed' = missed \cup (running.read \ subscribed)
    /\ UNCHANGED <<ready, walk, held, subscribed, timers, gen, waiting, promised>>

-----------------------------------------------------------------------------
(* Apple and the process.                                                   *)

Invite ==
    /\ zone < MaxZone /\ zone' = zone + 1
    /\ decodable' \in {decodable, decodable \cup {zone + 1}}
    /\ UNCHANGED <<ready, walkToken, meta, age, first, pulling, held, sub, faults, missed,
                   promised>>

ChannelArrives(i) ==
    /\ i \in 1..zone \ decodable /\ decodable' = decodable \cup {i}
    /\ UNCHANGED <<ready, zone, walkToken, meta, age, first, pulling, held, sub, faults,
                   missed, promised>>

(* StatusKit starts: everything held is subscribed to.                      *)
Start ==
    /\ ~ready /\ ready' = TRUE /\ waiting' = 1
    /\ UNCHANGED <<walk, held, subscribed, timers, gen, running, faults, missed, promised>>

RestartKeys ==
    /\ ready /\ Fault /\ ready' = FALSE
    /\ pulling' = NoPass /\ first' = FALSE
    /\ subscribed' = {} /\ timers' = {} /\ gen' = 0 /\ waiting' = 0
    /\ running' = NotRunning /\ missed' = {}
    /\ UNCHANGED <<zone, decodable, walkToken, meta, age, held, promised>>

KeysNext ==
    \/ PeriodicPull \/ DecryptFails \/ Page \/ EndPass \/ Tick
    \/ \E err \in BOOLEAN : CutShort(err)
    \/ \E k \in Live : OnKeysReceived(k)
    \/ \E g \in 1..gen : TimerFires(g)
    \/ Subscribe \/ Subscribed \/ SubscribeFails
    \/ Invite \/ (\E i \in ZoneKeys : ChannelArrives(i)) \/ Start \/ RestartKeys

KeysSpec == KeysInit /\ [][KeysNext]_keysVars

-----------------------------------------------------------------------------
(* A key the bridge holds is subscribed to, or a subscription that will     *)
(* read it is on its way, or its subscription failed, or the pass that      *)
(* found it was cut short: a burst of keys is never swallowed by the        *)
(* debounce, whatever runs at the same time.                                *)
KeysReached ==
    ready =>
      \A k \in held :
        \/ k \in subscribed \cup missed \cup running.read \cup pulling.new
        \/ waiting > 0 \/ (gen \in timers)

(* Once the one recovery walk has been counted, no invitation it set out to *)
(* read stays behind the token without its key: the latch never strands     *)
(* them for good.                                                           *)
NoneStranded ==
    meta.recovered /\ ~pulling.on => \A i \in promised : i <= walkToken => i \in held
=============================================================================
