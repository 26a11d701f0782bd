-------------------------- MODULE CloudAttachments --------------------------
(***************************************************************************)
(* Attachments of CloudKit history on their way to the Matrix media store. *)
(* Two goroutines upload them at the same time: the cloud sync goroutine,  *)
(* which sweeps over every stored attachment before rooms are created      *)
(* (preUploadCloudAttachments), and the portal event loop, which warms the *)
(* attachments of the chunk it is about to backfill                        *)
(* (preUploadChunkAttachments) and then converts the chunk row by row.     *)
(* They share the in-memory cache of uploads, the failure counts, the      *)
(* tombstones and the byte budget.  Uploads and tombstones are also kept   *)
(* in the database and survive a restart; failure counts do not.           *)
(*                                                                         *)
(* Every attachment here is the only one of its message, so the conversion *)
(* downloads it without taking budget, as cloudAttachmentsToBackfill does. *)
(***************************************************************************)
EXTENDS Integers, FiniteSets

CONSTANTS
    Attachments,  \* attachment records
    FileSize,     \* [Attachments -> Int]: the size CloudKit reports, a wrapped i32
    RealSize,     \* [Attachments -> Nat]: the bytes a download yields
    Wrap,         \* 2^32, in the units of the sizes
    LivePhotos,   \* attachments with a still and a motion video
    Limit,        \* max_attachment_size_mb
    Budget,       \* attachmentMaxInFlightBytes
    Parallel,     \* attachmentMaxParallelDownloads, for each fan-out
    MaxRetries,   \* maxAttachmentRetries
    MaxSweeps,    \* bound: sweeps of a session
    MaxFetches,   \* bound: backfills of a session
    MaxFailures,  \* bound: downloads and uploads that fail for a while
    MaxRestarts   \* bound: restarts of the bridge

ASSUME SizesAssumption ==
    /\ FileSize \in [Attachments -> Int]
    /\ RealSize \in [Attachments -> Nat]
    /\ Wrap \in Nat
    /\ \A a \in Attachments : FileSize[a] # 0 => (RealSize[a] - FileSize[a]) % Wrap = 0
ASSUME LimitsAssumption ==
    /\ {Limit, Budget, Parallel, MaxRetries} \subseteq Nat \ {0}
    /\ LivePhotos \subseteq Attachments
    /\ "idle" \notin Attachments

VARIABLES
    cache,      \* attachmentContentCache
    saved,      \* cloud_attachment_cache
    failed,     \* failedAttachments: retries of each attachment
    dead,       \* deadAttachments, loaded once per session
    tombstones, \* cloud_attachment_dead
    loaded,     \* deadAttachmentsOnce has run
    aged,       \* attachments CloudKit no longer serves
    sweep,      \* attachments the sweep has still to start, or Idle
    warm,       \* attachments the chunk's warm-up has still to start, or Idle
    convert,    \* rows the event loop has still to convert, or Idle
    jobs,       \* uploads under way
    shown,      \* what each message became in its room
    filled,     \* the portal's forward backfill is complete
    count,      \* sweeps, fetches, failures and restarts so far
    swept       \* history: downloads the sweeps started in this session

uploadsVars == <<cache, saved, failed, dead, tombstones, loaded, aged, sweep, warm,
          convert, jobs, shown, filled, count, swept>>

Idle == {"idle"}

(* recoverAttachmentSize undoes the i32 wrap of a negative size. *)
RecoveredSize(a) == IF FileSize[a] < 0 THEN FileSize[a] + Wrap ELSE FileSize[a]

\* An unknown size costs one byte, as it once did.
WeightOfUnknownOne(a) ==
    IF FileSize[a] < 1 THEN 1 ELSE IF FileSize[a] > Budget THEN Budget ELSE FileSize[a]

(* clampAttachmentWeight: an unknown size costs the whole budget. *)
Weight(a) == IF FileSize[a] < 1 \/ FileSize[a] > Budget THEN Budget ELSE FileSize[a]

TooLarge(a) == RecoveredSize(a) > Limit

JobsOf(phase) == {j \in jobs : j.by = phase}

FanOut == jobs \ JobsOf("convert")

(* The units of a sum of sizes, each named by what it belongs to. *)
Units(size) == UNION {{j} \X (1..size[j]) : j \in DOMAIN size}

Weights(S) == [j \in S |-> Weight(j.att)]

(* The part of the budget that is taken. *)
InFlight == Cardinality(Units(Weights(FanOut)))

(* What is in memory: a file over the limit is not read back. *)
Resident(j) == IF j.stage = "read" /\ RealSize[j.att] <= Limit THEN RealSize[j.att] ELSE 0

(* isDeadAttachment, after the tombstones have been loaded once. *)
Tombstoned(a) == a \in dead \/ (~loaded /\ a \in tombstones)

LoadTombstones ==
    /\ loaded' = TRUE
    /\ dead' = IF loaded THEN dead ELSE dead \cup tombstones

(* A cached upload answers at once; a Live Photo, whose cache entry holds  *)
(* the still only, is downloaded again.                                    *)
CacheHit(a) == a \in cache \ LivePhotos

\* One retry more.
ExhaustedLate(a) == failed[a] > MaxRetries

Exhausted(a) == failed[a] >= MaxRetries

(* What a sweep collects. *)
ToSweep(cached) ==
    {a \in Attachments : a \notin cached /\ ~Tombstoned(a) /\ ~Exhausted(a) /\ (filled => failed[a] > 0)}

ToWarm == {a \in Attachments : a \notin cache}

Tick(c) == count' = [count EXCEPT ![c] = @ + 1]

-----------------------------------------------------------------------------
UploadsInit ==
    /\ cache = {} /\ saved = {} /\ dead = {} /\ tombstones = {} /\ aged = {}
    /\ failed = [a \in Attachments |-> 0]
    /\ loaded = FALSE
    /\ sweep = Idle /\ warm = Idle /\ convert = Idle
    /\ jobs = {}
    /\ shown = [a \in Attachments |-> "none"]
    /\ filled = FALSE
    /\ count = [c \in {"sweeps", "fetches", "failures", "restarts"} |-> 0]
    /\ swept = [a \in Attachments |-> 0]

(* preUploadCloudAttachments restores the saved uploads and collects what  *)
(* is left to do.                                                          *)
StartSweep ==
    /\ sweep = Idle /\ count["sweeps"] < MaxSweeps
    /\ Tick("sweeps")
    /\ cache' = cache \cup saved
    /\ LoadTombstones
    /\ sweep' = ToSweep(cache \cup saved)
    /\ UNCHANGED <<saved, failed, tombstones, aged, warm, convert, jobs, shown, filled,
                   swept>>

EndSweep ==
    /\ sweep = {} /\ JobsOf("sweep") = {}
    /\ sweep' = Idle
    /\ UNCHANGED <<cache, saved, failed, dead, tombstones, loaded, aged, warm, convert,
                   jobs, shown, filled, count, swept>>

(* FetchMessages of the forward backfill: warm up the chunk, then convert. *)
StartFetch ==
    /\ warm = Idle /\ convert = Idle /\ count["fetches"] < MaxFetches
    /\ Tick("fetches")
    /\ warm' = ToWarm
    /\ UNCHANGED <<cache, saved, failed, dead, tombstones, loaded, aged, sweep, convert,
                   jobs, shown, filled, swept>>

EndWarm ==
    /\ warm = {} /\ JobsOf("warm") = {}
    /\ warm' = Idle
    /\ convert' = Attachments
    /\ UNCHANGED <<cache, saved, failed, dead, tombstones, loaded, aged, sweep, jobs,
                   shown, filled, count, swept>>

(* A fan-out starts a download: it needs a slot of its own fan-out and     *)
(* room in the budget all fan-outs share.                                  *)
Admitted(phase, a) ==
    /\ Cardinality(JobsOf(phase)) < Parallel
    /\ InFlight + Weight(a) <= Budget

(* downloadAndUploadAttachment up to the download: the size gate, the      *)
(* tombstone and the cache answer without one.                             *)
Skipped(a) == TooLarge(a) \/ Tombstoned(a) \/ CacheHit(a)

BeginDownload(phase, a) ==
    /\ IF TooLarge(a) THEN UNCHANGED <<dead, loaded>> ELSE LoadTombstones
    /\ jobs' = IF Skipped(a) THEN jobs
               ELSE jobs \cup {[att |-> a, by |-> phase, stage |-> "download"]}

StartSwept(a) ==
    /\ sweep # Idle /\ a \in sweep
    /\ Admitted("sweep", a)
    /\ sweep' = sweep \ {a}
    /\ BeginDownload("sweep", a)
    /\ swept' = IF Skipped(a) THEN swept ELSE [swept EXCEPT ![a] = @ + 1]
    /\ UNCHANGED <<cache, saved, failed, tombstones, aged, warm, convert, shown, filled,
                   count>>

StartWarmed(a) ==
    /\ warm # Idle /\ a \in warm
    /\ Admitted("warm", a)
    /\ warm' = warm \ {a}
    /\ BeginDownload("warm", a)
    /\ UNCHANGED <<cache, saved, failed, tombstones, aged, sweep, convert, shown,
                   filled, count, swept>>

(* cloudRowToBackfillMessages: a message without text whose attachment     *)
(* yields nothing is bridged as a notice.                                  *)
Bridge(a, as) == shown' = IF shown[a] = "none" THEN [shown EXCEPT ![a] = as] ELSE shown

StartConverted(a) ==
    /\ convert # Idle /\ a \in convert /\ JobsOf("convert") = {}
    /\ BeginDownload("convert", a)
    /\ IF Skipped(a)
       THEN /\ convert' = convert \ {a}
            /\ Bridge(a, IF ~TooLarge(a) /\ ~Tombstoned(a) THEN "media" ELSE "notice")
       ELSE UNCHANGED <<convert, shown>>
    /\ UNCHANGED <<cache, saved, failed, tombstones, aged, sweep, warm, filled, count,
                   swept>>

(* The download ends: the file is read back when it is within the limit.   *)
(* What CloudKit no longer serves gets a tombstone at once; any other      *)
(* failure is counted.                                                     *)
RecordFailure(a, unrecoverable) ==
    /\ failed' = [failed EXCEPT ![a] = @ + 1]
    /\ dead' = IF unrecoverable THEN dead \cup {a} ELSE dead
    /\ tombstones' = IF unrecoverable /\ a \notin dead THEN tombstones \cup {a} ELSE tombstones

Finish(j, as) ==
    /\ jobs' = jobs \ {j}
    /\ IF j.by = "convert"
       THEN convert' = convert \ {j.att} /\ Bridge(j.att, as)
       ELSE UNCHANGED <<convert, shown>>

DownloadEnds(j) ==
    /\ j.stage = "download" /\ j.att \notin aged
    /\ jobs' = (jobs \ {j}) \cup {[j EXCEPT !.stage = "read"]}
    /\ UNCHANGED <<cache, saved, failed, dead, tombstones, loaded, aged, sweep, warm,
                   convert, shown, filled, count, swept>>

DownloadFails(j) ==
    /\ j.stage = "download"
    /\ \/ /\ j.att \in aged
          /\ RecordFailure(j.att, TRUE)
          /\ count' = count
       \/ /\ count["failures"] < MaxFailures
          /\ RecordFailure(j.att, FALSE)
          /\ Tick("failures")
    /\ Finish(j, "notice")
    /\ UNCHANGED <<cache, saved, loaded, aged, sweep, warm, filled, swept>>

(* Over the limit after all: dropped without a failure. *)
DropOversized(j) ==
    /\ j.stage = "read" /\ RealSize[j.att] > Limit
    /\ Finish(j, "notice")
    /\ UNCHANGED <<cache, saved, failed, dead, tombstones, loaded, aged, sweep, warm,
                   filled, count, swept>>

Uploaded(j) ==
    /\ j.stage = "read" /\ RealSize[j.att] <= Limit
    /\ cache' = cache \cup {j.att}
    /\ saved' = saved \cup {j.att}
    /\ failed' = [failed EXCEPT ![j.att] = 0]
    /\ Finish(j, "media")
    /\ UNCHANGED <<dead, tombstones, loaded, aged, sweep, warm, filled, count, swept>>

UploadFails(j) ==
    /\ j.stage = "read" /\ RealSize[j.att] <= Limit
    /\ count["failures"] < MaxFailures
    /\ Tick("failures")
    /\ RecordFailure(j.att, FALSE)
    /\ Finish(j, "notice")
    /\ UNCHANGED <<cache, saved, loaded, aged, sweep, warm, filled, swept>>

(* The chunk is in the room; its completion callback marks the portal. *)
EndFetch ==
    /\ convert = {}
    /\ convert' = Idle
    /\ filled' = TRUE
    /\ UNCHANGED <<cache, saved, failed, dead, tombstones, loaded, aged, sweep, warm,
                   jobs, shown, count, swept>>

(* Apple ages an asset out. *)
AgesOut(a) ==
    /\ a \notin aged
    /\ aged' = aged \cup {a}
    /\ UNCHANGED <<cache, saved, failed, dead, tombstones, loaded, sweep, warm, convert,
                   jobs, shown, filled, count, swept>>

RestartUploads ==
    /\ count["restarts"] < MaxRestarts
    /\ count' = [count EXCEPT !["restarts"] = @ + 1, !["sweeps"] = 0, !["fetches"] = 0]
    /\ cache' = {} /\ dead' = {} /\ loaded' = FALSE
    /\ failed' = [a \in Attachments |-> 0]
    /\ sweep' = Idle /\ warm' = Idle /\ convert' = Idle /\ jobs' = {}
    /\ swept' = [a \in Attachments |-> 0]
    /\ UNCHANGED <<saved, tombstones, aged, shown, filled>>

UploadsNext ==
    \/ StartSweep \/ EndSweep \/ StartFetch \/ EndWarm \/ EndFetch
    \/ \E a \in Attachments : StartSwept(a) \/ StartWarmed(a) \/ StartConverted(a) \/ AgesOut(a)
    \/ \E j \in jobs :
         DownloadEnds(j) \/ DownloadFails(j) \/ DropOversized(j) \/ Uploaded(j) \/ UploadFails(j)
    \/ RestartUploads

UploadsSpec == UploadsInit /\ [][UploadsNext]_uploadsVars

-----------------------------------------------------------------------------
Job == [att : Attachments, by : {"sweep", "warm", "convert"}, stage : {"download", "read"}]

UploadsTypeOK ==
    /\ cache \subseteq Attachments /\ saved \subseteq Attachments /\ dead \subseteq Attachments
    /\ tombstones \subseteq Attachments /\ aged \subseteq Attachments
    /\ failed \in [Attachments -> Nat] /\ swept \in [Attachments -> Nat]
    /\ loaded \in BOOLEAN /\ filled \in BOOLEAN
    /\ \A s \in {sweep, warm, convert} : s = Idle \/ s \subseteq Attachments
    /\ jobs \subseteq Job
    /\ shown \in [Attachments -> {"none", "media", "notice"}]

(* The attachments the fan-outs hold in memory fit the byte budget, or one *)
(* of them is there alone: also when a size is unknown or wrapped          *)
(* (attachmentByteSem, clampAttachmentWeight).                             *)
BytesBounded ==
    \/ Cardinality(Units([j \in FanOut |-> Resident(j)])) <= Budget
    \/ Cardinality(FanOut) <= 1

(* However often the sweeps run, they download an attachment that keeps    *)
(* failing at most MaxRetries times in a session, downloads of the portal  *)
(* event loop notwithstanding: the entry of an exhausted attachment stays. *)
(* Warm-ups and conversions do not look at it, and are not bounded.        *)
(* One that turns out too large only after its download is not a failure   *)
(* to the code, and every sweep before the backfill downloads it again.    *)
SweepsGiveUp == \A a \in Attachments : RealSize[a] <= Limit => swept[a] <= MaxRetries
=============================================================================
