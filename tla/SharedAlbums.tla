---------------------------- MODULE SharedAlbums ----------------------------
(***************************************************************************)
(* Shared photo albums in the Go bridge (sharedstreams.go): the watcher    *)
(* that tells the user of new photos, and the dialog that lists an album,  *)
(* takes numbers from it and downloads what they stand for into a room of  *)
(* the album.  Other subscribers change the albums at any time; the dialog *)
(* is the command state of one user; each download is a goroutine.         *)
(*                                                                         *)
(* Photos are numbered by their date, a larger number being newer, and     *)
(* never come back once removed.  What the media pipeline does to a photo  *)
(* is left out but for its failure.                                        *)
(***************************************************************************)
EXTENDS Integers, Sequences, SequencesExt, FiniteSets

CONSTANTS Albums,
          Photos,     \* dates of the photos, naturals
          ShownMax,   \* photos a list shows (50 in the code)
          MaxDownloads, \* downloads ever started
          MaxAlbumFaults \* failed calls and crashes

ASSUME AlbumsAssumption == Photos \subseteq Nat /\ {ShownMax, MaxDownloads, MaxAlbumFaults} \subseteq Nat

VARIABLES album,     \* the albums at Apple: their photos
          used,      \* photos ever added
          changed,   \* albums the next GetChanges names
          assets,    \* sharedStreamAssetCache
          based,     \* albums with a baseline in it
          poll,      \* what pollSharedStreams does
          dialog,    \* the stored command state
          screen,    \* the list the user has in front of them (history)
          rooms,     \* sharedAlbumRooms
          live,      \* rooms that exist in Matrix, with the album each was made for
          downloads, \* running downloads
          files,     \* <<room, photo>> delivered
          picked,    \* <<album, photo>> the user chose from the screen (history)
          untold,    \* <<album, photo>> added and not yet told (history)
          started, albumFaults                 \* bounds
albumsVars == <<album, used, changed, assets, based, poll, dialog, screen, rooms, live, downloads, files,
          picked, untold, started, albumFaults>>

None == [step |-> "none"]
NoRoom == 0
Rooms == 1..MaxDownloads

AlbumsTypeOK ==
  /\ album \in [Albums -> SUBSET Photos] /\ assets \in [Albums -> SUBSET Photos]
  /\ changed \subseteq Albums /\ based \subseteq Albums
  /\ rooms \in [Albums -> Rooms \cup {NoRoom}]
  /\ \A l \in live : l.room \in Rooms /\ l.album \in Albums

AlbumsInit ==
  /\ album = [a \in Albums |-> {}] /\ used = {} /\ changed = {}
  /\ assets = [a \in Albums |-> {}] /\ based = {} /\ poll = [at |-> "idle"]
  /\ dialog = None /\ screen = <<>>
  /\ rooms = [a \in Albums |-> NoRoom] /\ live = {} /\ downloads = {} /\ files = {}
  /\ picked = {} /\ untold = {} /\ started = 0 /\ albumFaults = 0

Apple == <<album, used, changed>>
Watcher == <<assets, based, poll>>
Downloads == <<rooms, live, downloads, files, started>>
AlbumFault == albumFaults < MaxAlbumFaults /\ albumFaults' = albumFaults + 1
Pairs(a, S) == {a} \X S

----------------------------------------------------------------------------
(* Other subscribers *)

Add(a, x) ==
  /\ x \notin used
  /\ used' = used \cup {x} /\ album' = [album EXCEPT ![a] = @ \cup {x}]
  /\ changed' = changed \cup {a} /\ untold' = untold \cup {<<a, x>>}
  /\ UNCHANGED <<Watcher, dialog, screen, Downloads, picked, albumFaults>>

TakeOff(a, x) ==
  /\ x \in album[a]
  /\ album' = [album EXCEPT ![a] = @ \ {x}]
  /\ changed' = changed \cup {a} /\ untold' = untold \ {<<a, x>>}
  /\ UNCHANGED <<used, Watcher, dialog, screen, Downloads, picked, albumFaults>>

----------------------------------------------------------------------------
(* The watcher: startSharedStreamsWatcher, pollSharedStreams *)

\* GetChanges names the changed albums once.
Poll ==
  /\ poll.at = "idle" /\ changed # {}
  /\ poll' = [at |-> "scan", left |-> changed, notify |-> {}]
  /\ changed' = {}
  /\ UNCHANGED <<album, used, assets, based, dialog, screen, Downloads, picked, untold,
                 albumFaults>>

\* (mutant) the summaries are compared by their sizes
NewsBySize(a, current) == a \in based /\ Cardinality(current) > Cardinality(assets[a])

\* recordSharedStreamAssets: news is a photo the recorded summary did not have; the first
\* summary only is the baseline.
News(a, current) == a \in based /\ current \ assets[a] # {}

\* GetAlbumSummary and recordSharedStreamAssets of the next changed album
Summarize(a) ==
  /\ poll.at = "scan" /\ a \in poll.left
  /\ assets' = [assets EXCEPT ![a] = album[a]]
  /\ based' = based \cup {a}
  /\ untold' = IF a \in based THEN untold ELSE untold \ Pairs(a, album[a])
  /\ poll' = [poll EXCEPT !.left = @ \ {a}, !.notify = IF News(a, album[a]) THEN @ \cup {a} ELSE @]
  /\ UNCHANGED <<Apple, dialog, screen, Downloads, picked, albumFaults>>

\* The notice in the management room, when there is news
Tell ==
  /\ poll.at = "scan" /\ poll.left = {}
  /\ untold' = untold \ UNION {Pairs(a, assets[a]) : a \in poll.notify}
  /\ poll' = [at |-> "idle"]
  /\ UNCHANGED <<Apple, assets, based, dialog, screen, Downloads, picked, albumFaults>>

\* A summary, the management room or the notice fails, or the native call panics: the poll
\* ends, and what it recorded so far is not told again.
PollFails ==
  /\ poll.at = "scan" /\ AlbumFault
  /\ untold' = untold \ UNION {Pairs(a, assets[a]) : a \in poll.notify}
  /\ poll' = [at |-> "idle"]
  /\ UNCHANGED <<Apple, assets, based, dialog, screen, Downloads, picked>>

----------------------------------------------------------------------------
(* The dialog: fnSharedAlbums, handleAlbumSelection, handleAssetSelection *)

\* fnSharedAlbums: a number is awaited; an earlier dialog is replaced.
AskAlbum ==
  /\ dialog' = [step |-> "album"] /\ screen' = <<>>
  /\ dialog # dialog'
  /\ UNCHANGED <<Apple, Watcher, Downloads, picked, untold, albumFaults>>

NewestFirst(S) == SetToSortSeq(S, LAMBDA x, y : x > y)
Listing(S) == LET all == NewestFirst(S) IN SubSeq(all, 1, IF Len(all) < ShownMax THEN Len(all) ELSE ShownMax)

\* handleAlbumSelection: the album's photos are fetched, listed and kept with the dialog;
\* an empty album or a failed fetch ends it.
ChooseAlbum(a) ==
  /\ dialog.step = "album"
  /\ \/ /\ album[a] # {}
        /\ dialog' = [step |-> "photos", album |-> a, shown |-> Listing(album[a])]
        /\ screen' = Listing(album[a]) /\ UNCHANGED albumFaults
     \/ album[a] = {} /\ dialog' = None /\ UNCHANGED <<screen, albumFaults>>
     \/ AlbumFault /\ dialog' = None /\ UNCHANGED screen
  /\ UNCHANGED <<Apple, Watcher, Downloads, picked, untold>>

\* parseAssetSelection: numbers of the list, each once
Selection == {s \in SUBSET (1..Len(dialog.shown)) : s # {}}

\* (mutant) the album is listed again when the numbers arrive
ChosenAnew(s) == {Listing(album[dialog.album])[i] : i \in s \cap (1..Len(Listing(album[dialog.album])))}

\* What the numbers stand for: the photos kept with the dialog
Chosen(s) == {dialog.shown[i] : i \in s}

\* getOrCreateAlbumRoom, under the lock of the map
RoomOf(a, r) ==
  \/ rooms[a] # NoRoom /\ r = rooms[a] /\ UNCHANGED <<rooms, live>>
  \/ /\ rooms[a] = NoRoom /\ r = started'
     /\ rooms' = [rooms EXCEPT ![a] = r]
     /\ live' = live \cup {[room |-> r, album |-> a]}

\* handleAssetSelection: the dialog ends first, whatever the input; then the download starts.
ChoosePhotos ==
  /\ dialog.step = "photos" /\ dialog' = None /\ screen' = <<>>
  /\ started < MaxDownloads /\ started' = started + 1
  /\ \/ /\ \E s \in Selection, r \in Rooms :
             /\ RoomOf(dialog.album, r)
             /\ downloads' = downloads \cup {[room |-> r, album |-> dialog.album, left |-> Chosen(s)]}
             /\ picked' = picked \cup Pairs(dialog.album, {screen[i] : i \in s})
        /\ UNCHANGED albumFaults
     \/ AlbumFault /\ UNCHANGED <<rooms, live, downloads, picked>>
  /\ UNCHANGED <<Apple, Watcher, files, untold>>

\* The numbers are wrong: the dialog is over.
WrongNumbers ==
  /\ dialog.step = "photos" /\ dialog' = None /\ screen' = <<>>
  /\ UNCHANGED <<Apple, Watcher, Downloads, picked, untold, albumFaults>>

----------------------------------------------------------------------------
(* downloadSharedAlbumAssets and fnDeleteRoom *)

\* safeSharedAlbumDownload: a photo taken off the album, a panic or a timeout is a failure.
Fetched(j, x) == x \in album[j.album]

\* processSharedAlbumAsset: no conversion is fatal, only an upload that fails.
Unusable == AlbumFault

\* The next photo, its file and its message; a failure is counted and passed over.
Deliver(j, x) ==
  /\ j \in downloads /\ x \in j.left
  /\ downloads' = (downloads \ {j}) \cup (IF j.left = {x} THEN {} ELSE {[j EXCEPT !.left = @ \ {x}]})
  /\ \/ /\ Fetched(j, x) /\ \E l \in live : l.room = j.room
        /\ files' = files \cup {<<j.room, x>>} /\ UNCHANGED albumFaults
     \/ /\ IF Fetched(j, x) /\ (\E l \in live : l.room = j.room) THEN Unusable ELSE UNCHANGED albumFaults
        /\ UNCHANGED files
  /\ UNCHANGED <<Apple, Watcher, dialog, screen, rooms, live, started, picked, untold>>

\* fnDeleteRoom: the room is forgotten before it is deleted.
DeleteRoom(a) ==
  /\ rooms[a] # NoRoom
  /\ rooms' = [rooms EXCEPT ![a] = NoRoom]
  /\ \/ live' = {l \in live : l.room # rooms[a]} /\ UNCHANGED albumFaults
     \/ AlbumFault /\ UNCHANGED live
  /\ UNCHANGED <<Apple, Watcher, dialog, screen, downloads, files, started, picked,
                 untold>>

\* A restart: cache, rooms, dialogs and downloads are in memory only.
RestartAlbums ==
  /\ AlbumFault
  /\ assets' = [a \in Albums |-> {}] /\ based' = {} /\ poll' = [at |-> "idle"]
  /\ untold' = untold \ UNION {Pairs(a, assets[a]) : a \in Albums}
  /\ dialog' = None /\ screen' = <<>> /\ rooms' = [a \in Albums |-> NoRoom] /\ downloads' = {}
  /\ UNCHANGED <<Apple, live, files, started, picked>>

AlbumsNext ==
  \/ \E a \in Albums, x \in Photos : Add(a, x) \/ TakeOff(a, x)
  \/ Poll \/ (\E a \in Albums : Summarize(a)) \/ Tell \/ PollFails
  \/ AskAlbum \/ (\E a \in Albums : ChooseAlbum(a)) \/ ChoosePhotos \/ WrongNumbers
  \/ \E j \in downloads, x \in Photos : Deliver(j, x)
  \/ \E a \in Albums : DeleteRoom(a)
  \/ RestartAlbums

AlbumsSpec == AlbumsInit /\ [][AlbumsNext]_albumsVars

----------------------------------------------------------------------------
(* Properties *)

\* Between polls no photo the recorded summary has, of an album with a baseline, is still
\* to be told: it was in a notice, in the baseline, or in a poll that failed or was cut
\* short, whose photos the code records before it tells them (recordSharedStreamAssets).
NewsTold ==
  poll.at = "idle" => \A a \in based : \A x \in assets[a] : <<a, x>> \notin untold

\* A room holds only photos the user picked by their numbers on the list shown, from the
\* album the room was made for, whatever changed since (handleAssetSelection).
FilesPicked ==
  \A f \in files : \A l \in live : l.room = f[1] => <<l.album, f[2]>> \in picked

\* The user is told of what is new, and given what they picked.
AlbumsRight == NewsTold /\ FilesPicked
=============================================================================
