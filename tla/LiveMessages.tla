---------------------------- MODULE LiveMessages ----------------------------
(***************************************************************************)
(* What the bridge decides about a message that APNs delivers              *)
(* (src/pkg/connector/client.go, handleMessage), as a function of the      *)
(* store, of the list of portals just deleted, of the gate and of the      *)
(* rooms.  BackfillGate and ChatLifecycle take the steps around it.        *)
(***************************************************************************)
EXTENDS CloudStore

\* An entry of recentlyDeletedPortals: who put it there ("no" for none, "user",
\* or "tomb" for an isTombstone entry) and deletedAt.
Entry == [by: {"no", "user", "tomb"}, at: Nat]
NoEntry == [by |-> "no", at |-> 0]

\* A replay: not newer than what was deleted.
NotNewer(chat, msg, m, p) ==
  /\ FullyDeleted(chat, p) /\ DeletedTail(chat, msg, p) > 0
  /\ Stamp[m] <= DeletedTail(chat, msg, p)

\* Dropped at once: the portal was deleted in this session, its room is gone,
\* and the message is from before.
Stale(chat, msg, entry, m, p) ==
  \/ NotNewer(chat, msg, m, p)
  \/ ~FullyDeleted(chat, p) /\ Stamp[m] < entry.at

\* do: the message is dropped, held until the sync is done, or shown; create:
\* it may make a room; revive: the shell of its chat is undeleted first, and
\* what is buffered or held is dispatched.
Verdict(chat, msg, entry, m, p, gate, missing) ==
  LET listed  == entry.by # "no"
      allowed == listed /\ gate /\ missing /\ ~Stale(chat, msg, entry, m, p)
      deleted == listed /\ ~allowed
      create  == gate /\ (missing \/ ~listed)
      answer(what, revived) == [do |-> what, create |-> create, revive |-> revived]
  IN  CASE listed /\ gate /\ missing /\ ~allowed -> answer("drop", FALSE)
        [] Known(msg, m) /\ (deleted \/ (create /\ missing)) ->
             answer("drop", allowed /\ FullyDeleted(chat, p))
        [] create /\ missing /\ ~deleted /\ NotNewer(chat, msg, m, p) -> answer("drop", FALSE)
        [] ~create /\ missing -> answer("hold", FALSE)
        [] OTHER -> answer("show", create /\ missing /\ FullyDeleted(chat, p))
=============================================================================
