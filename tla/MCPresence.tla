----------------------------- MODULE MCPresence -----------------------------
(***************************************************************************)
(* The keys that make presence readable (PresenceKeys) and the titles that *)
(* show it (Presence), side by side: a behaviour is one of the two, and    *)
(* the half that is not chosen stays in its initial state.                 *)
(***************************************************************************)
EXTENDS PresenceKeys, Sequences

CONSTANTS d1, a1, j1, j2

VARIABLES half
VARIABLES peer, room, linked, channel, cooling, seen, job, mode, fresh, title, custom, queue,
          changes, slips

Titles == INSTANCE Presence WITH
    Direct <- d1, Aliases <- {a1}, Jobs <- {j1, j2}, PrivateMeta <- TRUE,
    MaxChanges <- 2, MaxFaults <- 1, faults <- slips

titleVars == <<peer, room, linked, channel, cooling, seen, job, mode, fresh, title, custom,
               queue, changes, slips>>

AnyInit ==
    /\ half \in {"titles", "keys"} /\ Titles!Init /\ KeysInit
    /\ half = "titles" => zone = 0
    /\ half = "keys" => room

AnyNext ==
    \/ half = "titles" /\ Titles!Next /\ UNCHANGED <<half, keysVars>>
    \/ half = "keys" /\ KeysNext /\ UNCHANGED <<half, titleVars>>

AnySpec == AnyInit /\ [][AnyNext]_<<half, titleVars, keysVars>> /\ Titles!Fairness

-----------------------------------------------------------------------------
(* See Presence: a moon that is not confirmed goes away. *)
MoonHeals == Titles!MoonHeals

(* See Presence: a handle newly linked to a room counts as unheard. *)
LinkedIsHeard == Titles!LinkedIsHeard
=============================================================================
