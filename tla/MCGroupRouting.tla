--------------------------- MODULE MCGroupRouting ---------------------------
(***************************************************************************)
(* An iMessage group x whose members' clients use two UUIDs, and an SMS    *)
(* group y keyed under a UUID by an older version, among three people.     *)
(***************************************************************************)
EXTENDS GroupRouting
CONSTANTS x1, y1, p1, p2, p3, u1, u2, u3
MCGuidsOf == [g \in Groups |-> IF g = x1 THEN {u1, u2} ELSE {u3}]
MCRosters == {{p1, p2, p3}, {p1, p2}, {p1, p3}}
MCRoster == [g \in Groups |-> IF g = x1 THEN {p1, p2, p3} ELSE {p1, p2}]
=============================================================================
