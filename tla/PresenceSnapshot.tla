--------------------------- MODULE PresenceSnapshot ---------------------------
(***************************************************************************)
(* The presence snapshot as a value, and every operation of the tracker    *)
(* (backend/internal/callstate/callstate.go) as the snapshot it computes.  *)
(* CallState and CallRing put these operations into the handlers.          *)
(***************************************************************************)
EXTENDS FiniteSets

CONSTANTS
    Users,          \* signed-in teammates
    Rooms,          \* LiveKit room names
    NamedRooms      \* the rooms with a row in the rooms table

\* DisplayName matters only as empty (ad-hoc) or not (named, Slack).
RoomPresence == [named : BOOLEAN, users : SUBSET Users]
Snapshots == UNION {[R -> RoomPresence] : R \in SUBSET Rooms}

NoRooms == [r \in {} |-> [named |-> FALSE, users |-> {}]]

\* The members of r in s, empty when s has no entry for r.
Members(s, r) == IF r \in DOMAIN s THEN s[r].users ELSE {}

NamedIn(s, r) == r \in DOMAIN s /\ s[r].named

\* s with the entry of r replaced or added.
Put(s, r, presence) ==
    [q \in DOMAIN s \cup {r} |-> IF q = r THEN presence ELSE s[q]]

\* s without the entry of r.
Drop(s, r) == [q \in DOMAIN s \ {r} |-> s[q]]

\* resolveDisplayName: whether the database names r.  The query may fail.
Resolved(r, dbUp) == dbUp /\ r \in NamedRooms

--------------------------------------------------------------------------------
(* Tracker operations, as the snapshot each of them would write. *)

AddCallRoom(s, r, us) ==
    Put(s, r, [named |-> FALSE, users |-> Members(s, r) \cup us])

\* displayName is only applied when the room is created.
AddUserToRoom(s, r, u, named) ==
    Put(s, r, [named |-> IF r \in DOMAIN s THEN s[r].named ELSE named,
               users |-> Members(s, r) \cup {u}])

MaterializeRoom(s, r, us, dbUp) ==
    Put(s, r, [named |-> NamedIn(s, r) \/ Resolved(r, dbUp),
               users |-> Members(s, r) \cup us])

\* RemoveUser takes the first room Go's map iteration finds u in: any of these.
RoomsOf(s, u) == {r \in DOMAIN s : u \in s[r].users}

RemoveFrom(s, r, u) ==
    IF s[r].users = {u}
      THEN Drop(s, r)
      ELSE Put(s, r, [s[r] EXCEPT !.users = @ \ {u}])

--------------------------------------------------------------------------------
(* ReconcileOnce: what the locked part of a sweep writes.  listed is the     *)
(* membership LiveKit reported outside the lock, errored the rooms whose     *)
(* ListParticipants failed.                                                  *)

\* The rooms the sweep found members in.
LiveRooms(listed) == {r \in Rooms : listed[r] # {}}

\* Mutant of Reconciled: a room that could not be listed is dropped as absent.
ReconciledDroppingErrored(s, listed, errored, dbUp) ==
    [r \in DOMAIN s \cap LiveRooms(listed) |->
       [named |-> s[r].named \/ Resolved(r, dbUp), users |-> listed[r]]]

\* Mutant of Reconciled: rooms LiveKit no longer lists are kept.
ReconciledKeepingAbsent(s, listed, errored, dbUp) ==
    [r \in DOMAIN s |->
       IF r \in LiveRooms(listed)
         THEN [named |-> s[r].named \/ Resolved(r, dbUp), users |-> listed[r]]
         ELSE s[r]]

\* Validated rooms refresh from LiveKit, errored ones stay, the rest go.
Reconciled(s, listed, errored, dbUp) ==
    [r \in DOMAIN s \cap (LiveRooms(listed) \cup errored) |->
       IF r \in LiveRooms(listed)
         THEN [named |-> s[r].named \/ Resolved(r, dbUp), users |-> listed[r]]
         ELSE s[r]]

\* Candidate rooms: LiveKit lists them, the snapshot does not.
Unvalidated(s, listed) == LiveRooms(listed) \ DOMAIN s
================================================================================
