------------------------------- MODULE CallState -------------------------------
(***************************************************************************)
(* The presence tracker of the backend (backend/internal/callstate) with   *)
(* everything that reads or writes it: the WebSocket and HTTP handlers, the*)
(* desktop clients that drive them, and the reconciliation loop that       *)
(* compares the snapshot with LiveKit.                                     *)
(*                                                                         *)
(* One step of a handler is one Tracker method, because the tracker's      *)
(* mutex makes each of them atomic and nothing holds the mutex between two *)
(* of them.  A handler that calls several is several actions.              *)
(***************************************************************************)
EXTENDS Naturals, Sequences, PresenceSnapshot

CONSTANTS
    None,           \* no room, no pending list
    MaxOps,         \* bound on client-initiated operations
    MaxFaults,      \* bound on failures: LiveKit, Redis, database, crashes
    MaxEvents,      \* bound on operations and failures together
    MaxInbox        \* bound on unprocessed messages of one connection

ASSUME ConstantsAssumption ==
    /\ NamedRooms \subseteq Rooms
    /\ None \notin Rooms
    /\ {MaxOps, MaxFaults, MaxEvents, MaxInbox} \subseteq Nat

VARIABLES
    snap,       \* presence:snapshot, a map from room name to RoomPresence
    missed,     \* ticks in a row whose sweep failed to write presence:snapshot
    pending,    \* presence:pending:<room>, the members stashed by a sweep
    sweep,      \* the reconciliation goroutine
    inbox,      \* messages each client has sent and its read loop not yet read
    handler,    \* the handler each connection's read loop is in
    joining,    \* POST /call/join requests between their two tracker calls
    leaving,    \* POST /room/{id}/leave requests not yet handled
    checks,     \* presence_check messages on their way to a client
    callEnds,   \* call_end messages on their way to a client
    app,        \* the room of each client's callTokens
    peer,       \* callTokens.participant
    live,       \* LiveKit's participants of each room
    ever,       \* history: the users a handler ever admitted to a room
    ops, faults

serverVars == <<snap, missed, pending, handler, joining>>
clientVars == <<app, peer>>
wireVars   == <<inbox, leaving, checks, callEnds>>
bounds     == <<ops, faults>>
vars == <<snap, missed, pending, sweep, inbox, handler, joining, leaving,
          checks, callEnds, app, peer, live, ever, ops, faults>>

--------------------------------------------------------------------------------
(* Data. *)

\* What a client sends over its WebSocket.  about is history: the room of the
\* session that a call_end closes.
Message ==
    [type : {"call_end"}, to : Users, about : Rooms]
      \cup [type : {"presence_ack"}, room : Rooms, inCall : BOOLEAN]

\* Where a read loop stands inside a handler that makes several tracker calls.
Idle == [at |-> "idle", room |-> None, users |-> {}]
HandlerState ==
    [at : {"idle", "addRoom", "collapse", "materialize", "clear"},
     room : Rooms \cup {None}, users : SUBSET Users]

NoSweep == [at |-> "idle", todo |-> {}, errored |-> {},
            listed |-> [r \in Rooms |-> {}],
            stayed |-> [r \in Rooms |-> {}], seen |-> [r \in Rooms |-> {}]]

\* snapshotTTL (30s) outlives two missed ticks of reconcileInterval (10s), not
\* always a third.
TtlTicks == 2

\* A step meets at most one failure, drawn from the budget of failures.
Meets(f) ==
    \/ f = "ok" /\ UNCHANGED faults
    \/ f # "ok" /\ faults < MaxFaults /\ ops + faults < MaxEvents /\ faults' = faults + 1

\* A tracker method ends with writeSnapshot, unless it found nothing to change
\* or Redis refused the read or the write.
Write(s, f) ==
    IF s = snap \/ f \in {"read", "write"}
      THEN UNCHANGED <<snap, missed>>
      ELSE snap' = s /\ missed' = 0

--------------------------------------------------------------------------------
(* The clients.  An operation that reaches the server in one tracker call is  *)
(* one action: the request, the handler and the tokens it answers with.       *)

ClientOp == ops < MaxOps /\ ops + faults < MaxEvents /\ ops' = ops + 1

ReadLoopFree(u) == handler[u] = Idle /\ inbox[u] = <<>>

Admit(us, r) == ever' = [ever EXCEPT ![r] = @ \cup us]

\* u's client gets tokens for r and stores them in callTokens.
Enter(u, r, participant) ==
    /\ app' = [app EXCEPT ![u] = r]
    /\ peer' = [peer EXCEPT ![u] = participant]
    /\ Admit({u}, r)

\* acceptCall: both parties are sent tokens for a room with a fresh uuid, and
\* only then does the handler call AddCallRoom.  The callee's banner shows only
\* while it has no callTokens; the caller may have joined a room meanwhile.
AcceptCall(caller, callee, r) ==
    /\ ClientOp
    /\ caller # callee /\ app[callee] = None /\ ReadLoopFree(callee)
    /\ r \notin NamedRooms /\ ever[r] = {}
    /\ app' = [u \in Users |-> IF u \in {caller, callee} THEN r ELSE app[u]]
    /\ peer' = [peer EXCEPT ![caller] = callee, ![callee] = caller]
    /\ Admit({caller, callee}, r)
    /\ handler' = [handler EXCEPT ![callee] =
                     [at |-> "addRoom", room |-> r, users |-> {caller, callee}]]
    /\ UNCHANGED <<snap, missed, pending, sweep, joining, wireVars, live, faults>>

AcceptCallAddRoom(callee) ==
    /\ handler[callee].at = "addRoom"
    /\ \E f \in {"ok", "write"} :
         Meets(f) /\ Write(AddCallRoom(snap, handler[callee].room, handler[callee].users), f)
    /\ handler' = [handler EXCEPT ![callee] = Idle]
    /\ UNCHANGED <<pending, sweep, joining, wireVars, clientVars, live, ever, ops>>

\* GET /room/{id} (and the Slack session's tokens): a named room.
JoinRoom(u, r) ==
    /\ ClientOp
    /\ app[u] = None /\ r \in NamedRooms
    /\ \E f \in {"ok", "write"} :
         Meets(f) /\ Write(AddUserToRoom(snap, r, u, TRUE), f)
    /\ Enter(u, r, u)
    /\ UNCHANGED <<pending, sweep, handler, joining, wireVars, live>>

\* POST /call/join/{target}: GetUserRoom, and later AddUserToRoom with an empty
\* display name.  Only then are the tokens generated, which may fail.
JoinCallRead(u, target) ==
    /\ ClientOp
    /\ u # target /\ app[u] = None /\ joining[u].room = None
    /\ \E r \in RoomsOf(snap, target) :
         joining' = [joining EXCEPT ![u] = [room |-> r, target |-> target]]
    /\ UNCHANGED <<snap, missed, pending, sweep, handler, wireVars, clientVars,
                   live, ever, faults>>

JoinCallAdd(u) ==
    /\ joining[u].room # None
    /\ \E f \in {"ok", "write", "tokens"} :
         /\ Meets(f)
         /\ Write(AddUserToRoom(snap, joining[u].room, u, FALSE), f)
         /\ IF f = "tokens"
              THEN Admit({u}, joining[u].room) /\ UNCHANGED clientVars
              ELSE Enter(u, joining[u].room, joining[u].target)
    /\ joining' = [joining EXCEPT ![u] = [room |-> None, target |-> u]]
    /\ UNCHANGED <<pending, sweep, handler, wireVars, live, ops>>

\* Mutant of CallEndMessage: the room's name where the peer's id belongs.
CallEndToRoom(u) == [type |-> "call_end", to |-> app[u], about |-> app[u]]

CallEndMessage(u) == [type |-> "call_end", to |-> peer[u], about |-> app[u]]

\* useEndCall: a leave request for a named room (fire and forget), a call_end
\* over the WebSocket, and callTokens cleared at once.
EndCall(u) ==
    /\ ClientOp
    /\ app[u] # None /\ Len(inbox[u]) < MaxInbox
    /\ leaving' = IF app[u] \in NamedRooms THEN leaving \cup {<<u, app[u]>>} ELSE leaving
    /\ inbox' = [inbox EXCEPT ![u] = Append(@, CallEndMessage(u))]
    /\ app' = [app EXCEPT ![u] = None]
    /\ UNCHANGED <<serverVars, sweep, checks, callEnds, peer, live, ever, faults>>

\* A client answers a validation ping.  It knows the room of a named call only:
\* in an ad-hoc call it says yes for whatever room it is asked about.
AnswerCheck(u, r) ==
    /\ <<u, r>> \in checks /\ Len(inbox[u]) < MaxInbox
    /\ checks' = checks \ {<<u, r>>}
    /\ inbox' = [inbox EXCEPT ![u] =
                   Append(@, [type |-> "presence_ack", room |-> r,
                              inCall |-> IF app[u] \in NamedRooms
                                           THEN app[u] = r ELSE app[u] # None])]
    /\ UNCHANGED <<serverVars, sweep, leaving, callEnds, clientVars, live, ever, bounds>>

\* call_end clears callTokens, whichever call they belong to.
ReceiveCallEnd(end) ==
    /\ end \in callEnds
    /\ callEnds' = callEnds \ {end}
    /\ app' = [app EXCEPT ![end.to] = None]
    /\ UNCHANGED <<serverVars, sweep, inbox, leaving, checks, peer, live, ever, bounds>>

\* The desktop app dies without a call_end.
AppCrash(u) ==
    /\ app[u] # None /\ Meets("crash")
    /\ app' = [app EXCEPT ![u] = None]
    /\ UNCHANGED <<serverVars, sweep, wireVars, peer, live, ever, ops>>

--------------------------------------------------------------------------------
(* LiveKit follows the clients: the core process connects to the room of its  *)
(* tokens after it has left the previous one.                                 *)

Connect(u) ==
    /\ app[u] # None /\ \A r \in Rooms : u \notin live[r]
    /\ live' = [live EXCEPT ![app[u]] = @ \cup {u}]
    /\ sweep' = IF sweep.at = "idle" THEN sweep
                ELSE [sweep EXCEPT !.seen[app[u]] = @ \cup {u}]
    /\ UNCHANGED <<serverVars, wireVars, clientVars, ever, bounds>>

Disconnect(u, r) ==
    /\ u \in live[r] /\ app[u] # r
    /\ live' = [live EXCEPT ![r] = @ \ {u}]
    /\ sweep' = [sweep EXCEPT !.stayed[r] = @ \ {u}]
    /\ UNCHANGED <<serverVars, wireVars, clientVars, ever, bounds>>

--------------------------------------------------------------------------------
(* The WebSocket and HTTP handlers. *)

Received(u) == inbox' = [inbox EXCEPT ![u] = Tail(@)]

NextMessage(u, type) == handler[u] = Idle /\ inbox[u] # <<>> /\ Head(inbox[u]).type = type

\* A call_end from u to v: about is the session the sender closed.
Notify(v, about) == callEnds' = callEnds \cup {[to |-> v, about |-> about]}

\* endCall, first RemoveUser: u is in no room of the snapshot (or Redis failed
\* the read), so the call was only ringing and the message's peer is notified.
EndCallNoRoom(u) ==
    /\ NextMessage(u, "call_end")
    /\ \/ RoomsOf(snap, u) = {} /\ UNCHANGED faults
       \/ Meets("read")
    /\ Received(u)
    /\ Notify(Head(inbox[u]).to, Head(inbox[u]).about)
    /\ UNCHANGED <<serverVars, sweep, leaving, checks, clientVars, live, ever, ops>>

\* endCall, first RemoveUser: u leaves one of its rooms.  An ad-hoc room with
\* one member left collapses in a second call; any other room says nothing.
EndCallInRoom(u) ==
    /\ NextMessage(u, "call_end")
    /\ Received(u)
    /\ \E r \in RoomsOf(snap, u), f \in {"ok", "write"} :
         LET remaining == snap[r].users \ {u} IN
         /\ Meets(f) /\ Write(RemoveFrom(snap, r, u), f)
         /\ handler' = [handler EXCEPT ![u] =
              IF ~snap[r].named /\ Cardinality(remaining) = 1
                THEN [at |-> "collapse", room |-> Head(inbox[u]).about, users |-> remaining]
                ELSE Idle]
    /\ UNCHANGED <<pending, joining, sweep, leaving, checks, callEnds, clientVars,
                   live, ever, ops>>

\* endCall, second RemoveUser: the remaining peer, from any room it is in.
EndCallCollapse(u) ==
    /\ handler[u].at = "collapse"
    /\ \E p \in handler[u].users, f \in {"ok", "write"} :
         /\ Meets(f)
         /\ Notify(p, handler[u].room)
         /\ IF RoomsOf(snap, p) = {}
              THEN UNCHANGED <<snap, missed>>
              ELSE \E r \in RoomsOf(snap, p) : Write(RemoveFrom(snap, r, p), f)
    /\ handler' = [handler EXCEPT ![u] = Idle]
    /\ UNCHANGED <<pending, joining, sweep, inbox, leaving, checks, clientVars,
                   live, ever, ops>>

\* LeaveRoom takes the room from the URL and removes the user from whatever
\* room it is in.
LeaveRoom(u, r) ==
    /\ <<u, r>> \in leaving
    /\ leaving' = leaving \ {<<u, r>>}
    /\ \E f \in {"ok", "write"} :
         /\ Meets(f)
         /\ IF RoomsOf(snap, u) = {}
              THEN UNCHANGED <<snap, missed>>
              ELSE \E q \in RoomsOf(snap, u) : Write(RemoveFrom(snap, q, u), f)
    /\ UNCHANGED <<pending, handler, joining, sweep, inbox, checks, callEnds,
                   clientVars, live, ever, ops>>

\* handlePresenceAck with in_call=false leaves the pending guard to expire.
AckNotInCall(u) ==
    /\ NextMessage(u, "presence_ack") /\ ~Head(inbox[u]).inCall
    /\ Received(u)
    /\ UNCHANGED <<serverVars, sweep, leaving, checks, callEnds, clientVars, live, ever, bounds>>

\* handlePresenceAck, GetPending: the acking user joins the stashed members,
\* and is alone when the pending record is gone.  A Redis error drops the ack.
AckGetPending(u) ==
    /\ NextMessage(u, "presence_ack") /\ Head(inbox[u]).inCall
    /\ Received(u)
    /\ LET r == Head(inbox[u]).room
           stashed == IF pending[r] = None THEN {} ELSE pending[r]
       IN  \/ /\ handler' = [handler EXCEPT ![u] =
                            [at |-> "materialize", room |-> r, users |-> stashed \cup {u}]]
              /\ UNCHANGED faults
           \/ Meets("read") /\ UNCHANGED handler
    /\ UNCHANGED <<snap, missed, pending, joining, sweep, leaving, checks, callEnds,
                   clientVars, live, ever, ops>>

\* A failed MaterializeRoom returns before ClearPending.
AckMaterialize(u) ==
    /\ handler[u].at = "materialize"
    /\ \E f \in {"ok", "db", "write"} :
         /\ Meets(f)
         /\ Write(MaterializeRoom(snap, handler[u].room, handler[u].users, f # "db"), f)
         /\ handler' = [handler EXCEPT ![u] =
                          IF f = "write" THEN Idle ELSE [@ EXCEPT !.at = "clear"]]
    /\ UNCHANGED <<pending, joining, sweep, wireVars, clientVars, live, ever, ops>>

AckClearPending(u) ==
    /\ handler[u].at = "clear"
    /\ \/ pending' = [pending EXCEPT ![handler[u].room] = None] /\ UNCHANGED faults
       \/ Meets("write") /\ UNCHANGED pending
    /\ handler' = [handler EXCEPT ![u] = Idle]
    /\ UNCHANGED <<snap, missed, joining, sweep, wireVars, clientVars, live, ever, ops>>

--------------------------------------------------------------------------------
(* ReconcileOnce.  stayed and seen are history: who was in a room throughout  *)
(* the sweep, and who was in it at some moment of the sweep.                  *)

MissTick == missed' = IF missed < TtlTicks THEN missed + 1 ELSE missed

\* The ticker fires; ListRooms fails and the tick is skipped.
ListRoomsFails ==
    /\ sweep.at = "idle" /\ Meets("livekit")
    /\ MissTick
    /\ UNCHANGED <<snap, pending, handler, joining, sweep, wireVars, clientVars,
                   live, ever, ops>>

\* The ticker fires; LiveKit answers with the rooms that exist.
ListRooms ==
    /\ sweep.at = "idle"
    /\ sweep' = [NoSweep EXCEPT !.at = "listing",
                                !.todo = {r \in Rooms : live[r] # {}},
                                !.stayed = live, !.seen = live]
    /\ UNCHANGED <<serverVars, wireVars, clientVars, live, ever, bounds>>

\* ListParticipants of one room.  Not found is an empty room, any other error
\* keeps the room's snapshot entry.
ListRoomMembers(r) ==
    /\ sweep.at = "listing" /\ r \in sweep.todo
    /\ \E f \in {"ok", "livekit"} :
         /\ Meets(f)
         /\ sweep' = IF f = "ok"
                       THEN [sweep EXCEPT !.todo = @ \ {r}, !.listed[r] = live[r]]
                       ELSE [sweep EXCEPT !.todo = @ \ {r}, !.errored = @ \cup {r}]
    /\ UNCHANGED <<serverVars, wireVars, clientVars, live, ever, ops>>

\* Candidates that win the SETNX: their members are asked to confirm.
Candidates == {r \in Unvalidated(snap, sweep.listed) : pending[r] = None}

\* Mutant of Pings: every teammate is asked, in the call or not.
PingsEveryone(asked) == Users \X asked

\* The members listed in the candidate rooms are asked whether they are in them.
Pings(asked) == {c \in Users \X asked : c[1] \in sweep.listed[c[2]]}

\* The locked read-modify-write, with the pings it sends inside the lock.
Apply ==
    /\ sweep.at = "listing" /\ sweep.todo = {}
    /\ \E f \in {"ok", "db", "read", "pending", "write"} :
         LET asked == IF f \in {"read", "pending"} THEN {} ELSE Candidates IN
         /\ Meets(f)
         /\ pending' = [r \in Rooms |-> IF r \in asked THEN sweep.listed[r] ELSE pending[r]]
         /\ checks' = checks \cup Pings(asked)
         /\ IF f \in {"read", "write"}
              THEN UNCHANGED snap /\ MissTick
              ELSE snap' = Reconciled(snap, sweep.listed, sweep.errored, f # "db") /\ missed' = 0
    /\ sweep' = NoSweep
    /\ UNCHANGED <<handler, joining, inbox, leaving, callEnds, clientVars, live, ever, ops>>

--------------------------------------------------------------------------------
(* Redis expiry, lost pub/sub messages and a restart of the backend. *)

PendingExpires(r) ==
    /\ pending[r] # None
    /\ pending' = [pending EXCEPT ![r] = None]
    /\ UNCHANGED <<snap, missed, handler, joining, sweep, wireVars, clientVars,
                   live, ever, bounds>>

\* The snapshot's TTL is three ticks: it may run out before a third sweep writes.
SnapshotExpires ==
    /\ missed = TtlTicks /\ DOMAIN snap # {}
    /\ snap' = NoRooms
    /\ UNCHANGED <<missed, pending, handler, joining, sweep, wireVars, clientVars,
                   live, ever, bounds>>

\* A publish to a channel nobody is subscribed to at that moment.
LoseMessage ==
    /\ Meets("lost")
    /\ \/ \E c \in checks : checks' = checks \ {c} /\ UNCHANGED callEnds
       \/ \E e \in callEnds : callEnds' = callEnds \ {e} /\ UNCHANGED checks
    /\ UNCHANGED <<serverVars, sweep, inbox, leaving, clientVars, live, ever, ops>>

\* Redis and LiveKit keep their state; everything in flight in the process goes.
Restart ==
    /\ Meets("restart")
    /\ handler' = [u \in Users |-> Idle]
    /\ joining' = [u \in Users |-> [room |-> None, target |-> u]]
    /\ inbox' = [u \in Users |-> <<>>]
    /\ leaving' = {} /\ checks' = {} /\ callEnds' = {}
    /\ sweep' = NoSweep
    /\ UNCHANGED <<snap, missed, pending, clientVars, live, ever, ops>>

--------------------------------------------------------------------------------
Init ==
    /\ snap = NoRooms /\ missed = 0
    /\ pending = [r \in Rooms |-> None]
    /\ sweep = NoSweep
    /\ inbox = [u \in Users |-> <<>>]
    /\ handler = [u \in Users |-> Idle]
    /\ joining = [u \in Users |-> [room |-> None, target |-> u]]
    /\ leaving = {} /\ checks = {} /\ callEnds = {}
    /\ app = [u \in Users |-> None] /\ peer = [u \in Users |-> u]
    /\ live = [r \in Rooms |-> {}] /\ ever = [r \in Rooms |-> {}]
    /\ ops = 0 /\ faults = 0

ClientNext(u) ==
    \/ \E v \in Users, r \in Rooms : AcceptCall(v, u, r)
    \/ \E r \in Rooms : JoinRoom(u, r)
    \/ \E v \in Users : JoinCallRead(u, v)
    \/ EndCall(u)
    \/ \E r \in Rooms : AnswerCheck(u, r)
    \/ AppCrash(u)
    \/ Connect(u)
    \/ \E r \in Rooms : Disconnect(u, r)

HandlerNext(u) ==
    \/ AcceptCallAddRoom(u) \/ JoinCallAdd(u)
    \/ EndCallNoRoom(u) \/ EndCallInRoom(u) \/ EndCallCollapse(u)
    \/ \E r \in Rooms : LeaveRoom(u, r)
    \/ AckNotInCall(u) \/ AckGetPending(u) \/ AckMaterialize(u) \/ AckClearPending(u)

SweepNext ==
    \/ ListRoomsFails \/ ListRooms \/ Apply
    \/ \E r \in Rooms : ListRoomMembers(r)

EnvironmentNext ==
    \/ \E r \in Rooms : PendingExpires(r)
    \/ SnapshotExpires \/ LoseMessage \/ Restart
    \/ \E end \in callEnds : ReceiveCallEnd(end)

Next ==
    \/ \E u \in Users : ClientNext(u) \/ HandlerNext(u)
    \/ SweepNext
    \/ EnvironmentNext

Spec == Init /\ [][Next]_vars

\* What the deployment guarantees: the ticker fires and its sweep finishes, read
\* loops and HTTP handlers run, keys expire, and each client answers its pings
\* and keeps its LiveKit connection in step with its callTokens.  No client is
\* obliged to start or to end a call, and no failure has to happen.
Fairness ==
    /\ WF_vars(ListRooms) /\ WF_vars(Apply)
    /\ \A r \in Rooms : WF_vars(ListRoomMembers(r)) /\ WF_vars(PendingExpires(r))
    /\ \A u \in Users :
         /\ WF_vars(HandlerNext(u))
         /\ WF_vars(Connect(u))
         /\ \A r \in Rooms : WF_vars(AnswerCheck(u, r)) /\ WF_vars(Disconnect(u, r))
    /\ WF_vars(\E end \in callEnds : ReceiveCallEnd(end))

FairSpec == Spec /\ Fairness

--------------------------------------------------------------------------------
(* Properties. *)

Sweeps ==
    [at : {"idle", "listing"}, todo : SUBSET Rooms, errored : SUBSET Rooms,
     listed : [Rooms -> SUBSET Users],
     stayed : [Rooms -> SUBSET Users], seen : [Rooms -> SUBSET Users]]

\* Every variable has the shape the code gives it.
TypeOK ==
    /\ snap \in Snapshots /\ missed \in 0..TtlTicks
    /\ pending \in [Rooms -> (SUBSET Users) \cup {None}]
    /\ sweep \in Sweeps
    /\ inbox \in [Users -> Seq(Message)]
    /\ handler \in [Users -> HandlerState]
    /\ joining \in [Users -> [room : Rooms \cup {None}, target : Users]]
    /\ leaving \subseteq Users \X Rooms /\ checks \subseteq Users \X Rooms
    /\ callEnds \subseteq [to : Users, about : Rooms]
    /\ app \in [Users -> Rooms \cup {None}] /\ peer \in [Users -> Users]
    /\ live \in [Rooms -> SUBSET Users] /\ ever \in [Rooms -> SUBSET Users]
    /\ ops \in Nat /\ faults \in Nat

\* Presence never invents a member: whoever the snapshot shows in a room was
\* once admitted to that room by an accept or a join, whatever stale listing, stale pending record
\* or late acknowledgement put the entry there.
MembersJustified == \A r \in DOMAIN snap : snap[r].users \subseteq ever[r]

\* What a sweep may do to the snapshot, although it lists LiveKit outside the
\* lock: it adds no room, it leaves alone a room it could not list, and in every
\* other room it keeps whoever was connected during the whole sweep and shows
\* nobody who was connected at no moment of it.
SweepIsBounded ==
    [][Apply => \A r \in Rooms :
         /\ r \in DOMAIN snap' => r \in DOMAIN snap
         /\ r \in sweep.errored => Members(snap', r) = Members(snap, r)
         /\ snap' # snap /\ r \in DOMAIN snap \ sweep.errored =>
              /\ sweep.stayed[r] \subseteq Members(snap', r)
              /\ Members(snap', r) \subseteq sweep.seen[r]]_vars

\* Recovery: once the clients stop starting and ending calls, the snapshot comes
\* to show exactly the calls they are in, and stays so, whatever crashes, lost
\* messages, failed sweeps and interrupted handlers came before.
PresenceConverges ==
    <>[](\A r \in Rooms : Members(snap, r) = {u \in Users : app[u] = r})
================================================================================
