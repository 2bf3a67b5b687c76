--------------------------- MODULE CallStateProofs ---------------------------
(***************************************************************************)
(* Theorems about presence (CallState), for any users and rooms and any    *)
(* number of operations and failures: every variable has its shape, the    *)
(* snapshot never invents a member, and a sweep, which lists LiveKit       *)
(* outside the lock, changes no more than what it has seen justifies.      *)
(***************************************************************************)
EXTENDS CallState, SequenceTheorems, TLAPS

--------------------------------------------------------------------------------
(* What the tracker's operations make of a snapshot is a snapshot. *)

\* The entries of a snapshot are RoomPresence records of known rooms.
LEMMA SnapshotEntries ==
    ASSUME NEW s \in Snapshots
    PROVE  /\ DOMAIN s \subseteq Rooms
           /\ s \in [DOMAIN s -> RoomPresence]
           /\ \A r \in DOMAIN s : s[r] \in RoomPresence
  BY DEF Snapshots

\* A function from known rooms to presences is a snapshot.
LEMMA SnapshotIntro ==
    ASSUME NEW R \in SUBSET Rooms, NEW s \in [R -> RoomPresence]
    PROVE  s \in Snapshots
  BY DEF Snapshots

LEMMA NoRoomsType == NoRooms \in Snapshots
  <1>1. NoRooms \in [{} -> RoomPresence]
    BY DEF NoRooms
  <1> QED BY <1>1, SnapshotIntro

\* Put and Drop, the two ways an operation rewrites one entry.
LEMMA PutType ==
    ASSUME NEW s \in Snapshots, NEW r \in Rooms, NEW p \in RoomPresence
    PROVE  Put(s, r, p) \in Snapshots
  <1>1. Put(s, r, p) \in [DOMAIN s \cup {r} -> RoomPresence]
    BY SnapshotEntries DEF Put
  <1>2. DOMAIN s \cup {r} \in SUBSET Rooms
    BY SnapshotEntries
  <1> QED BY <1>1, <1>2, SnapshotIntro

LEMMA DropType ==
    ASSUME NEW s \in Snapshots, NEW r
    PROVE  Drop(s, r) \in Snapshots
  <1>1. Drop(s, r) \in [DOMAIN s \ {r} -> RoomPresence]
    BY SnapshotEntries DEF Drop
  <1>2. DOMAIN s \ {r} \in SUBSET Rooms
    BY SnapshotEntries
  <1> QED BY <1>1, <1>2, SnapshotIntro

LEMMA MembersType ==
    ASSUME NEW s \in Snapshots, NEW r
    PROVE  Members(s, r) \subseteq Users
  BY SnapshotEntries DEF Members, RoomPresence

LEMMA AddCallRoomType ==
    ASSUME NEW s \in Snapshots, NEW r \in Rooms, NEW us \in SUBSET Users
    PROVE  AddCallRoom(s, r, us) \in Snapshots
  <1>1. [named |-> FALSE, users |-> Members(s, r) \cup us] \in RoomPresence
    BY MembersType DEF RoomPresence
  <1> QED BY <1>1, PutType DEF AddCallRoom

LEMMA NamedInType ==
    ASSUME NEW s \in Snapshots, NEW r \in DOMAIN s
    PROVE  s[r].named \in BOOLEAN
  BY SnapshotEntries DEF RoomPresence

LEMMA AddUserToRoomType ==
    ASSUME NEW s \in Snapshots, NEW r \in Rooms, NEW u \in Users, NEW named \in BOOLEAN
    PROVE  AddUserToRoom(s, r, u, named) \in Snapshots
  <1> DEFINE entryNamed == IF r \in DOMAIN s THEN s[r].named ELSE named
  <1>1. entryNamed \in BOOLEAN
    BY NamedInType
  <1>2. [named |-> entryNamed, users |-> Members(s, r) \cup {u}] \in RoomPresence
    BY <1>1, MembersType DEF RoomPresence
  <1> QED BY <1>2, PutType DEF AddUserToRoom

LEMMA MaterializeRoomType ==
    ASSUME NEW s \in Snapshots, NEW r \in Rooms, NEW us \in SUBSET Users, NEW dbUp \in BOOLEAN
    PROVE  MaterializeRoom(s, r, us, dbUp) \in Snapshots
  <1>1. (NamedIn(s, r) \/ Resolved(r, dbUp)) \in BOOLEAN
    OBVIOUS
  <1>2. [named |-> NamedIn(s, r) \/ Resolved(r, dbUp), users |-> Members(s, r) \cup us]
          \in RoomPresence
    BY <1>1, MembersType DEF RoomPresence
  <1> QED BY <1>2, PutType DEF MaterializeRoom

LEMMA RemoveFromType ==
    ASSUME NEW s \in Snapshots, NEW r \in DOMAIN s, NEW u
    PROVE  RemoveFrom(s, r, u) \in Snapshots
  <1>1. r \in Rooms /\ s[r] \in RoomPresence
    BY SnapshotEntries
  <1>2. [s[r] EXCEPT !.users = @ \ {u}] \in RoomPresence
    BY <1>1 DEF RoomPresence
  <1> QED BY <1>1, <1>2, PutType, DropType DEF RemoveFrom

LEMMA ReconciledType ==
    ASSUME NEW s \in Snapshots, NEW listed \in [Rooms -> SUBSET Users],
           NEW errored \in SUBSET Rooms, NEW dbUp \in BOOLEAN
    PROVE  Reconciled(s, listed, errored, dbUp) \in Snapshots
  <1> DEFINE R == DOMAIN s \cap (LiveRooms(listed) \cup errored)
  <1>1. R \in SUBSET Rooms
    BY SnapshotEntries
  <1>2. ASSUME NEW r \in R
        PROVE  (IF r \in LiveRooms(listed)
                  THEN [named |-> s[r].named \/ Resolved(r, dbUp), users |-> listed[r]]
                  ELSE s[r]) \in RoomPresence
    BY <1>1, SnapshotEntries DEF RoomPresence, LiveRooms
  <1>3. Reconciled(s, listed, errored, dbUp) \in [R -> RoomPresence]
    BY <1>2 DEF Reconciled
  <1> QED BY <1>1, <1>3, SnapshotIntro

--------------------------------------------------------------------------------
(* What the tracker's operations do to justified snapshots. *)

\* Whoever s shows in a room is among those e admits to it.
JustifiedBy(s, e) == \A r \in DOMAIN s : s[r].users \subseteq e[r]

LEMMA PutJustified ==
  ASSUME NEW s, NEW e, NEW r, NEW p, JustifiedBy(s, e), p.users \subseteq e[r]
  PROVE  JustifiedBy(Put(s, r, p), e)
  BY DEF JustifiedBy, Put

LEMMA DropJustified ==
  ASSUME NEW s, NEW e, NEW r, JustifiedBy(s, e)
  PROVE  JustifiedBy(Drop(s, r), e)
  BY DEF JustifiedBy, Drop

LEMMA MembersJustifiedBy ==
  ASSUME NEW s, NEW e, NEW r, JustifiedBy(s, e)
  PROVE  Members(s, r) \subseteq e[r]
  BY DEF JustifiedBy, Members

LEMMA AddCallRoomJustified ==
  ASSUME NEW s, NEW e, NEW r, NEW us, JustifiedBy(s, e), us \subseteq e[r]
  PROVE  JustifiedBy(AddCallRoom(s, r, us), e)
  BY PutJustified, MembersJustifiedBy DEF AddCallRoom

LEMMA AddUserToRoomJustified ==
  ASSUME NEW s, NEW e, NEW r, NEW u, NEW named, JustifiedBy(s, e), u \in e[r]
  PROVE  JustifiedBy(AddUserToRoom(s, r, u, named), e)
  BY PutJustified, MembersJustifiedBy DEF AddUserToRoom

LEMMA MaterializeRoomJustified ==
  ASSUME NEW s, NEW e, NEW r, NEW us, NEW dbUp, JustifiedBy(s, e), us \subseteq e[r]
  PROVE  JustifiedBy(MaterializeRoom(s, r, us, dbUp), e)
  BY PutJustified, MembersJustifiedBy DEF MaterializeRoom

LEMMA RemoveFromJustified ==
  ASSUME NEW s \in Snapshots, NEW e, NEW r \in DOMAIN s, NEW u, JustifiedBy(s, e)
  PROVE  JustifiedBy(RemoveFrom(s, r, u), e)
  <1>1. [s[r] EXCEPT !.users = @ \ {u}].users = s[r].users \ {u}
    BY SnapshotEntries DEF RoomPresence
  <1> QED BY <1>1, PutJustified, DropJustified DEF RemoveFrom, JustifiedBy

LEMMA ReconciledJustified ==
  ASSUME NEW s, NEW e, NEW listed, NEW errored, NEW dbUp, JustifiedBy(s, e),
         \A r \in Rooms : listed[r] \subseteq e[r]
  PROVE  JustifiedBy(Reconciled(s, listed, errored, dbUp), e)
  BY DEF JustifiedBy, Reconciled, LiveRooms

\* Further admissions take nothing away.
LEMMA JustifiedStays ==
  ASSUME NEW s \in Snapshots, NEW e, NEW g, JustifiedBy(s, e),
         \A r \in Rooms : e[r] \subseteq g[r]
  PROVE  JustifiedBy(s, g)
  BY SnapshotEntries DEF JustifiedBy

--------------------------------------------------------------------------------
(* Types. *)

HandlersHaveRooms == \A u \in Users : handler[u].at # "idle" => handler[u].room \in Rooms

Typed == TypeOK /\ HandlersHaveRooms

LEMMA IdleType == Idle \in HandlerState /\ Idle.at = "idle"
  BY DEF Idle, HandlerState

LEMMA NoSweepType == NoSweep \in Sweeps
  BY DEF NoSweep, Sweeps

LEMMA InitTyped == Init => Typed
  <1> SUFFICES ASSUME Init PROVE Typed
    OBVIOUS
  <1>1. snap \in Snapshots /\ missed \in 0..TtlTicks
    BY NoRoomsType DEF Init, TtlTicks
  <1>2. sweep \in Sweeps
    BY NoSweepType DEF Init
  <1>3. handler \in [Users -> HandlerState] /\ HandlersHaveRooms
    BY IdleType DEF Init, HandlersHaveRooms
  <1>4. inbox \in [Users -> Seq(Message)]
    <2>1. <<>> \in Seq(Message)
      BY EmptySeq
    <2> QED BY <2>1 DEF Init
  <1>5. joining \in [Users -> [room : Rooms \cup {None}, target : Users]]
    BY DEF Init
  <1>7. /\ pending \in [Rooms -> (SUBSET Users) \cup {None}]
        /\ live \in [Rooms -> SUBSET Users] /\ ever \in [Rooms -> SUBSET Users]
    BY DEF Init
  <1>6. /\ leaving \subseteq Users \X Rooms /\ checks \subseteq Users \X Rooms
        /\ callEnds \subseteq [to : Users, about : Rooms]
        /\ app \in [Users -> Rooms \cup {None}] /\ peer \in [Users -> Users]
        /\ ops \in Nat /\ faults \in Nat
    BY DEF Init
  <1> QED BY <1>1, <1>2, <1>3, <1>4, <1>5, <1>6, <1>7 DEF Typed, TypeOK

\* A step draws at most one failure, and a write leaves a snapshot.
LEMMA MeetsType ==
  ASSUME faults \in Nat, NEW f, Meets(f)
  PROVE  faults' \in Nat
  BY DEF Meets

LEMMA WriteType ==
  ASSUME snap \in Snapshots, missed \in 0..TtlTicks, NEW s \in Snapshots, NEW f, Write(s, f)
  PROVE  snap' \in Snapshots /\ missed' \in 0..TtlTicks /\ snap' \in {snap, s}
  BY DEF Write, TtlTicks

LEMMA ClientOpType ==
  ASSUME ops \in Nat, ClientOp
  PROVE  ops' \in Nat
  BY DEF ClientOp

LEMMA EnterType ==
  ASSUME app \in [Users -> Rooms \cup {None}], peer \in [Users -> Users],
         ever \in [Rooms -> SUBSET Users],
         NEW u \in Users, NEW r \in Rooms, NEW p \in Users, Enter(u, r, p)
  PROVE  /\ app' \in [Users -> Rooms \cup {None}] /\ peer' \in [Users -> Users]
         /\ ever' \in [Rooms -> SUBSET Users]
  BY DEF Enter, Admit

\* The message a read loop takes is one that was sent to it.
LEMMA ReceivedType ==
  ASSUME inbox \in [Users -> Seq(Message)], NEW u \in Users, Received(u), inbox[u] # <<>>
  PROVE  inbox' \in [Users -> Seq(Message)] /\ Head(inbox[u]) \in Message
  BY HeadTailProperties DEF Received

LEMMA SentType ==
  ASSUME inbox \in [Users -> Seq(Message)], NEW u \in Users, NEW m \in Message,
         inbox' = [inbox EXCEPT ![u] = Append(@, m)]
  PROVE  inbox' \in [Users -> Seq(Message)]
  BY AppendProperties

LEMMA NotifyType ==
  ASSUME callEnds \subseteq [to : Users, about : Rooms], NEW v \in Users, NEW r \in Rooms, Notify(v, r)
  PROVE  callEnds' \subseteq [to : Users, about : Rooms]
  BY DEF Notify

\* A read loop that goes to another place in a handler.
LEMMA HandlerType ==
  ASSUME Typed, NEW u \in Users, NEW h \in HandlerState, handler' = [handler EXCEPT ![u] = h],
         h.at # "idle" => h.room \in Rooms
  PROVE  handler' \in [Users -> HandlerState] /\ HandlersHaveRooms'
  BY DEF Typed, TypeOK, HandlersHaveRooms

LEMMA ClientTyped ==
  ASSUME Typed, NEW u \in Users, ClientNext(u)
  PROVE  Typed'
  <1> USE DEF Typed
  <1>1. ASSUME NEW v \in Users, NEW r \in Rooms, AcceptCall(v, u, r) PROVE Typed'
    <2> DEFINE h == [at |-> "addRoom", room |-> r, users |-> {v, u}]
    <2>1. h \in HandlerState /\ h.room \in Rooms
      BY DEF HandlerState
    <2>2. handler' \in [Users -> HandlerState] /\ HandlersHaveRooms'
      BY <1>1, <2>1, HandlerType DEF AcceptCall
    <2>3. /\ app' \in [Users -> Rooms \cup {None}] /\ peer' \in [Users -> Users]
          /\ ever' \in [Rooms -> SUBSET Users]
      BY <1>1 DEF AcceptCall, Admit, TypeOK
    <2>4. ops' \in Nat
      BY <1>1, ClientOpType DEF AcceptCall, TypeOK
    <2> QED BY <1>1, <2>2, <2>3, <2>4 DEF AcceptCall, TypeOK, wireVars
  <1>2. ASSUME NEW r \in Rooms, JoinRoom(u, r) PROVE Typed'
    <2>1. AddUserToRoom(snap, r, u, TRUE) \in Snapshots
      BY AddUserToRoomType DEF TypeOK
    <2>2. snap' \in Snapshots /\ missed' \in 0..TtlTicks /\ faults' \in Nat
      BY <1>2, <2>1, WriteType, MeetsType DEF JoinRoom, TypeOK
    <2>3. /\ app' \in [Users -> Rooms \cup {None}] /\ peer' \in [Users -> Users]
          /\ ever' \in [Rooms -> SUBSET Users] /\ ops' \in Nat
      BY <1>2, EnterType, ClientOpType DEF JoinRoom, TypeOK
    <2> QED BY <1>2, <2>2, <2>3 DEF JoinRoom, TypeOK, HandlersHaveRooms, wireVars
  <1>3. ASSUME NEW v \in Users, JoinCallRead(u, v) PROVE Typed'
    <2>1. PICK r \in RoomsOf(snap, v) : joining' = [joining EXCEPT ![u] = [room |-> r, target |-> v]]
      BY <1>3 DEF JoinCallRead
    <2>2. r \in Rooms
      BY SnapshotEntries DEF RoomsOf, TypeOK
    <2>3. joining' \in [Users -> [room : Rooms \cup {None}, target : Users]]
      BY <2>1, <2>2 DEF TypeOK
    <2>4. ops' \in Nat
      BY <1>3, ClientOpType DEF JoinCallRead, TypeOK
    <2> QED BY <1>3, <2>3, <2>4 DEF JoinCallRead, TypeOK, HandlersHaveRooms, wireVars, clientVars
  <1>4. CASE EndCall(u)
    <2>1. app[u] \in Rooms /\ peer[u] \in Users
      BY <1>4 DEF EndCall, TypeOK
    <2>2. CallEndMessage(u) \in Message
      BY <2>1 DEF CallEndMessage, Message
    <2>3. inbox' \in [Users -> Seq(Message)]
      BY <1>4, <2>2, SentType DEF EndCall, TypeOK
    <2>4. leaving' \subseteq Users \X Rooms /\ app' \in [Users -> Rooms \cup {None}] /\ ops' \in Nat
      BY <1>4, <2>1, ClientOpType DEF EndCall, TypeOK
    <2> QED BY <1>4, <2>3, <2>4 DEF EndCall, TypeOK, HandlersHaveRooms, serverVars
  <1>5. ASSUME NEW r \in Rooms, AnswerCheck(u, r) PROVE Typed'
    <2>1. [type |-> "presence_ack", room |-> r,
           inCall |-> IF app[u] \in NamedRooms THEN app[u] = r ELSE app[u] # None] \in Message
      BY DEF Message
    <2>2. inbox' \in [Users -> Seq(Message)]
      BY <1>5, <2>1, SentType DEF AnswerCheck, TypeOK
    <2> QED BY <1>5, <2>2
            DEF AnswerCheck, TypeOK, HandlersHaveRooms, serverVars, clientVars, bounds
  <1>6. CASE AppCrash(u)
    <2>1. app' \in [Users -> Rooms \cup {None}] /\ faults' \in Nat
      BY <1>6, MeetsType DEF AppCrash, TypeOK
    <2> QED BY <1>6, <2>1 DEF AppCrash, TypeOK, HandlersHaveRooms, serverVars, wireVars
  <1>7. CASE Connect(u)
    <2>1. app[u] \in Rooms
      BY <1>7 DEF Connect, TypeOK
    <2>2. live' \in [Rooms -> SUBSET Users]
      BY <1>7, <2>1 DEF Connect, TypeOK
    <2>3. sweep' \in Sweeps
      BY <1>7, <2>1 DEF Connect, TypeOK, Sweeps
    <2> QED BY <1>7, <2>2, <2>3
            DEF Connect, TypeOK, HandlersHaveRooms, serverVars, wireVars, clientVars, bounds
  <1>8. ASSUME NEW r \in Rooms, Disconnect(u, r) PROVE Typed'
    <2>1. live' \in [Rooms -> SUBSET Users] /\ sweep' \in Sweeps
      BY <1>8 DEF Disconnect, TypeOK, Sweeps
    <2> QED BY <1>8, <2>1
            DEF Disconnect, TypeOK, HandlersHaveRooms, serverVars, wireVars, clientVars, bounds
  <1> QED BY <1>1, <1>2, <1>3, <1>4, <1>5, <1>6, <1>7, <1>8 DEF ClientNext

LEMMA RemovesType ==
  ASSUME Typed, NEW u \in Users, NEW f,
         IF RoomsOf(snap, u) = {} THEN UNCHANGED <<snap, missed>>
         ELSE \E r \in RoomsOf(snap, u) : Write(RemoveFrom(snap, r, u), f)
  PROVE  snap' \in Snapshots /\ missed' \in 0..TtlTicks
  <1>1. CASE RoomsOf(snap, u) = {}
    BY <1>1 DEF Typed, TypeOK
  <1>2. ASSUME NEW r \in RoomsOf(snap, u), Write(RemoveFrom(snap, r, u), f)
        PROVE  snap' \in Snapshots /\ missed' \in 0..TtlTicks
    <2>1. r \in DOMAIN snap
      BY DEF RoomsOf
    <2>2. RemoveFrom(snap, r, u) \in Snapshots
      BY <2>1, RemoveFromType DEF Typed, TypeOK
    <2> QED BY <1>2, <2>2, WriteType DEF Typed, TypeOK
  <1> QED BY <1>1, <1>2

LEMMA HandlerTyped ==
  ASSUME Typed, NEW u \in Users, HandlerNext(u)
  PROVE  Typed'
  <1> USE DEF Typed
  <1>0. handler[u] \in HandlerState /\ (handler[u].at # "idle" => handler[u].room \in Rooms)
    BY DEF TypeOK, HandlersHaveRooms
  <1>1. CASE AcceptCallAddRoom(u)
    <2>1. AddCallRoom(snap, handler[u].room, handler[u].users) \in Snapshots
      BY <1>0, <1>1, AddCallRoomType DEF AcceptCallAddRoom, HandlerState, TypeOK
    <2>2. snap' \in Snapshots /\ missed' \in 0..TtlTicks /\ faults' \in Nat
      BY <1>1, <2>1, WriteType, MeetsType DEF AcceptCallAddRoom, TypeOK
    <2>3. handler' \in [Users -> HandlerState] /\ HandlersHaveRooms'
      BY <1>1, IdleType, HandlerType DEF AcceptCallAddRoom
    <2> QED BY <1>1, <2>2, <2>3 DEF AcceptCallAddRoom, TypeOK, wireVars, clientVars
  <1>2. CASE JoinCallAdd(u)
    <2>1. joining[u].room \in Rooms /\ joining[u].target \in Users
      BY <1>2 DEF JoinCallAdd, TypeOK
    <2>2. AddUserToRoom(snap, joining[u].room, u, FALSE) \in Snapshots
      BY <2>1, AddUserToRoomType DEF TypeOK
    <2>3. snap' \in Snapshots /\ missed' \in 0..TtlTicks /\ faults' \in Nat
      BY <1>2, <2>2, WriteType, MeetsType DEF JoinCallAdd, TypeOK
    <2>4. joining' \in [Users -> [room : Rooms \cup {None}, target : Users]]
      BY <1>2 DEF JoinCallAdd, TypeOK
    <2>5. /\ app' \in [Users -> Rooms \cup {None}] /\ peer' \in [Users -> Users]
          /\ ever' \in [Rooms -> SUBSET Users]
      <3>1. CASE Enter(u, joining[u].room, joining[u].target)
        BY <2>1, <3>1, EnterType DEF TypeOK
      <3>2. CASE Admit({u}, joining[u].room) /\ UNCHANGED clientVars
        BY <2>1, <3>2 DEF Admit, TypeOK, clientVars
      <3> QED BY <1>2, <3>1, <3>2 DEF JoinCallAdd
    <2> QED BY <1>2, <2>3, <2>4, <2>5 DEF JoinCallAdd, TypeOK, HandlersHaveRooms, wireVars
  <1>3. ASSUME NEW type, NextMessage(u, type), Received(u)
        PROVE  inbox' \in [Users -> Seq(Message)] /\ Head(inbox[u]) \in Message
               /\ Head(inbox[u]).type = type
    BY <1>3, ReceivedType DEF NextMessage, TypeOK
  <1>4. CASE EndCallNoRoom(u)
    <2>1. /\ inbox' \in [Users -> Seq(Message)]
          /\ Head(inbox[u]).to \in Users /\ Head(inbox[u]).about \in Rooms
      BY <1>3, <1>4 DEF EndCallNoRoom, Message
    <2>2. callEnds' \subseteq [to : Users, about : Rooms] /\ faults' \in Nat
      BY <1>4, <2>1, NotifyType, MeetsType DEF EndCallNoRoom, TypeOK
    <2> QED BY <1>4, <2>1, <2>2 DEF EndCallNoRoom, TypeOK, HandlersHaveRooms, serverVars, clientVars
  <1>5. CASE EndCallInRoom(u)
    <2>1. /\ inbox' \in [Users -> Seq(Message)] /\ Head(inbox[u]).about \in Rooms
      BY <1>3, <1>5 DEF EndCallInRoom, Message
    <2> PICK r \in RoomsOf(snap, u), f \in {"ok", "write"} :
          /\ Meets(f) /\ Write(RemoveFrom(snap, r, u), f)
          /\ handler' = [handler EXCEPT ![u] =
               IF ~snap[r].named /\ Cardinality(snap[r].users \ {u}) = 1
                 THEN [at |-> "collapse", room |-> Head(inbox[u]).about, users |-> snap[r].users \ {u}]
                 ELSE Idle]
      BY <1>5 DEF EndCallInRoom
    <2>2. r \in DOMAIN snap /\ snap[r].users \subseteq Users
      BY SnapshotEntries DEF RoomsOf, TypeOK, RoomPresence
    <2>3. snap' \in Snapshots /\ missed' \in 0..TtlTicks /\ faults' \in Nat
      BY <2>2, RemoveFromType, WriteType, MeetsType DEF TypeOK
    <2> DEFINE h == [at |-> "collapse", room |-> Head(inbox[u]).about, users |-> snap[r].users \ {u}]
    <2>4. h \in HandlerState /\ h.room \in Rooms
      BY <2>1, <2>2 DEF HandlerState
    <2>5. handler' \in [Users -> HandlerState] /\ HandlersHaveRooms'
      <3>1. handler' = [handler EXCEPT ![u] = h] \/ handler' = [handler EXCEPT ![u] = Idle]
        OBVIOUS
      <3>2. CASE handler' = [handler EXCEPT ![u] = h]
        <4> HIDE DEF h
        <4> QED BY <2>4, <3>2, HandlerType
      <3>3. CASE handler' = [handler EXCEPT ![u] = Idle]
        BY <3>3, IdleType, HandlerType
      <3> QED BY <3>1, <3>2, <3>3
    <2> QED BY <1>5, <2>1, <2>3, <2>5 DEF EndCallInRoom, TypeOK, clientVars
  <1>6. CASE EndCallCollapse(u)
    <2> PICK p \in handler[u].users, f \in {"ok", "write"} :
          /\ Meets(f) /\ Notify(p, handler[u].room)
          /\ IF RoomsOf(snap, p) = {} THEN UNCHANGED <<snap, missed>>
             ELSE \E r \in RoomsOf(snap, p) : Write(RemoveFrom(snap, r, p), f)
      BY <1>6 DEF EndCallCollapse
    <2>1. p \in Users /\ handler[u].room \in Rooms
      BY <1>0, <1>6 DEF HandlerState, EndCallCollapse
    <2>2. snap' \in Snapshots /\ missed' \in 0..TtlTicks
      BY <2>1, RemovesType
    <2>3. callEnds' \subseteq [to : Users, about : Rooms] /\ faults' \in Nat
      BY <2>1, NotifyType, MeetsType DEF TypeOK
    <2>4. handler' \in [Users -> HandlerState] /\ HandlersHaveRooms'
      BY <1>6, IdleType, HandlerType DEF EndCallCollapse
    <2> QED BY <1>6, <2>2, <2>3, <2>4 DEF EndCallCollapse, TypeOK, clientVars
  <1>7. ASSUME NEW r \in Rooms, LeaveRoom(u, r) PROVE Typed'
    <2>1. snap' \in Snapshots /\ missed' \in 0..TtlTicks /\ faults' \in Nat
      BY <1>7, RemovesType, MeetsType DEF LeaveRoom, TypeOK
    <2> QED BY <1>7, <2>1 DEF LeaveRoom, TypeOK, HandlersHaveRooms, clientVars
  <1>8. CASE AckNotInCall(u)
    BY <1>3, <1>8 DEF AckNotInCall, TypeOK, HandlersHaveRooms, serverVars, clientVars, bounds
  <1>9. CASE AckGetPending(u)
    <2>1. /\ inbox' \in [Users -> Seq(Message)] /\ Head(inbox[u]).room \in Rooms
      BY <1>3, <1>9 DEF AckGetPending, Message
    <2> DEFINE r == Head(inbox[u]).room
               stashed == IF pending[r] = None THEN {} ELSE pending[r]
               h == [at |-> "materialize", room |-> r, users |-> stashed \cup {u}]
    <2>2. h \in HandlerState /\ h.room \in Rooms
      BY <2>1 DEF HandlerState, TypeOK
    <2>3. faults' \in Nat
      BY <1>9, MeetsType DEF AckGetPending, TypeOK
    <2>4. handler' \in [Users -> HandlerState] /\ HandlersHaveRooms'
      <3>1. handler' = [handler EXCEPT ![u] = h] \/ handler' = handler
        BY <1>9 DEF AckGetPending
      <3>2. CASE handler' = [handler EXCEPT ![u] = h]
        <4> HIDE DEF h
        <4> QED BY <2>2, <3>2, HandlerType
      <3>3. CASE handler' = handler
        BY <3>3 DEF TypeOK, HandlersHaveRooms
      <3> QED BY <3>1, <3>2, <3>3
    <2> QED BY <1>9, <2>1, <2>3, <2>4 DEF AckGetPending, TypeOK, clientVars
  <1>10. CASE AckMaterialize(u)
    <2> PICK f \in {"ok", "db", "write"} :
          /\ Meets(f)
          /\ Write(MaterializeRoom(snap, handler[u].room, handler[u].users, f # "db"), f)
          /\ handler' = [handler EXCEPT ![u] = IF f = "write" THEN Idle ELSE [@ EXCEPT !.at = "clear"]]
      BY <1>10 DEF AckMaterialize
    <2>1. handler[u].room \in Rooms /\ handler[u].users \in SUBSET Users
      BY <1>0, <1>10 DEF AckMaterialize, HandlerState
    <2>2. MaterializeRoom(snap, handler[u].room, handler[u].users, f # "db") \in Snapshots
      BY <2>1, MaterializeRoomType DEF TypeOK
    <2>3. snap' \in Snapshots /\ missed' \in 0..TtlTicks /\ faults' \in Nat
      BY <2>2, WriteType, MeetsType DEF TypeOK
    <2> DEFINE h == IF f = "write" THEN Idle ELSE [handler[u] EXCEPT !.at = "clear"]
    <2>4. h \in HandlerState /\ (h.at # "idle" => h.room \in Rooms)
      BY <1>0, <2>1, IdleType DEF HandlerState
    <2>5. handler' = [handler EXCEPT ![u] = h]
      BY DEF TypeOK
    <2>6. handler' \in [Users -> HandlerState] /\ HandlersHaveRooms'
      <3> HIDE DEF h
      <3> QED BY <2>4, <2>5, HandlerType
    <2> QED BY <1>10, <2>3, <2>6 DEF AckMaterialize, TypeOK, wireVars, clientVars
  <1>11. CASE AckClearPending(u)
    <2>1. handler' \in [Users -> HandlerState] /\ HandlersHaveRooms'
      BY <1>11, IdleType, HandlerType DEF AckClearPending
    <2>2. pending' \in [Rooms -> (SUBSET Users) \cup {None}] /\ faults' \in Nat
      BY <1>11, MeetsType DEF AckClearPending, TypeOK
    <2> QED BY <1>11, <2>1, <2>2 DEF AckClearPending, TypeOK, wireVars, clientVars
  <1> QED BY <1>1, <1>2, <1>4, <1>5, <1>6, <1>7, <1>8, <1>9, <1>10, <1>11 DEF HandlerNext

LEMMA MissTickType ==
  ASSUME missed \in 0..TtlTicks, MissTick
  PROVE  missed' \in 0..TtlTicks
  BY DEF MissTick, TtlTicks

LEMMA SweepTyped ==
  ASSUME Typed, SweepNext
  PROVE  Typed'
  <1> USE DEF Typed
  <1>1. CASE ListRoomsFails
    <2>1. missed' \in 0..TtlTicks /\ faults' \in Nat
      BY <1>1, MissTickType, MeetsType DEF ListRoomsFails, TypeOK
    <2> QED BY <1>1, <2>1 DEF ListRoomsFails, TypeOK, HandlersHaveRooms, wireVars, clientVars
  <1>2. CASE ListRooms
    <2>1. sweep' \in Sweeps
      BY <1>2 DEF ListRooms, NoSweep, Sweeps, TypeOK
    <2> QED BY <1>2, <2>1
            DEF ListRooms, TypeOK, HandlersHaveRooms, serverVars, wireVars, clientVars, bounds
  <1>3. ASSUME NEW r \in Rooms, ListRoomMembers(r) PROVE Typed'
    <2>1. sweep' \in Sweeps
      <3>1. CASE sweep' = [sweep EXCEPT !.todo = @ \ {r}, !.listed[r] = live[r]]
        BY <3>1 DEF TypeOK, Sweeps
      <3>2. CASE sweep' = [sweep EXCEPT !.todo = @ \ {r}, !.errored = @ \cup {r}]
        BY <3>2 DEF TypeOK, Sweeps
      <3> QED BY <1>3, <3>1, <3>2 DEF ListRoomMembers
    <2>2. faults' \in Nat
      BY <1>3, MeetsType DEF ListRoomMembers, TypeOK
    <2> QED BY <1>3, <2>1, <2>2
            DEF ListRoomMembers, TypeOK, HandlersHaveRooms, serverVars, wireVars, clientVars
  <1>4. CASE Apply
    <2> PICK f \in {"ok", "db", "read", "pending", "write"} :
          LET asked == IF f \in {"read", "pending"} THEN {} ELSE Candidates IN
          /\ Meets(f)
          /\ pending' = [r \in Rooms |-> IF r \in asked THEN sweep.listed[r] ELSE pending[r]]
          /\ checks' = checks \cup Pings(asked)
          /\ IF f \in {"read", "write"}
               THEN UNCHANGED snap /\ MissTick
               ELSE snap' = Reconciled(snap, sweep.listed, sweep.errored, f # "db") /\ missed' = 0
      BY <1>4 DEF Apply
    <2> DEFINE asked == IF f \in {"read", "pending"} THEN {} ELSE Candidates
    <2>1. sweep.listed \in [Rooms -> SUBSET Users] /\ sweep.errored \in SUBSET Rooms
      BY DEF TypeOK, Sweeps
    <2>2. asked \subseteq Rooms
      BY DEF Candidates, Unvalidated, LiveRooms
    <2>3. pending' \in [Rooms -> (SUBSET Users) \cup {None}] /\ checks' \subseteq Users \X Rooms
      <3> HIDE DEF asked
      <3>1. pending' \in [Rooms -> (SUBSET Users) \cup {None}]
        BY <2>1 DEF TypeOK
      <3>2. Pings(asked) \subseteq Users \X Rooms
        BY <2>2 DEF Pings
      <3>3. checks' = checks \cup Pings(asked)
        BY DEF asked
      <3> QED BY <3>1, <3>2, <3>3 DEF TypeOK
    <2>4. snap' \in Snapshots /\ missed' \in 0..TtlTicks
      <3>1. CASE f \in {"read", "write"}
        BY <3>1, MissTickType DEF TypeOK
      <3>2. CASE f \notin {"read", "write"}
        <4>1. Reconciled(snap, sweep.listed, sweep.errored, f # "db") \in Snapshots
          BY <2>1, ReconciledType DEF TypeOK
        <4>2. missed' = 0 /\ snap' = Reconciled(snap, sweep.listed, sweep.errored, f # "db")
          BY <3>2
        <4> QED BY <4>1, <4>2 DEF TtlTicks
      <3> QED BY <3>1, <3>2
    <2>5. faults' \in Nat
      BY MeetsType DEF TypeOK
    <2> QED BY <1>4, <2>3, <2>4, <2>5, NoSweepType DEF Apply, TypeOK, HandlersHaveRooms, clientVars
  <1> QED BY <1>1, <1>2, <1>3, <1>4 DEF SweepNext

LEMMA EnvironmentTyped ==
  ASSUME Typed, EnvironmentNext
  PROVE  Typed'
  <1> USE DEF Typed
  <1>1. ASSUME NEW r \in Rooms, PendingExpires(r) PROVE Typed'
    <2>1. pending' \in [Rooms -> (SUBSET Users) \cup {None}]
      BY <1>1 DEF PendingExpires, TypeOK
    <2> QED BY <1>1, <2>1
            DEF PendingExpires, TypeOK, HandlersHaveRooms, wireVars, clientVars, bounds
  <1>2. CASE SnapshotExpires
    BY <1>2, NoRoomsType
       DEF SnapshotExpires, TypeOK, HandlersHaveRooms, wireVars, clientVars, bounds
  <1>3. CASE LoseMessage
    <2>1. checks' \subseteq Users \X Rooms /\ callEnds' \subseteq [to : Users, about : Rooms]
          /\ faults' \in Nat
      BY <1>3, MeetsType DEF LoseMessage, TypeOK
    <2> QED BY <1>3, <2>1 DEF LoseMessage, TypeOK, HandlersHaveRooms, serverVars, clientVars
  <1>4. CASE Restart
    <2>1. handler' \in [Users -> HandlerState] /\ HandlersHaveRooms'
      BY <1>4, IdleType DEF Restart, HandlersHaveRooms
    <2>2. joining' \in [Users -> [room : Rooms \cup {None}, target : Users]]
      BY <1>4 DEF Restart
    <2>3. inbox' \in [Users -> Seq(Message)]
      <3>1. <<>> \in Seq(Message)
        BY EmptySeq
      <3> QED BY <1>4, <3>1 DEF Restart
    <2>4. faults' \in Nat /\ leaving' = {} /\ checks' = {} /\ callEnds' = {} /\ sweep' \in Sweeps
          /\ UNCHANGED <<snap, missed, pending, clientVars, live, ever, ops>>
      BY <1>4, MeetsType, NoSweepType DEF Restart, TypeOK
    <2> QED BY <2>1, <2>2, <2>3, <2>4 DEF TypeOK, clientVars
  <1>5. ASSUME NEW end \in callEnds, ReceiveCallEnd(end) PROVE Typed'
    <2>1. app' \in [Users -> Rooms \cup {None}] /\ callEnds' \subseteq [to : Users, about : Rooms]
      BY <1>5 DEF ReceiveCallEnd, TypeOK
    <2> QED BY <1>5, <2>1 DEF ReceiveCallEnd, TypeOK, HandlersHaveRooms, serverVars, bounds
  <1> QED BY <1>1, <1>2, <1>3, <1>4, <1>5 DEF EnvironmentNext

LEMMA NextTyped == Typed /\ [Next]_vars => Typed'
  <1> SUFFICES ASSUME Typed, [Next]_vars PROVE Typed'
    OBVIOUS
  <1>1. CASE Next
    BY <1>1, ClientTyped, HandlerTyped, SweepTyped, EnvironmentTyped DEF Next
  <1>2. CASE UNCHANGED vars
    BY <1>2 DEF vars, Typed, TypeOK, HandlersHaveRooms
  <1> QED BY <1>1, <1>2

\* Whatever clients, handlers, sweeps and failures do, every variable has the shape the
\* code gives it.
THEOREM TypeCorrect == Spec => []TypeOK
  <1>1. Typed => TypeOK
    BY DEF Typed
  <1> QED BY <1>1, InitTyped, NextTyped, PTL DEF Spec

--------------------------------------------------------------------------------
(* Justification. *)

\* The messages of u that answer yes or no name a room it was admitted to.
AcksJustified(q, u, e) ==
    \A i \in DOMAIN q : q[i].type = "presence_ack" => u \in e[q[i].room]

\* Nobody is said to be in a room who was not admitted to it, by any e that has the
\* admissions: in a list of LiveKit, a record that waits for a confirmation, a client's
\* tokens, a handler under way, a question to a client or its answer.
SnapJustified(e) == JustifiedBy(snap, e)
LiveJustified(e) == \A r \in Rooms : live[r] \subseteq e[r]
ListedJustified(e) == \A r \in Rooms : sweep.listed[r] \subseteq e[r]
PendingJustified(e) == \A r \in Rooms : pending[r] # None => pending[r] \subseteq e[r]
AppJustified(e) == \A u \in Users : app[u] # None => u \in e[app[u]]
HandlerJustified(e) ==
    \A u \in Users : handler[u].at \in {"addRoom", "materialize", "clear"} =>
                       handler[u].users \subseteq e[handler[u].room]
InboxJustified(e) == \A u \in Users : AcksJustified(inbox[u], u, e)
ChecksJustified(e) == \A c \in checks : c[1] \in e[c[2]]

JustifiedIn(e) ==
    /\ SnapJustified(e) /\ LiveJustified(e) /\ ListedJustified(e) /\ PendingJustified(e)
    /\ AppJustified(e) /\ HandlerJustified(e) /\ InboxJustified(e) /\ ChecksJustified(e)

Justified == JustifiedIn(ever)

LEMMA InitJustified == Init => Justified
  <1> SUFFICES ASSUME Init PROVE Justified
    OBVIOUS
  <1>1. SnapJustified(ever)
    BY DEF Init, SnapJustified, JustifiedBy, NoRooms
  <1>2. LiveJustified(ever) /\ ListedJustified(ever) /\ PendingJustified(ever)
    BY DEF Init, NoSweep, LiveJustified, ListedJustified, PendingJustified
  <1>3. AppJustified(ever) /\ HandlerJustified(ever) /\ InboxJustified(ever)
    BY DEF Init, Idle, AppJustified, HandlerJustified, InboxJustified, AcksJustified
  <1>4. ChecksJustified(ever)
    BY DEF Init, ChecksJustified
  <1> QED BY <1>1, <1>2, <1>3, <1>4 DEF Justified, JustifiedIn

\* No step takes an admission back.
LEMMA EverGrows ==
  ASSUME Typed, Next
  PROVE  \A r \in Rooms : ever[r] \subseteq ever'[r]
  <1>1. ever \in [Rooms -> SUBSET Users]
    BY DEF Typed, TypeOK
  <1>2. ASSUME NEW us, NEW r, Admit(us, r)
        PROVE  \A q \in Rooms : ever[q] \subseteq ever'[q]
    BY <1>1, <1>2 DEF Admit
  <1>3. ASSUME NEW u \in Users, ClientNext(u) PROVE \A r \in Rooms : ever[r] \subseteq ever'[r]
    BY <1>2, <1>3 DEF ClientNext, AcceptCall, JoinRoom, Enter, JoinCallRead, EndCall, AnswerCheck,
                      AppCrash, Connect, Disconnect
  <1>4. ASSUME NEW u \in Users, HandlerNext(u) PROVE \A r \in Rooms : ever[r] \subseteq ever'[r]
    BY <1>2, <1>4 DEF HandlerNext, AcceptCallAddRoom, JoinCallAdd, Enter, EndCallNoRoom,
                      EndCallInRoom, EndCallCollapse, LeaveRoom, AckNotInCall, AckGetPending,
                      AckMaterialize, AckClearPending
  <1>5. ASSUME SweepNext \/ EnvironmentNext PROVE \A r \in Rooms : ever[r] \subseteq ever'[r]
    BY <1>5 DEF SweepNext, ListRoomsFails, ListRooms, ListRoomMembers, Apply, EnvironmentNext,
                PendingExpires, SnapshotExpires, LoseMessage, Restart, ReceiveCallEnd
  <1> QED BY <1>3, <1>4, <1>5 DEF Next

LEMMA SentJustified ==
  ASSUME NEW q \in Seq(Message), NEW m \in Message, NEW u, NEW e, AcksJustified(q, u, e),
         m.type = "presence_ack" => u \in e[m.room]
  PROVE  AcksJustified(Append(q, m), u, e)
  <1>1. /\ Len(q) \in Nat /\ DOMAIN q = 1..Len(q) /\ DOMAIN Append(q, m) = 1..(Len(q) + 1)
        /\ \A i \in 1..Len(q) : Append(q, m)[i] = q[i]
        /\ Append(q, m)[Len(q) + 1] = m
    BY AppendProperties, LenProperties
  <1>2. ASSUME NEW i \in 1..(Len(q) + 1), Append(q, m)[i].type = "presence_ack"
        PROVE  u \in e[Append(q, m)[i].room]
    <2>1. CASE i = Len(q) + 1
      BY <1>1, <1>2, <2>1
    <2>2. CASE i \in 1..Len(q)
      BY <1>1, <1>2, <2>2 DEF AcksJustified
    <2> QED BY <1>1, <2>1, <2>2
  <1> QED BY <1>1, <1>2 DEF AcksJustified

LEMMA ReceivedJustified ==
  ASSUME NEW q \in Seq(Message), q # <<>>, NEW u, NEW e, AcksJustified(q, u, e)
  PROVE  /\ AcksJustified(Tail(q), u, e)
         /\ Head(q).type = "presence_ack" => u \in e[Head(q).room]
  <1>1. /\ Len(q) \in Nat \ {0} /\ DOMAIN q = 1..Len(q) /\ Head(q) = q[1]
        /\ DOMAIN Tail(q) = 1..(Len(q) - 1)
        /\ \A i \in 1..(Len(q) - 1) : Tail(q)[i] = q[i + 1]
    BY HeadTailProperties, LenProperties, EmptySeq
  <1>2. \A i \in 1..(Len(q) - 1) : i + 1 \in 1..Len(q)
    BY <1>1
  <1> QED BY <1>1, <1>2 DEF AcksJustified

\* What was justified stays so when more are admitted.
LEMMA JustifiedGrows ==
  ASSUME Typed, Justified, NEW e, \A r \in Rooms : ever[r] \subseteq e[r]
  PROVE  JustifiedIn(e)
  <1> USE DEF Typed, Justified, JustifiedIn
  <1>1. SnapJustified(e)
    BY JustifiedStays DEF SnapJustified, TypeOK
  <1>2. LiveJustified(e) /\ ListedJustified(e) /\ PendingJustified(e)
    BY DEF LiveJustified, ListedJustified, PendingJustified
  <1>3. AppJustified(e)
    BY DEF AppJustified, TypeOK
  <1>4. HandlerJustified(e)
    BY DEF HandlerJustified, HandlersHaveRooms
  <1>5. InboxJustified(e)
    <2> SUFFICES ASSUME NEW u \in Users, NEW i \in DOMAIN inbox[u], inbox[u][i].type = "presence_ack"
                 PROVE  u \in e[inbox[u][i].room]
      BY DEF InboxJustified, AcksJustified
    <2>1. u \in ever[inbox[u][i].room]
      BY DEF InboxJustified, AcksJustified
    <2>2. inbox[u] \in Seq(Message)
      BY DEF TypeOK
    <2>3. inbox[u][i] \in Message
      BY <2>2, ElementOfSeq, LenProperties
    <2>4. inbox[u][i].room \in Rooms
      BY <2>3 DEF Message
    <2> QED BY <2>1, <2>4
  <1>6. ChecksJustified(e)
    BY DEF ChecksJustified, TypeOK
  <1> QED BY <1>1, <1>2, <1>3, <1>4, <1>5, <1>6

\* A write leaves the snapshot or puts a justified one in its place.
LEMMA WriteJustified ==
  ASSUME NEW s, NEW f, Write(s, f), SnapJustified(ever'), JustifiedBy(s, ever')
  PROVE  SnapJustified(ever)'
  BY DEF Write, SnapJustified

LEMMA MovedJustified ==
  ASSUME Typed, NEW u \in Users, NEW h, handler' = [handler EXCEPT ![u] = h],
         h.at \in {"addRoom", "materialize", "clear"} => h.users \subseteq ever'[h.room],
         HandlerJustified(ever')
  PROVE  HandlerJustified(ever)'
  BY DEF HandlerJustified, Typed, TypeOK

LEMMA IdleJustified ==
  ASSUME Typed, NEW u \in Users, handler' = [handler EXCEPT ![u] = Idle], HandlerJustified(ever')
  PROVE  HandlerJustified(ever)'
  <1>1. Idle.at \notin {"addRoom", "materialize", "clear"}
    BY DEF Idle
  <1> QED BY <1>1, MovedJustified

LEMMA InboxSentJustified ==
  ASSUME Typed, NEW u \in Users, NEW m \in Message, inbox' = [inbox EXCEPT ![u] = Append(@, m)],
         m.type = "presence_ack" => u \in ever'[m.room], InboxJustified(ever')
  PROVE  InboxJustified(ever)'
  <1>1. inbox[u] \in Seq(Message)
    BY DEF Typed, TypeOK
  <1>2. AcksJustified(Append(inbox[u], m), u, ever')
    BY <1>1, SentJustified DEF InboxJustified
  <1>3. \A v \in Users : inbox'[v] = IF v = u THEN Append(inbox[u], m) ELSE inbox[v]
    BY DEF Typed, TypeOK
  <1> QED BY <1>2, <1>3 DEF InboxJustified, AcksJustified

LEMMA InboxReceivedJustified ==
  ASSUME Typed, NEW u \in Users, inbox[u] # <<>>, Received(u), InboxJustified(ever')
  PROVE  /\ InboxJustified(ever)'
         /\ Head(inbox[u]).type = "presence_ack" => u \in ever'[Head(inbox[u]).room]
  <1>1. inbox[u] \in Seq(Message) /\ AcksJustified(inbox[u], u, ever')
    BY DEF Typed, TypeOK, InboxJustified
  <1>2. /\ AcksJustified(Tail(inbox[u]), u, ever')
        /\ Head(inbox[u]).type = "presence_ack" => u \in ever'[Head(inbox[u]).room]
    BY <1>1, ReceivedJustified
  <1>3. \A v \in Users : inbox'[v] = IF v = u THEN Tail(inbox[u]) ELSE inbox[v]
    BY DEF Typed, TypeOK, Received
  <1> QED BY <1>2, <1>3 DEF InboxJustified, AcksJustified

\* Removing somebody from whatever room it is in.
LEMMA RemovesJustified ==
  ASSUME Typed, NEW u, NEW f, SnapJustified(ever'),
         IF RoomsOf(snap, u) = {} THEN UNCHANGED <<snap, missed>>
         ELSE \E r \in RoomsOf(snap, u) : Write(RemoveFrom(snap, r, u), f)
  PROVE  SnapJustified(ever)'
  <1>1. CASE UNCHANGED snap
    BY <1>1 DEF SnapJustified, JustifiedBy
  <1>2. ASSUME NEW r \in RoomsOf(snap, u), Write(RemoveFrom(snap, r, u), f)
        PROVE  SnapJustified(ever)'
    <2>1. r \in DOMAIN snap
      BY DEF RoomsOf
    <2>2. JustifiedBy(RemoveFrom(snap, r, u), ever')
      BY <2>1, RemoveFromJustified DEF Typed, TypeOK, SnapJustified
    <2> QED BY <1>2, <2>2, WriteJustified
  <1> QED BY <1>1, <1>2

\* What u's tokens admit it to, once they are stored.
LEMMA EnterJustified ==
  ASSUME Typed, NEW u \in Users, NEW r \in Rooms, NEW p, Enter(u, r, p), AppJustified(ever')
  PROVE  AppJustified(ever)'
  BY DEF Enter, Admit, AppJustified, Typed, TypeOK

\* What a step leaves alone stays justified.
LEMMA KeptJustified ==
  ASSUME JustifiedIn(ever')
  PROVE  /\ UNCHANGED snap => SnapJustified(ever)'
         /\ UNCHANGED live => LiveJustified(ever)'
         /\ UNCHANGED sweep => ListedJustified(ever)'
         /\ UNCHANGED pending => PendingJustified(ever)'
         /\ UNCHANGED app => AppJustified(ever)'
         /\ UNCHANGED handler => HandlerJustified(ever)'
         /\ UNCHANGED inbox => InboxJustified(ever)'
         /\ UNCHANGED checks => ChecksJustified(ever)'
  BY DEF JustifiedIn, SnapJustified, LiveJustified, ListedJustified, PendingJustified,
         AppJustified, HandlerJustified, InboxJustified, ChecksJustified, AcksJustified,
         JustifiedBy

LEMMA ClientJustified ==
  ASSUME Typed, Typed', NEW u \in Users, ClientNext(u), JustifiedIn(ever')
  PROVE  Justified'
  <1> USE DEF Justified, JustifiedIn
  <1>1. ASSUME NEW v \in Users, NEW r \in Rooms, AcceptCall(v, u, r) PROVE Justified'
    <2>1. u \in ever'[r] /\ v \in ever'[r]
      BY <1>1 DEF AcceptCall, Admit, Typed, TypeOK
    <2>2. AppJustified(ever)'
      BY <1>1, <2>1 DEF AcceptCall, AppJustified
    <2>3. HandlerJustified(ever)'
      <3> DEFINE h == [at |-> "addRoom", room |-> r, users |-> {v, u}]
      <3>1. handler' = [handler EXCEPT ![u] = h] /\ h.users \subseteq ever'[h.room]
        BY <1>1, <2>1 DEF AcceptCall
      <3> HIDE DEF h
      <3> QED BY <3>1, MovedJustified
    <2> QED BY KeptJustified, <1>1, <2>2, <2>3 DEF AcceptCall, wireVars
  <1>2. ASSUME NEW r \in Rooms, JoinRoom(u, r) PROVE Justified'
    <2>1. u \in ever'[r]
      BY <1>2 DEF JoinRoom, Enter, Admit, Typed, TypeOK
    <2>2. JustifiedBy(AddUserToRoom(snap, r, u, TRUE), ever')
      BY <2>1, AddUserToRoomJustified DEF SnapJustified
    <2>3. SnapJustified(ever)' /\ AppJustified(ever)'
      BY <1>2, <2>2, WriteJustified, EnterJustified DEF JoinRoom
    <2> QED BY KeptJustified, <1>2, <2>3 DEF JoinRoom, wireVars
  <1>3. ASSUME NEW v \in Users, JoinCallRead(u, v) PROVE Justified'
    BY KeptJustified, <1>3 DEF JoinCallRead, wireVars, clientVars
  <1>4. CASE EndCall(u)
    <2>1. CallEndMessage(u) \in Message /\ CallEndMessage(u).type # "presence_ack"
      BY <1>4 DEF EndCall, CallEndMessage, Message, Typed, TypeOK
    <2>2. InboxJustified(ever)'
      BY <1>4, <2>1, InboxSentJustified DEF EndCall
    <2>3. AppJustified(ever)'
      BY <1>4 DEF EndCall, AppJustified, Typed, TypeOK
    <2> QED BY KeptJustified, <1>4, <2>2, <2>3 DEF EndCall, serverVars
  <1>5. ASSUME NEW r \in Rooms, AnswerCheck(u, r) PROVE Justified'
    <2> DEFINE m == [type |-> "presence_ack", room |-> r,
                     inCall |-> IF app[u] \in NamedRooms THEN app[u] = r ELSE app[u] # None]
    <2>1. m \in Message /\ m.room = r
      BY DEF Message
    <2>2. u \in ever'[r]
      BY <1>5 DEF AnswerCheck, ChecksJustified
    <2>3. inbox' = [inbox EXCEPT ![u] = Append(@, m)]
      BY <1>5 DEF AnswerCheck
    <2>4. InboxJustified(ever)'
      <3> HIDE DEF m
      <3> QED BY <2>1, <2>2, <2>3, InboxSentJustified
    <2>5. ChecksJustified(ever)'
      BY <1>5 DEF AnswerCheck, ChecksJustified
    <2> QED BY KeptJustified, <1>5, <2>4, <2>5 DEF AnswerCheck, serverVars, clientVars
  <1>6. CASE AppCrash(u)
    <2>1. AppJustified(ever)'
      BY <1>6 DEF AppCrash, AppJustified, Typed, TypeOK
    <2> QED BY KeptJustified, <1>6, <2>1 DEF AppCrash, serverVars, wireVars
  <1>7. CASE Connect(u)
    <2>1. LiveJustified(ever)'
      BY <1>7 DEF Connect, LiveJustified, AppJustified, Typed, TypeOK
    <2>2. ListedJustified(ever)'
      BY <1>7 DEF Connect, ListedJustified, Typed, TypeOK, Sweeps
    <2> QED BY KeptJustified, <1>7, <2>1, <2>2 DEF Connect, serverVars, wireVars, clientVars
  <1>8. ASSUME NEW r \in Rooms, Disconnect(u, r) PROVE Justified'
    <2>1. LiveJustified(ever)' /\ ListedJustified(ever)'
      BY <1>8 DEF Disconnect, LiveJustified, ListedJustified, Typed, TypeOK, Sweeps
    <2> QED BY KeptJustified, <1>8, <2>1 DEF Disconnect, serverVars, wireVars, clientVars
  <1> QED BY <1>1, <1>2, <1>3, <1>4, <1>5, <1>6, <1>7, <1>8 DEF ClientNext

LEMMA HandlerStepJustified ==
  ASSUME Typed, Typed', NEW u \in Users, HandlerNext(u), JustifiedIn(ever')
  PROVE  Justified'
  <1> USE DEF Justified, JustifiedIn
  <1>1. CASE AcceptCallAddRoom(u)
    <2>1. JustifiedBy(AddCallRoom(snap, handler[u].room, handler[u].users), ever')
      BY <1>1, AddCallRoomJustified DEF AcceptCallAddRoom, SnapJustified, HandlerJustified
    <2>2. SnapJustified(ever)' /\ HandlerJustified(ever)'
      BY <1>1, <2>1, WriteJustified, IdleJustified DEF AcceptCallAddRoom
    <2> QED BY KeptJustified, <1>1, <2>2 DEF AcceptCallAddRoom, wireVars, clientVars
  <1>2. CASE JoinCallAdd(u)
    <2>1. joining[u].room \in Rooms
      BY <1>2 DEF JoinCallAdd, Typed, TypeOK
    <2>2. u \in ever'[joining[u].room]
      BY <1>2, <2>1 DEF JoinCallAdd, Enter, Admit, Typed, TypeOK
    <2>3. SnapJustified(ever)'
      <3>1. JustifiedBy(AddUserToRoom(snap, joining[u].room, u, FALSE), ever')
        BY <2>2, AddUserToRoomJustified DEF SnapJustified
      <3> QED BY <1>2, <3>1, WriteJustified DEF JoinCallAdd
    <2>4. AppJustified(ever)'
      <3>1. CASE Enter(u, joining[u].room, joining[u].target)
        BY <2>1, <3>1, EnterJustified
      <3>2. CASE UNCHANGED clientVars
        BY KeptJustified, <3>2 DEF clientVars
      <3> QED BY <1>2, <3>1, <3>2 DEF JoinCallAdd
    <2> QED BY KeptJustified, <1>2, <2>3, <2>4 DEF JoinCallAdd, wireVars
  <1>3. ASSUME NEW type, NextMessage(u, type), Received(u)
        PROVE  /\ InboxJustified(ever)'
               /\ type = "presence_ack" => u \in ever'[Head(inbox[u]).room]
    BY <1>3, InboxReceivedJustified DEF NextMessage
  <1>4. CASE EndCallNoRoom(u)
    BY KeptJustified, <1>3, <1>4 DEF EndCallNoRoom, serverVars, clientVars
  <1>5. CASE EndCallInRoom(u)
    <2> PICK r \in RoomsOf(snap, u), f \in {"ok", "write"} :
          /\ Meets(f) /\ Write(RemoveFrom(snap, r, u), f)
          /\ handler' = [handler EXCEPT ![u] =
               IF ~snap[r].named /\ Cardinality(snap[r].users \ {u}) = 1
                 THEN [at |-> "collapse", room |-> Head(inbox[u]).about, users |-> snap[r].users \ {u}]
                 ELSE Idle]
      BY <1>5 DEF EndCallInRoom
    <2>1. r \in DOMAIN snap
      BY DEF RoomsOf
    <2>2. JustifiedBy(RemoveFrom(snap, r, u), ever')
      BY <2>1, RemoveFromJustified DEF Typed, TypeOK, SnapJustified
    <2>3. SnapJustified(ever)'
      BY <2>2, WriteJustified
    <2> DEFINE h == IF ~snap[r].named /\ Cardinality(snap[r].users \ {u}) = 1
                      THEN [at |-> "collapse", room |-> Head(inbox[u]).about, users |-> snap[r].users \ {u}]
                      ELSE Idle
    <2>4. h.at \notin {"addRoom", "materialize", "clear"}
      BY DEF Idle
    <2>5. HandlerJustified(ever)'
      <3>1. handler' = [handler EXCEPT ![u] = h]
        OBVIOUS
      <3> HIDE DEF h
      <3> QED BY <2>4, <3>1, MovedJustified
    <2>6. InboxJustified(ever)'
      BY <1>3, <1>5 DEF EndCallInRoom
    <2> QED BY KeptJustified, <1>5, <2>3, <2>5, <2>6 DEF EndCallInRoom, clientVars
  <1>6. CASE EndCallCollapse(u)
    <2>1. SnapJustified(ever)' /\ HandlerJustified(ever)'
      BY <1>6, RemovesJustified, IdleJustified DEF EndCallCollapse
    <2> QED BY KeptJustified, <1>6, <2>1 DEF EndCallCollapse, clientVars
  <1>7. ASSUME NEW r \in Rooms, LeaveRoom(u, r) PROVE Justified'
    <2>1. SnapJustified(ever)'
      BY <1>7, RemovesJustified DEF LeaveRoom
    <2> QED BY KeptJustified, <1>7, <2>1 DEF LeaveRoom, clientVars
  <1>8. CASE AckNotInCall(u)
    BY KeptJustified, <1>3, <1>8 DEF AckNotInCall, serverVars, clientVars
  <1>9. CASE AckGetPending(u)
    <2> DEFINE r == Head(inbox[u]).room
               stashed == IF pending[r] = None THEN {} ELSE pending[r]
               h == [at |-> "materialize", room |-> r, users |-> stashed \cup {u}]
    <2>1. InboxJustified(ever)' /\ u \in ever'[r]
      BY <1>3, <1>9 DEF AckGetPending
    <2>2. r \in Rooms
      BY <1>9, ReceivedType DEF AckGetPending, NextMessage, Message, Typed, TypeOK
    <2>3. h.users \subseteq ever'[h.room]
      BY <2>1, <2>2 DEF PendingJustified
    <2>4. HandlerJustified(ever)'
      <3>1. CASE handler' = [handler EXCEPT ![u] = h]
        <4> HIDE DEF h
        <4> QED BY <2>3, <3>1, MovedJustified
      <3> QED BY KeptJustified, <1>9, <3>1 DEF AckGetPending
    <2> QED BY KeptJustified, <1>9, <2>1, <2>4 DEF AckGetPending, clientVars
  <1>10. CASE AckMaterialize(u)
    <2> PICK f \in {"ok", "db", "write"} :
          /\ Meets(f)
          /\ Write(MaterializeRoom(snap, handler[u].room, handler[u].users, f # "db"), f)
          /\ handler' = [handler EXCEPT ![u] = IF f = "write" THEN Idle ELSE [@ EXCEPT !.at = "clear"]]
      BY <1>10 DEF AckMaterialize
    <2>1. handler[u].users \subseteq ever'[handler[u].room]
      BY <1>10 DEF AckMaterialize, HandlerJustified
    <2>2. SnapJustified(ever)'
      BY <2>1, MaterializeRoomJustified, WriteJustified DEF SnapJustified
    <2> DEFINE h == IF f = "write" THEN Idle ELSE [handler[u] EXCEPT !.at = "clear"]
    <2>3. h.at \in {"addRoom", "materialize", "clear"} => h.users \subseteq ever'[h.room]
      <3>1. handler[u] \in HandlerState
        BY DEF Typed, TypeOK
      <3> QED BY <2>1, <3>1 DEF HandlerState, Idle
    <2>4. HandlerJustified(ever)'
      <3>1. handler' = [handler EXCEPT ![u] = h]
        BY DEF Typed, TypeOK
      <3> HIDE DEF h
      <3> QED BY <2>3, <3>1, MovedJustified
    <2> QED BY KeptJustified, <1>10, <2>2, <2>4 DEF AckMaterialize, wireVars, clientVars
  <1>11. CASE AckClearPending(u)
    <2>1. PendingJustified(ever)'
      BY <1>11 DEF AckClearPending, PendingJustified, Typed, TypeOK
    <2> QED BY KeptJustified, <1>11, <2>1, IdleJustified DEF AckClearPending, wireVars, clientVars
  <1> QED BY <1>1, <1>2, <1>4, <1>5, <1>6, <1>7, <1>8, <1>9, <1>10, <1>11 DEF HandlerNext

LEMMA SweepJustified ==
  ASSUME Typed, Typed', SweepNext \/ EnvironmentNext, JustifiedIn(ever')
  PROVE  Justified'
  <1> USE DEF Justified, JustifiedIn
  <1>a. sweep' = NoSweep => ListedJustified(ever)'
    BY DEF NoSweep, ListedJustified
  <1>1. CASE ListRoomsFails
    BY KeptJustified, <1>1 DEF ListRoomsFails, wireVars, clientVars
  <1>2. CASE ListRooms
    <2>1. ListedJustified(ever)'
      BY <1>2 DEF ListRooms, NoSweep, ListedJustified
    <2> QED BY KeptJustified, <1>2, <2>1 DEF ListRooms, serverVars, wireVars, clientVars
  <1>3. ASSUME NEW r \in Rooms, ListRoomMembers(r) PROVE Justified'
    <2>1. ListedJustified(ever)'
      <3>1. CASE sweep' = [sweep EXCEPT !.todo = @ \ {r}, !.listed[r] = live[r]]
        BY <3>1 DEF ListedJustified, LiveJustified, Typed, TypeOK, Sweeps
      <3>2. CASE sweep' = [sweep EXCEPT !.todo = @ \ {r}, !.errored = @ \cup {r}]
        BY <3>2 DEF ListedJustified, Typed, TypeOK, Sweeps
      <3> QED BY <1>3, <3>1, <3>2 DEF ListRoomMembers
    <2> QED BY KeptJustified, <1>3, <2>1 DEF ListRoomMembers, serverVars, wireVars, clientVars
  <1>4. CASE Apply
    <2> PICK f \in {"ok", "db", "read", "pending", "write"} :
          LET asked == IF f \in {"read", "pending"} THEN {} ELSE Candidates IN
          /\ Meets(f)
          /\ pending' = [r \in Rooms |-> IF r \in asked THEN sweep.listed[r] ELSE pending[r]]
          /\ checks' = checks \cup Pings(asked)
          /\ IF f \in {"read", "write"}
               THEN UNCHANGED snap /\ MissTick
               ELSE snap' = Reconciled(snap, sweep.listed, sweep.errored, f # "db") /\ missed' = 0
      BY <1>4 DEF Apply
    <2> DEFINE asked == IF f \in {"read", "pending"} THEN {} ELSE Candidates
    <2>1. asked \subseteq Rooms
      BY DEF Candidates, Unvalidated, LiveRooms
    <2>2. PendingJustified(ever)'
      <3>1. pending' = [r \in Rooms |-> IF r \in asked THEN sweep.listed[r] ELSE pending[r]]
        OBVIOUS
      <3> HIDE DEF asked
      <3> QED BY <3>1 DEF PendingJustified, ListedJustified
    <2>3. ChecksJustified(ever)'
      <3>1. checks' = checks \cup Pings(asked)
        OBVIOUS
      <3> HIDE DEF asked
      <3>2. \A c \in Pings(asked) : c[1] \in ever'[c[2]]
        BY <2>1 DEF Pings, ListedJustified
      <3> QED BY <3>1, <3>2 DEF ChecksJustified
    <2>4. SnapJustified(ever)'
      <3>1. JustifiedBy(Reconciled(snap, sweep.listed, sweep.errored, f # "db"), ever')
        BY ReconciledJustified DEF SnapJustified, ListedJustified
      <3> QED BY KeptJustified, <3>1 DEF SnapJustified
    <2> QED BY KeptJustified, <1>a, <1>4, <2>2, <2>3, <2>4 DEF Apply, clientVars
  <1>5. ASSUME NEW r \in Rooms, PendingExpires(r) PROVE Justified'
    <2>1. PendingJustified(ever)'
      BY <1>5 DEF PendingExpires, PendingJustified, Typed, TypeOK
    <2> QED BY KeptJustified, <1>5, <2>1 DEF PendingExpires, wireVars, clientVars
  <1>6. CASE SnapshotExpires
    <2>1. SnapJustified(ever)'
      BY <1>6 DEF SnapshotExpires, NoRooms, SnapJustified, JustifiedBy
    <2> QED BY KeptJustified, <1>6, <2>1 DEF SnapshotExpires, wireVars, clientVars
  <1>7. CASE LoseMessage
    <2>1. ChecksJustified(ever)'
      BY <1>7 DEF LoseMessage, ChecksJustified
    <2> QED BY KeptJustified, <1>7, <2>1 DEF LoseMessage, serverVars, clientVars
  <1>8. CASE Restart
    <2>1. HandlerJustified(ever)' /\ InboxJustified(ever)' /\ ChecksJustified(ever)'
      BY <1>8 DEF Restart, Idle, HandlerJustified, InboxJustified, AcksJustified, ChecksJustified
    <2> QED BY KeptJustified, <1>a, <1>8, <2>1 DEF Restart, clientVars
  <1>9. ASSUME NEW end \in callEnds, ReceiveCallEnd(end) PROVE Justified'
    <2>1. AppJustified(ever)'
      BY <1>9 DEF ReceiveCallEnd, AppJustified, Typed, TypeOK
    <2> QED BY KeptJustified, <1>9, <2>1 DEF ReceiveCallEnd, serverVars
  <1> QED BY <1>1, <1>2, <1>3, <1>4, <1>5, <1>6, <1>7, <1>8, <1>9 DEF SweepNext, EnvironmentNext

LEMMA NextJustified == Typed /\ Justified /\ [Next]_vars => Justified'
  <1> SUFFICES ASSUME Typed, Justified, [Next]_vars PROVE Justified'
    OBVIOUS
  <1>1. CASE Next
    <2>1. JustifiedIn(ever')
      BY <1>1, EverGrows, JustifiedGrows
    <2> QED BY <1>1, <2>1, NextTyped, ClientJustified, HandlerStepJustified, SweepJustified DEF Next
  <1>2. CASE UNCHANGED vars
    BY <1>2 DEF vars, Justified, JustifiedIn, SnapJustified, LiveJustified, ListedJustified,
                PendingJustified, AppJustified, HandlerJustified, InboxJustified,
                ChecksJustified, AcksJustified, JustifiedBy
  <1> QED BY <1>1, <1>2

\* Presence never invents a member: whoever the snapshot shows in a room was once admitted
\* to it, whatever stale listing, pending record or late acknowledgement it came from.
THEOREM NobodyIsInvented == Spec => []MembersJustified
  <1>1. Justified => MembersJustified
    BY DEF Justified, JustifiedIn, SnapJustified, JustifiedBy, MembersJustified
  <1> QED BY <1>1, InitTyped, NextTyped, InitJustified, NextJustified, PTL DEF Spec

--------------------------------------------------------------------------------
(* What a sweep knows of a room it lists outside the lock. *)

\* A room has a list once it was asked for, and not when asking failed.
ListsOnce ==
    /\ sweep.todo \cap sweep.errored = {}
    /\ \A r \in sweep.todo \cup sweep.errored : sweep.listed[r] = {}

\* Whoever stayed is connected, and whoever was listed, or is connected now, was seen.
HistoryIsTrue ==
    \A r \in Rooms :
      /\ sweep.stayed[r] \subseteq live[r]
      /\ sweep.listed[r] \subseteq sweep.seen[r]
      /\ sweep.at = "listing" => live[r] \subseteq sweep.seen[r]

\* A room that was listed, or that had nobody when the sweep began, misses nobody who stayed.
NobodyIsMissed ==
    \A r \in Rooms \ (sweep.todo \cup sweep.errored) : sweep.stayed[r] \subseteq sweep.listed[r]

SweepTracks == ListsOnce /\ HistoryIsTrue /\ NobodyIsMissed

LEMMA FreshSweepTracks ==
  /\ sweep = NoSweep => SweepTracks
  /\ sweep' = NoSweep => SweepTracks'
  BY DEF NoSweep, SweepTracks, ListsOnce, HistoryIsTrue, NobodyIsMissed

LEMMA NextTracks == Typed /\ SweepTracks /\ [Next]_vars => SweepTracks'
  <1> SUFFICES ASSUME Typed, SweepTracks, [Next]_vars PROVE SweepTracks'
    OBVIOUS
  <1> USE DEF SweepTracks, ListsOnce, HistoryIsTrue, NobodyIsMissed
  <1>0. /\ sweep \in Sweeps /\ live \in [Rooms -> SUBSET Users]
        /\ app \in [Users -> Rooms \cup {None}]
    BY DEF Typed, TypeOK
  <1>1. ASSUME UNCHANGED <<sweep, live>> PROVE SweepTracks'
    BY <1>1
  <1>2. ASSUME NEW u \in Users, Connect(u) PROVE SweepTracks'
    <2>1. app[u] \in Rooms /\ live' = [live EXCEPT ![app[u]] = @ \cup {u}]
      BY <1>0, <1>2 DEF Connect
    <2>2. CASE sweep.at = "idle"
      <3>1. sweep' = sweep
        BY <1>2, <2>2 DEF Connect
      <3> QED BY <1>0, <2>1, <2>2, <3>1
    <2>3. CASE sweep.at # "idle"
      <3>1. sweep' = [sweep EXCEPT !.seen[app[u]] = @ \cup {u}]
        BY <1>2, <2>3 DEF Connect
      <3> QED BY <1>0, <2>1, <3>1 DEF Sweeps
    <2> QED BY <2>2, <2>3
  <1>3. ASSUME NEW u \in Users, NEW r \in Rooms, Disconnect(u, r) PROVE SweepTracks'
    BY <1>0, <1>3 DEF Disconnect, Sweeps
  <1>4. CASE ListRooms
    BY <1>0, <1>4 DEF ListRooms, NoSweep
  <1>5. ASSUME NEW r \in Rooms, ListRoomMembers(r) PROVE SweepTracks'
    <2>1. CASE sweep' = [sweep EXCEPT !.todo = @ \ {r}, !.listed[r] = live[r]]
      BY <1>0, <1>5, <2>1 DEF ListRoomMembers, Sweeps
    <2>2. CASE sweep' = [sweep EXCEPT !.todo = @ \ {r}, !.errored = @ \cup {r}]
      BY <1>0, <1>5, <2>2 DEF ListRoomMembers, Sweeps
    <2> QED BY <1>5, <2>1, <2>2 DEF ListRoomMembers
  <1>6. CASE Apply \/ Restart
    BY <1>6, FreshSweepTracks DEF Apply, Restart
  <1>7. ASSUME NEW u \in Users, ClientNext(u) PROVE SweepTracks'
    BY <1>1, <1>2, <1>3, <1>7
       DEF ClientNext, AcceptCall, JoinRoom, JoinCallRead, EndCall, AnswerCheck, AppCrash
  <1>8. ASSUME NEW u \in Users, HandlerNext(u) PROVE SweepTracks'
    BY <1>1, <1>8
       DEF HandlerNext, AcceptCallAddRoom, JoinCallAdd, EndCallNoRoom, EndCallInRoom,
           EndCallCollapse, LeaveRoom, AckNotInCall, AckGetPending, AckMaterialize, AckClearPending
  <1>9. CASE SweepNext
    BY <1>1, <1>4, <1>5, <1>6, <1>9 DEF SweepNext, ListRoomsFails
  <1>10. CASE EnvironmentNext
    BY <1>1, <1>6, <1>10
       DEF EnvironmentNext, PendingExpires, SnapshotExpires, LoseMessage, ReceiveCallEnd
  <1>11. CASE UNCHANGED vars
    BY <1>1, <1>11 DEF vars
  <1> QED BY <1>7, <1>8, <1>9, <1>10, <1>11 DEF Next

\* What the locked part of a sweep writes, when it writes.
LEMMA AppliedSnapshot ==
  ASSUME Apply, snap' # snap
  PROVE  /\ sweep.todo = {}
         /\ \E dbUp \in BOOLEAN : snap' = Reconciled(snap, sweep.listed, sweep.errored, dbUp)
  BY DEF Apply

\* Although it lists LiveKit outside the lock, a sweep adds no room, leaves alone a room
\* it could not list, and in every other room keeps whoever was connected during the whole
\* sweep and shows nobody who was connected at no moment of it.
THEOREM SweepsAreBounded == Spec => SweepIsBounded
  <1> DEFINE Bounded(r) ==
        /\ r \in DOMAIN snap' => r \in DOMAIN snap
        /\ r \in sweep.errored => Members(snap', r) = Members(snap, r)
        /\ snap' # snap /\ r \in DOMAIN snap \ sweep.errored =>
             /\ sweep.stayed[r] \subseteq Members(snap', r)
             /\ Members(snap', r) \subseteq sweep.seen[r]
  <1>1. Init => SweepTracks
    BY FreshSweepTracks DEF Init
  <1>2. ASSUME Typed, SweepTracks, Apply PROVE \A r \in Rooms : Bounded(r)
    <2>1. CASE snap' = snap
      BY <2>1
    <2>2. CASE snap' # snap
      <3> PICK dbUp \in BOOLEAN : snap' = Reconciled(snap, sweep.listed, sweep.errored, dbUp)
        BY <1>2, <2>2, AppliedSnapshot
      <3>1. sweep.todo = {}
        BY <1>2, <2>2, AppliedSnapshot
      <3>2. SUFFICES ASSUME NEW r \in Rooms PROVE Bounded(r)
        OBVIOUS
      <3>3. /\ DOMAIN snap' = DOMAIN snap \cap (LiveRooms(sweep.listed) \cup sweep.errored)
            /\ r \in DOMAIN snap' =>
                 snap'[r] = IF r \in LiveRooms(sweep.listed)
                              THEN [named |-> snap[r].named \/ Resolved(r, dbUp),
                                    users |-> sweep.listed[r]]
                              ELSE snap[r]
        BY DEF Reconciled
      <3>4. CASE r \in sweep.errored
        <4>1. r \notin LiveRooms(sweep.listed)
          BY <1>2, <3>4 DEF SweepTracks, ListsOnce, LiveRooms
        <4> QED BY <3>3, <3>4, <4>1 DEF Members
      <3>5. CASE r \notin sweep.errored
        <4>1. Members(snap', r) = IF r \in DOMAIN snap THEN sweep.listed[r] ELSE {}
          BY <3>3, <3>5 DEF Members, LiveRooms
        <4>2. sweep.stayed[r] \subseteq sweep.listed[r] /\ sweep.listed[r] \subseteq sweep.seen[r]
          BY <1>2, <3>1, <3>5 DEF SweepTracks, NobodyIsMissed, HistoryIsTrue
        <4> QED BY <3>3, <3>5, <4>1, <4>2
      <3> QED BY <3>4, <3>5
    <2> QED BY <2>1, <2>2
  <1>3. Typed /\ SweepTracks /\ [Next]_vars => [Apply => \A r \in Rooms : Bounded(r)]_vars
    BY <1>2
  <1>4. Spec => [][Apply => \A r \in Rooms : Bounded(r)]_vars
    BY <1>1, <1>3, InitTyped, NextTyped, NextTracks, PTL DEF Spec
  <1> QED BY <1>4 DEF SweepIsBounded

==============================================================================
