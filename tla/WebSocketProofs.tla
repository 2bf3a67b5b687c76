----------------------------- MODULE WebSocketProofs -----------------------------
(***************************************************************************)
(* Theorems about the backend's WebSocket.                                 *)
(*                                                                         *)
(* Ringing (CallRing): every variable keeps its type, and no direction of  *)
(* a pair of users gets more rooms than it had calls.                      *)
(*                                                                         *)
(* The connections (WsConnection): a live desktop is never cut off by its  *)
(* own connection's goroutines.                                            *)
(***************************************************************************)
EXTENDS MCWebSocket, SequenceTheorems, TLAPS

--------------------------------------------------------------------------------
(* The snapshot that ringing and hanging up change stays a snapshot. *)

LEMMA SnapshotEntries ==
    ASSUME NEW s \in Snapshots
    PROVE  /\ DOMAIN s \subseteq Rooms
           /\ \A r \in DOMAIN s : s[r] \in RoomPresence
  BY DEF Snapshots

LEMMA NoRoomsType == NoRooms \in Snapshots
  <1>1. NoRooms \in [{} -> RoomPresence]
    BY DEF NoRooms
  <1> QED BY <1>1 DEF Snapshots

LEMMA AddCallRoomType ==
    ASSUME NEW s \in Snapshots, NEW r \in Rooms, NEW us \in SUBSET Users
    PROVE  AddCallRoom(s, r, us) \in Snapshots
  <1>1. [named |-> FALSE, users |-> Members(s, r) \cup us] \in RoomPresence
    BY SnapshotEntries DEF Members, RoomPresence
  <1>2. AddCallRoom(s, r, us) \in [DOMAIN s \cup {r} -> RoomPresence]
    BY <1>1, SnapshotEntries DEF AddCallRoom, Put
  <1> QED BY <1>2, SnapshotEntries DEF Snapshots

LEMMA RemoveFromType ==
    ASSUME NEW s \in Snapshots, NEW r \in DOMAIN s, NEW u
    PROVE  RemoveFrom(s, r, u) \in Snapshots
  <1>1. [s[r] EXCEPT !.users = @ \ {u}] \in RoomPresence
    BY SnapshotEntries DEF RoomPresence
  <1>2. /\ Drop(s, r) \in [DOMAIN s \ {r} -> RoomPresence]
        /\ Put(s, r, [s[r] EXCEPT !.users = @ \ {u}]) \in [DOMAIN s \cup {r} -> RoomPresence]
    BY <1>1, SnapshotEntries DEF Drop, Put
  <1>3. DOMAIN s \ {r} \subseteq Rooms /\ DOMAIN s \cup {r} \subseteq Rooms
    BY SnapshotEntries
  <1> QED BY <1>2, <1>3 DEF RemoveFrom, Snapshots

--------------------------------------------------------------------------------
(* Channels. *)

\* A read loop takes a well-formed message and leaves well-formed ones.
LEMMA ReadsType ==
    ASSUME TypeOK, NEW u \in Users, NEW type, Reads(u, type)
    PROVE  /\ handler[u] = None
           /\ Head(inbox[u]) \in ToServer /\ Head(inbox[u]).user \in Users
           /\ Head(inbox[u]).type = type
           /\ inbox' \in [Users -> Seq(ToServer)]
  <1>1. inbox[u] \in Seq(ToServer) /\ inbox[u] # <<>>
    BY DEF TypeOK, Reads
  <1>2. Head(inbox[u]) \in ToServer /\ Tail(inbox[u]) \in Seq(ToServer)
    BY <1>1, HeadTailProperties
  <1>3. inbox' \in [Users -> Seq(ToServer)]
    BY <1>2 DEF TypeOK, Reads
  <1> QED BY <1>2, <1>3 DEF Reads, ToServer

\* The same for a client taking a message from its channel.
LEMMA ReceivesType ==
    ASSUME TypeOK, NEW u \in Users, NEW type, Receives(u, type)
    PROVE  /\ Head(outbox[u]) \in ToClient /\ Head(outbox[u]).user \in Users
           /\ Head(outbox[u]).type = type
           /\ outbox' \in [Users -> Seq(ToClient)]
  <1>1. outbox[u] \in Seq(ToClient) /\ outbox[u] # <<>>
    BY DEF TypeOK, Receives
  <1>2. Head(outbox[u]) \in ToClient /\ Tail(outbox[u]) \in Seq(ToClient)
    BY <1>1, HeadTailProperties
  <1>3. outbox' \in [Users -> Seq(ToClient)]
    BY <1>2 DEF TypeOK, Receives
  <1> QED BY <1>2, <1>3 DEF Receives, ToClient

LEMMA SendsType ==
    ASSUME TypeOK, NEW u \in Users, NEW m \in ToServer, Sends(u, <<m>>)
    PROVE  inbox' \in [Users -> Seq(ToServer)]
  <1>1. <<m>> \in Seq(ToServer) /\ inbox[u] \in Seq(ToServer)
    BY DEF TypeOK
  <1>2. inbox[u] \o <<m>> \in Seq(ToServer)
    BY <1>1, ConcatProperties
  <1> QED BY <1>2 DEF TypeOK, Sends

LEMMA PublishesType ==
    ASSUME TypeOK, NEW u \in Users, NEW m \in ToClient, Publishes(u, m)
    PROVE  outbox' \in [Users -> Seq(ToClient)]
  <1>1. outbox[u] \in Seq(ToClient)
    BY DEF TypeOK
  <1>2. Append(outbox[u], m) \in Seq(ToClient)
    BY <1>1, AppendProperties
  <1> QED BY <1>2 DEF TypeOK, Publishes

LEMMA WritesType ==
    ASSUME TypeOK, NEW u \in Users, NEW m \in ToClient, Writes(u, m)
    PROVE  outbox' \in [Users -> Seq(ToClient)]
  <1>1. PICK i \in 0..Len(outbox[u]) :
          outbox' = [outbox EXCEPT ![u] = SubSeq(@, 1, i) \o <<m>> \o SubSeq(@, i + 1, Len(@))]
    BY DEF Writes
  <1>2. outbox \in [Users -> Seq(ToClient)] /\ outbox[u] \in Seq(ToClient)
    BY DEF TypeOK
  <1>3. Len(outbox[u]) \in Nat /\ i \in Nat /\ i <= Len(outbox[u])
    BY <1>2
  <1>4. SubSeq(outbox[u], 1, i) \in Seq(ToClient)
    BY <1>2, <1>3
  <1>5. SubSeq(outbox[u], i + 1, Len(outbox[u])) \in Seq(ToClient)
    BY <1>2, <1>3
  <1>6. SubSeq(outbox[u], 1, i) \o <<m>> \in Seq(ToClient)
    BY <1>4
  <1>7. SubSeq(outbox[u], 1, i) \o <<m>> \o SubSeq(outbox[u], i + 1, Len(outbox[u]))
          \in Seq(ToClient)
    BY <1>5, <1>6
  <1> QED BY <1>1, <1>2, <1>7

LEMMA MessageTypes ==
    ASSUME NEW u \in Users
    PROVE  /\ \A type \in {"call_request", "call_accept", "call_reject", "call_end"} :
                Msg(type, u) \in ToServer
           /\ \A type \in {"incoming_call", "call_reject", "callee_offline", "call_end"} :
                Msg(type, u) \in ToClient
           /\ \A r \in Rooms : Tokens(u, r) \in ToClient
  BY DEF Msg, Tokens, ToServer, ToClient

\* A handler in the middle of a request or an accept knows whose.
LEMMA HandlingUser ==
    ASSUME TypeOK, NEW u \in Users, InRequest(u) \/ InAccept(u)
    PROVE  handler[u] \in Handling /\ handler[u].user \in Users
  BY DEF TypeOK, InRequest, InAccept, Handling

\* Counting keeps a history's type, in a direction that exists or not.
LEMMA CountType ==
    ASSUME NEW h \in [Directions -> Nat], NEW d
    PROVE  Count(h, d) \in [Directions -> Nat]
  <1>1. \A e \in Directions : h[e] \in Nat /\ h[e] + 1 \in Nat
    OBVIOUS
  <1>2. DOMAIN Count(h, d) = Directions
    BY DEF Count
  <1>3. \A e \in Directions : Count(h, d)[e] = IF e = d THEN h[e] + 1 ELSE h[e]
    BY DEF Count
  <1>4. Count(h, d) = [e \in Directions |-> Count(h, d)[e]]
    BY <1>2 DEF Count
  <1> QED BY <1>1, <1>3, <1>4

--------------------------------------------------------------------------------
(* Types. *)

LEMMA InitType == Init => TypeOK
  <1> SUFFICES ASSUME Init PROVE TypeOK
    OBVIOUS
  <1>1. snap \in Snapshots
    BY NoRoomsType DEF Init
  <1>2. <<>> \in Seq(ToServer) /\ <<>> \in Seq(ToClient)
    BY EmptySeq
  <1> QED BY <1>1, <1>2 DEF Init, TypeOK

LEMMA NextType == TypeOK /\ [Next]_vars => TypeOK'
  <1> SUFFICES ASSUME TypeOK, [Next]_vars PROVE TypeOK'
    OBVIOUS
  <1>1. ASSUME NEW u \in Users, NEW callee \in Users, CallUser(u, callee) PROVE TypeOK'
    <2>1. inbox' \in [Users -> Seq(ToServer)]
      BY <1>1, SendsType, MessageTypes DEF CallUser
    <2>2. calls' \in Nat /\ calling' \in [Users -> Users \cup {None}]
      BY <1>1 DEF CallUser, TypeOK
    <2>3. UNCHANGED <<record, snap, used, handler, outbox, banner, answering, app, peer, history>>
      BY <1>1 DEF CallUser
    <2> QED BY <2>1, <2>2, <2>3 DEF TypeOK, history
  <1>2. ASSUME NEW u \in Users, StopCalling(u) PROVE TypeOK'
    <2>1. calling[u] \in Users
      BY <1>2 DEF StopCalling, TypeOK
    <2>2. inbox' \in [Users -> Seq(ToServer)]
      BY <1>2, <2>1, SendsType, MessageTypes DEF StopCalling
    <2> QED BY <1>2, <2>2 DEF StopCalling, TypeOK, history
  <1>3. ASSUME NEW u \in Users, ReceiveNoAnswer(u) PROVE TypeOK'
    <2>1. outbox' \in [Users -> Seq(ToClient)]
      BY <1>3, ReceivesType DEF ReceiveNoAnswer
    <2> QED BY <1>3, <2>1 DEF ReceiveNoAnswer, TypeOK, history
  <1>4. ASSUME NEW u \in Users, ReceiveIncomingCall(u) PROVE TypeOK'
    <2>1. Head(outbox[u]).user \in Users /\ outbox' \in [Users -> Seq(ToClient)]
      BY <1>4, ReceivesType DEF ReceiveIncomingCall
    <2>2. inbox' \in [Users -> Seq(ToServer)]
      BY <1>4, <2>1, SendsType, MessageTypes DEF ReceiveIncomingCall, TypeOK
    <2>3. banner' \in [Users -> Users \cup {None}] /\ app' \in [Users -> Rooms \cup {None}]
      BY <1>4, <2>1 DEF ReceiveIncomingCall, TypeOK
    <2> QED BY <1>4, <2>1, <2>2, <2>3 DEF ReceiveIncomingCall, TypeOK, history
  <1>5. ASSUME NEW u \in Users, Answer(u) PROVE TypeOK'
    <2>1. banner[u] \in Users
      BY <1>5 DEF Answer, TypeOK
    <2>2. inbox' \in [Users -> Seq(ToServer)]
      BY <1>5, <2>1, SendsType, MessageTypes DEF Answer
    <2> QED BY <1>5, <2>1, <2>2 DEF Answer, TypeOK, history
  <1>6. ASSUME NEW u \in Users, Reject(u) PROVE TypeOK'
    <2>1. banner[u] \in Users
      BY <1>6 DEF Reject, TypeOK
    <2>2. inbox' \in [Users -> Seq(ToServer)]
      BY <1>6, <2>1, SendsType, MessageTypes DEF Reject
    <2> QED BY <1>6, <2>2 DEF Reject, TypeOK, history
  <1>7. ASSUME NEW u \in Users, AnswerTimeout(u) PROVE TypeOK'
    <2>1. answering[u] \in Users
      BY <1>7 DEF AnswerTimeout, TypeOK
    <2>2. inbox' \in [Users -> Seq(ToServer)]
      BY <1>7, <2>1, SendsType, MessageTypes DEF AnswerTimeout
    <2> QED BY <1>7, <2>2 DEF AnswerTimeout, TypeOK, history
  <1>8. ASSUME NEW u \in Users, ReceiveTokens(u) PROVE TypeOK'
    <2>1. /\ Head(outbox[u]) \in ToClient /\ Head(outbox[u]).user \in Users
          /\ Head(outbox[u]).type = "call_tokens"
          /\ outbox' \in [Users -> Seq(ToClient)]
      BY <1>8, ReceivesType DEF ReceiveTokens
    <2>2. Head(outbox[u]).room \in Rooms
      BY <2>1 DEF ToClient
    <2>3. app' \in [Users -> Rooms \cup {None}] /\ peer' \in [Users -> Users]
      BY <1>8, <2>1, <2>2 DEF ReceiveTokens, TypeOK
    <2>4. banner' \in [Users -> Users \cup {None}]
      BY <1>8 DEF ReceiveTokens, TypeOK
    <2> QED BY <1>8, <2>1, <2>3, <2>4 DEF ReceiveTokens, TypeOK, history
  <1>9. ASSUME NEW u \in Users, ReceiveCallEnd(u) PROVE TypeOK'
    <2>1. outbox' \in [Users -> Seq(ToClient)]
      BY <1>9, ReceivesType DEF ReceiveCallEnd
    <2> QED BY <1>9, <2>1 DEF ReceiveCallEnd, TypeOK, history
  <1>10. ASSUME NEW u \in Users, HangUp(u) PROVE TypeOK'
    <2>1. inbox' \in [Users -> Seq(ToServer)]
      BY <1>10, SendsType, MessageTypes DEF HangUp, TypeOK
    <2> QED BY <1>10, <2>1 DEF HangUp, TypeOK, history
  <1>11. ASSUME NEW u \in Users, RequestCall(u) PROVE TypeOK'
    <2> DEFINE callee == Head(inbox[u]).user
    <2>1. callee \in Users /\ inbox' \in [Users -> Seq(ToServer)]
      BY <1>11, ReadsType DEF RequestCall
    <2>2. outbox' \in [Users -> Seq(ToClient)]
      BY <1>11, <2>1, WritesType, MessageTypes DEF RequestCall, TypeOK
    <2>3. record' \in [Pairs -> Users \cup {None}]
      BY ZenonT(60), <1>11 DEF RequestCall, TypeOK
    <2>4. rung' \in [Directions -> Nat]
      <3>1. rung' = Count(rung, <<u, callee>>) \/ rung' = rung
        BY <1>11 DEF RequestCall
      <3>2. rung \in [Directions -> Nat]
        BY DEF TypeOK
      <3>3. Count(rung, <<u, callee>>) \in [Directions -> Nat]
        BY <3>2, CountType
      <3> QED BY <3>1, <3>2, <3>3
    <2>5. handler' \in [Users -> Handling \cup {None}]
      <3>1. [op |-> "request", user |-> callee] \in Handling
        BY <2>1 DEF Handling
      <3>2. \/ handler' = [handler EXCEPT ![u] = [op |-> "request", user |-> callee]]
            \/ handler' = handler
        BY <1>11 DEF RequestCall
      <3>3. handler \in [Users -> Handling \cup {None}]
        BY DEF TypeOK
      <3> HIDE DEF callee
      <3> QED BY <3>1, <3>2, <3>3
    <2> QED BY <1>11, <2>1, <2>2, <2>3, <2>4, <2>5 DEF RequestCall, TypeOK, client
  <1>12. ASSUME NEW u \in Users, RefuseCall(u) PROVE TypeOK'
    <2>1. handler[u].user \in Users
      BY <1>12, HandlingUser DEF RefuseCall
    <2>2. outbox' \in [Users -> Seq(ToClient)]
      BY <1>12, <2>1, WritesType, MessageTypes DEF RefuseCall, TypeOK
    <2>3. record' \in [Pairs -> Users \cup {None}]
      BY <1>12 DEF RefuseCall, Released, TypeOK
    <2> QED BY <1>12, <2>2, <2>3 DEF RefuseCall, Returns, TypeOK, client, history
  <1>13. ASSUME NEW u \in Users, RingCallee(u) PROVE TypeOK'
    <2>1. handler[u].user \in Users
      BY <1>13, HandlingUser DEF RingCallee
    <2>2. outbox' \in [Users -> Seq(ToClient)]
      BY <1>13, <2>1, PublishesType, MessageTypes DEF RingCallee
    <2> QED BY <1>13, <2>2 DEF RingCallee, Returns, TypeOK, client, history
  <1>14. ASSUME NEW u \in Users, RejectCall(u) PROVE TypeOK'
    <2>1. Head(inbox[u]).user \in Users /\ inbox' \in [Users -> Seq(ToServer)]
      BY <1>14, ReadsType DEF RejectCall
    <2>2. outbox' \in [Users -> Seq(ToClient)]
      BY <1>14, <2>1, PublishesType, MessageTypes DEF RejectCall
    <2>3. record' \in [Pairs -> Users \cup {None}]
      BY <1>14 DEF RejectCall, Released, TypeOK
    <2> QED BY <1>14, <2>1, <2>2, <2>3 DEF RejectCall, TypeOK, client, history
  <1>15. ASSUME NEW u \in Users, ConsumePendingCall(u) PROVE TypeOK'
    <2>1. Head(inbox[u]).user \in Users /\ inbox' \in [Users -> Seq(ToServer)]
      BY <1>15, ReadsType DEF ConsumePendingCall
    <2>2. record' \in [Pairs -> Users \cup {None}]
      BY <1>15 DEF ConsumePendingCall, Released, TypeOK
    <2>3. handler' \in [Users -> Handling \cup {None}]
      BY <1>15, <2>1 DEF ConsumePendingCall, TypeOK, Handling
    <2> QED BY <1>15, <2>1, <2>2, <2>3 DEF ConsumePendingCall, TypeOK, client, history
  <1>16. ASSUME NEW u \in Users, MintTokens(u) PROVE TypeOK'
    <2> DEFINE caller == handler[u].user
    <2>1. caller \in Users
      BY <1>16, HandlingUser DEF MintTokens
    <2>2. PICK r \in Rooms \ used :
            /\ used' = used \cup {r}
            /\ outbox' = [outbox EXCEPT ![caller] = Append(@, Tokens(u, r)),
                                        ![u] = Append(@, Tokens(caller, r))]
            /\ snap' = AddCallRoom(snap, r, {u, caller})
      BY <1>16 DEF MintTokens
    <2>3. snap' \in Snapshots
      BY <2>1, <2>2, AddCallRoomType DEF TypeOK
    <2>4. outbox' \in [Users -> Seq(ToClient)]
      <3>1. Tokens(u, r) \in ToClient /\ Tokens(caller, r) \in ToClient
        BY <2>1, MessageTypes
      <3>2. \A s \in Seq(ToClient) :
              Append(s, Tokens(u, r)) \in Seq(ToClient) /\ Append(s, Tokens(caller, r)) \in Seq(ToClient)
        BY <3>1, AppendProperties
      <3>3. outbox \in [Users -> Seq(ToClient)]
        BY DEF TypeOK
      <3> QED BY <2>2, <3>2, <3>3
    <2>5. minted' \in [Directions -> Nat]
      BY <1>16, CountType DEF MintTokens, TypeOK
    <2>6. used' \subseteq Rooms
      BY <2>2 DEF TypeOK
    <2> QED BY <1>16, <2>3, <2>4, <2>5, <2>6 DEF MintTokens, Returns, TypeOK, client
  <1>17. ASSUME NEW u \in Users, AcceptFails(u) PROVE TypeOK'
    BY <1>17 DEF AcceptFails, Returns, TypeOK, client, history
  <1>18. ASSUME NEW u \in Users, EndCall(u) PROVE TypeOK'
    <2> DEFINE other == Head(inbox[u]).user
    <2>1. other \in Users /\ inbox' \in [Users -> Seq(ToServer)]
      BY <1>18, ReadsType DEF EndCall
    <2>2. record' \in [Pairs -> Users \cup {None}]
      BY <1>18 DEF EndCall, Released, TypeOK
    <2>3. snap' \in Snapshots /\ outbox' \in [Users -> Seq(ToClient)]
      <3>1. CASE RoomsOf(snap, u) = {} /\ Publishes(other, Msg("call_end", u)) /\ UNCHANGED snap
        BY <3>1, <2>1, PublishesType, MessageTypes DEF TypeOK
      <3>2. ASSUME NEW r \in RoomsOf(snap, u),
                   LET remaining == snap[r].users \ {u}
                       left == RemoveFrom(snap, r, u)
                   IN  IF Cardinality(remaining) # 1
                         THEN snap' = left /\ UNCHANGED outbox
                         ELSE \E p \in remaining :
                                /\ Publishes(p, Msg("call_end", u))
                                /\ \E q \in RoomsOf(left, p) : snap' = RemoveFrom(left, q, p)
            PROVE  snap' \in Snapshots /\ outbox' \in [Users -> Seq(ToClient)]
        <4> DEFINE left == RemoveFrom(snap, r, u)
        <4>1. r \in DOMAIN snap /\ snap[r].users \subseteq Users
          BY SnapshotEntries DEF RoomsOf, TypeOK, RoomPresence
        <4>2. left \in Snapshots
          BY <4>1, RemoveFromType DEF TypeOK
        <4> HIDE DEF left
        <4>3. CASE snap' = left /\ UNCHANGED outbox
          BY <4>2, <4>3 DEF TypeOK
        <4>4. ASSUME NEW p \in snap[r].users, Publishes(p, Msg("call_end", u)),
                     NEW q \in RoomsOf(left, p), snap' = RemoveFrom(left, q, p)
              PROVE  snap' \in Snapshots /\ outbox' \in [Users -> Seq(ToClient)]
          BY <4>1, <4>2, <4>4, RemoveFromType, PublishesType, MessageTypes DEF RoomsOf
        <4> QED BY <3>2, <4>3, <4>4 DEF left
      <3> QED BY <1>18, <3>1, <3>2 DEF EndCall
    <2> QED BY <1>18, <2>1, <2>2, <2>3 DEF EndCall, TypeOK, client, history
  <1>19. ASSUME NEW pair \in Pairs, RecordExpires(pair) PROVE TypeOK'
    BY <1>19 DEF RecordExpires, Released, TypeOK, client, history
  <1>20. CASE UNCHANGED vars
    BY <1>20 DEF vars, TypeOK
  <1> QED
    BY <1>1, <1>2, <1>3, <1>4, <1>5, <1>6, <1>7, <1>8, <1>9, <1>10, <1>11, <1>12, <1>13,
       <1>14, <1>15, <1>16, <1>17, <1>18, <1>19, <1>20
       DEF Next, ClientNext, ServerNext, Receive

\* Every variable keeps the shape the code gives it.
THEOREM TypeCorrect == Spec => []TypeOK
  BY InitType, NextType, PTL DEF Spec

--------------------------------------------------------------------------------
(* At most one room per ring.  OneRoomPerRing is inductive over TypeOK: a     *)
(* ring adds at most one entitlement and counts it, consuming a record turns  *)
(* it into a handler's, minting turns that into a room, and everything else   *)
(* only gives entitlements up.                                                *)

LEMMA DirectionPair ==
    ASSUME NEW d \in Directions
    PROVE  /\ d[1] \in Users /\ d[2] \in Users /\ d[1] # d[2] /\ d = <<d[1], d[2]>>
           /\ {d[1], d[2]} \in Pairs
  <1>1. d \in Users \X Users /\ d[1] # d[2]
    BY DEF Directions
  <1>2. \E q \in {q \in Users \X Users : q[1] # q[2]} : {d[1], d[2]} = {q[1], q[2]}
    BY <1>1
  <1> QED BY <1>1, <1>2 DEF Pairs

\* Two users are one pair and two directions.
LEMMA PairDirections ==
    ASSUME NEW d \in Directions, NEW a, NEW b, {d[1], d[2]} = {a, b}
    PROVE  d = <<a, b>> \/ d = <<b, a>>
  <1>1. (d[1] = a /\ d[2] = b) \/ (d[1] = b /\ d[2] = a)
    BY DirectionPair
  <1> QED BY <1>1, DirectionPair

\* Entitlements are given up, none is gained, and nothing is counted.
LEMMA NoGain ==
    ASSUME TypeOK, TypeOK', OneRoomPerRing, minted' = minted, rung' = rung,
           \A pair \in Pairs : record'[pair] \in {record[pair], None},
           \A u \in Users : \/ handler'[u] \in {handler[u], None}
                             \/ handler'[u].op = "request"
    PROVE  OneRoomPerRing'
  <1> SUFFICES ASSUME NEW d \in Directions
               PROVE  minted[d] + Entitled(d)' <= rung[d]
    BY DEF OneRoomPerRing
  <1>1. minted[d] \in Nat /\ rung[d] \in Nat /\ minted[d] + Entitled(d) <= rung[d]
    BY DEF TypeOK, OneRoomPerRing
  <1>2. record'[{d[1], d[2]}] = d[1] => record[{d[1], d[2]}] = d[1]
    BY DirectionPair, ConstantsAssumption
  <1>3. handler'[d[2]] = [op |-> "accept", user |-> d[1]]
          => handler[d[2]] = [op |-> "accept", user |-> d[1]]
    <2>1. [op |-> "accept", user |-> d[1]] \in Handling
      BY DirectionPair DEF Handling
    <2>2. [op |-> "accept", user |-> d[1]].op # "request"
      OBVIOUS
    <2> QED BY <2>1, <2>2, DirectionPair, ConstantsAssumption
  <1> QED BY <1>1, <1>2, <1>3 DEF Entitled

\* A request that wins the SETNX found no record, so the direction it counts was
\* entitled to at most the accept in progress.
LEMMA RequestRings ==
    ASSUME TypeOK, OneRoomPerRing, NEW u \in Users, RequestCall(u)
    PROVE  OneRoomPerRing'
  <1> DEFINE callee == Head(inbox[u]).user
  <1>1. CASE UNCHANGED <<record, rung, handler>>
    BY <1>1 DEF RequestCall, OneRoomPerRing, Entitled
  <1>2. CASE /\ record[{u, callee}] = None
             /\ record' = [record EXCEPT ![{u, callee}] = u]
             /\ rung' = Count(rung, <<u, callee>>)
             /\ handler' = [handler EXCEPT ![u] = [op |-> "request", user |-> callee]]
    <2> SUFFICES ASSUME NEW d \in Directions
                 PROVE  minted'[d] + Entitled(d)' <= rung'[d]
      BY DEF OneRoomPerRing
    <2>1. minted' = minted
      BY DEF RequestCall
    <2>2. minted[d] \in Nat /\ rung[d] \in Nat /\ minted[d] + Entitled(d) <= rung[d]
      BY DEF TypeOK, OneRoomPerRing
    <2>3. handler'[d[2]] = [op |-> "accept", user |-> d[1]]
            => handler[d[2]] = [op |-> "accept", user |-> d[1]]
      BY <1>2, DirectionPair DEF TypeOK
    <2>4. CASE d = <<u, callee>>
      <3>1. record[{d[1], d[2]}] # d[1]
        BY <1>2, <2>4, DirectionPair, ConstantsAssumption
      <3>2. rung'[d] = rung[d] + 1
        BY <1>2, <2>4 DEF Count, TypeOK
      <3> QED BY <2>1, <2>2, <2>3, <3>1, <3>2 DEF Entitled
    <2>5. CASE d # <<u, callee>>
      <3>1. record'[{d[1], d[2]}] = d[1] => record[{d[1], d[2]}] = d[1]
        <4>1. CASE {d[1], d[2]} = {u, callee}
          <5>1. d = <<callee, u>>
            BY <2>5, <4>1, PairDirections
          <5>2. record'[{d[1], d[2]}] = u
            BY <1>2, <4>1, DirectionPair DEF TypeOK
          <5> QED BY <5>1, <5>2, DirectionPair
        <4>2. CASE {d[1], d[2]} # {u, callee}
          BY <1>2, <4>2, DirectionPair DEF TypeOK
        <4> QED BY <4>1, <4>2
      <3>2. rung'[d] = rung[d]
        BY <1>2, <2>5 DEF Count, TypeOK
      <3> QED BY <2>1, <2>2, <2>3, <3>1, <3>2 DEF Entitled
    <2> QED BY <2>4, <2>5
  <1> QED BY <1>1, <1>2 DEF RequestCall

\* An accept takes the record it enters its handler with.
LEMMA ConsumeMoves ==
    ASSUME TypeOK, OneRoomPerRing, NEW u \in Users, ConsumePendingCall(u)
    PROVE  OneRoomPerRing'
  <1> DEFINE caller == Head(inbox[u]).user
  <1> SUFFICES ASSUME NEW d \in Directions
               PROVE  minted'[d] + Entitled(d)' <= rung'[d]
    BY DEF OneRoomPerRing
  <1>1. /\ handler[u] = None /\ minted' = minted /\ rung' = rung
        /\ record' = [record EXCEPT ![{u, caller}] = None]
        /\ handler' = IF record[{u, caller}] = caller
                        THEN [handler EXCEPT ![u] = [op |-> "accept", user |-> caller]]
                        ELSE handler
    BY DEF ConsumePendingCall, Released, Reads, history
  <1>2. minted[d] \in Nat /\ rung[d] \in Nat /\ minted[d] + Entitled(d) <= rung[d]
    BY DEF TypeOK, OneRoomPerRing
  <1>3. record'[{d[1], d[2]}] = d[1] => record[{d[1], d[2]}] = d[1]
    BY <1>1, DirectionPair, ConstantsAssumption DEF TypeOK
  <1>4. CASE handler'[d[2]] = [op |-> "accept", user |-> d[1]]
              => handler[d[2]] = [op |-> "accept", user |-> d[1]]
    BY <1>1, <1>2, <1>3, <1>4 DEF Entitled
  <1>5. CASE /\ handler'[d[2]] = [op |-> "accept", user |-> d[1]]
             /\ handler[d[2]] # [op |-> "accept", user |-> d[1]]
    <2>1. d[2] = u /\ d[1] = caller /\ record[{u, caller}] = caller
      BY <1>1, <1>5, DirectionPair DEF TypeOK
    <2>2. {d[1], d[2]} = {u, caller}
      BY <2>1
    <2>3. record[{d[1], d[2]}] = d[1] /\ record'[{d[1], d[2]}] # d[1]
      BY <1>1, <2>1, <2>2, DirectionPair, ConstantsAssumption DEF TypeOK
    <2> QED BY <1>1, <1>2, <1>5, <2>3 DEF Entitled
  <1> QED BY <1>4, <1>5

\* Minting uses the handler's entitlement up.
LEMMA MintSpends ==
    ASSUME TypeOK, OneRoomPerRing, NEW u \in Users, MintTokens(u)
    PROVE  OneRoomPerRing'
  <1> DEFINE caller == handler[u].user
  <1> SUFFICES ASSUME NEW d \in Directions
               PROVE  minted'[d] + Entitled(d)' <= rung'[d]
    BY DEF OneRoomPerRing
  <1>1. /\ handler[u] \in Handling /\ handler[u].op = "accept"
        /\ handler' = [handler EXCEPT ![u] = None]
        /\ minted' = Count(minted, <<caller, u>>)
        /\ record' = record /\ rung' = rung
    BY DEF MintTokens, InAccept, Returns, TypeOK
  <1>2. minted[d] \in Nat /\ rung[d] \in Nat /\ minted[d] + Entitled(d) <= rung[d]
    BY DEF TypeOK, OneRoomPerRing
  <1>3. handler[u] = [op |-> "accept", user |-> caller]
    BY <1>1 DEF Handling
  <1>4. handler'[d[2]] = [op |-> "accept", user |-> d[1]]
          => d[2] # u /\ handler[d[2]] = [op |-> "accept", user |-> d[1]]
    <2>1. [op |-> "accept", user |-> d[1]] \in Handling
      BY DirectionPair DEF Handling
    <2> QED BY <1>1, <2>1, DirectionPair, ConstantsAssumption DEF TypeOK
  <1>5. CASE d = <<caller, u>>
    <2>1. minted'[d] = minted[d] + 1
      BY <1>1, <1>5 DEF Count, TypeOK
    <2>2. handler[d[2]] = [op |-> "accept", user |-> d[1]]
      BY <1>3, <1>5
    <2>3. handler'[d[2]] # [op |-> "accept", user |-> d[1]]
      BY <1>4, <1>5
    <2> QED BY <1>1, <1>2, <2>1, <2>2, <2>3 DEF Entitled
  <1>6. CASE d # <<caller, u>>
    <2>1. minted'[d] = minted[d]
      BY <1>1, <1>6 DEF Count, TypeOK
    <2> QED BY <1>1, <1>2, <1>4, <2>1 DEF Entitled
  <1> QED BY <1>5, <1>6

LEMMA NextOneRoom == TypeOK /\ TypeOK' /\ OneRoomPerRing /\ [Next]_vars => OneRoomPerRing'
  <1> SUFFICES ASSUME TypeOK, TypeOK', OneRoomPerRing, [Next]_vars PROVE OneRoomPerRing'
    OBVIOUS
  <1>1. ASSUME NEW u \in Users, ClientNext(u) PROVE OneRoomPerRing'
    <2>1. UNCHANGED <<record, handler, history>>
      BY <1>1 DEF ClientNext, CallUser, StopCalling, Answer, Reject, AnswerTimeout, HangUp,
                  Receive, ReceiveNoAnswer, ReceiveIncomingCall, ReceiveTokens, ReceiveCallEnd
    <2> QED BY <2>1, NoGain DEF history
  <1>2. ASSUME NEW u \in Users, RefuseCall(u) PROVE OneRoomPerRing'
    BY <1>2, NoGain DEF RefuseCall, Released, Returns, history, TypeOK
  <1>3. ASSUME NEW u \in Users, RingCallee(u) \/ AcceptFails(u) PROVE OneRoomPerRing'
    BY <1>3, NoGain DEF RingCallee, AcceptFails, Returns, history, TypeOK
  <1>4. ASSUME NEW u \in Users, RejectCall(u) \/ EndCall(u) PROVE OneRoomPerRing'
    BY <1>4, NoGain DEF RejectCall, EndCall, Released, history, TypeOK
  <1>5. ASSUME NEW pair \in Pairs, RecordExpires(pair) PROVE OneRoomPerRing'
    BY <1>5, NoGain DEF RecordExpires, Released, history, TypeOK
  <1>6. CASE UNCHANGED vars
    BY <1>6, NoGain DEF vars, history
  <1> QED
    BY <1>1, <1>2, <1>3, <1>4, <1>5, <1>6, RequestRings, ConsumeMoves, MintSpends
       DEF Next, ServerNext

\* A call is accepted at most once, and only if it was placed: acceptCall mints
\* no more rooms for a caller and a callee than initiateCall won records for.
THEOREM OneRoomPerRingHolds == Spec => []OneRoomPerRing
  <1>1. Init => OneRoomPerRing
    <2> SUFFICES ASSUME Init, NEW d \in Directions PROVE minted[d] + Entitled(d) <= rung[d]
      BY DEF OneRoomPerRing
    <2>1. record[{d[1], d[2]}] # d[1]
      BY DirectionPair, ConstantsAssumption DEF Init
    <2>2. handler[d[2]] # [op |-> "accept", user |-> d[1]]
      <3>1. [op |-> "accept", user |-> d[1]] \in Handling
        BY DirectionPair DEF Handling
      <3> QED BY <3>1, DirectionPair, ConstantsAssumption DEF Init
    <2> QED BY <2>1, <2>2 DEF Init, Entitled
  <1> QED BY <1>1, NextOneRoom, TypeCorrect, PTL DEF Spec

--------------------------------------------------------------------------------
(* Types of a connection. *)

LEMMA ConnInitType == ConnInit => ConnTypeOK
  <1> SUFFICES ASSUME ConnInit PROVE ConnTypeOK
    OBVIOUS
  <1>1. /\ open \in [Conns -> BOOLEAN] /\ subscribed \in [Conns -> BOOLEAN]
        /\ doneClosed \in [Conns -> BOOLEAN] /\ cancelled \in [Conns -> BOOLEAN]
        /\ faulty \in [Conns -> BOOLEAN] /\ crashed \in BOOLEAN
    BY DEF ConnInit
  <1>2. main \in [Conns -> {"start", "wait", "unsubscribe", "cancel", "close", "returned"}]
    BY DEF ConnInit
  <1>3. /\ reader \in [Conns -> {"read", "handle", "send", "closeDone", "cancel", "gone"}]
        /\ relay \in [Conns -> {"select", "receive", "check", "send", "cancel", "gone"}]
        /\ desktop \in [Conns -> {"up", "gone"}]
    BY DEF ConnInit
  <1> QED BY <1>1, <1>2, <1>3 DEF ConnTypeOK

LEMMA PanicType == ConnTypeOK /\ Panic => ConnTypeOK'
  BY DEF Panic, ConnTypeOK

LEMMA ConnNextType == ConnTypeOK /\ [ConnNext]_connVars => ConnTypeOK'
  <1> SUFFICES ASSUME ConnTypeOK, [ConnNext]_connVars PROVE ConnTypeOK'
    OBVIOUS
  <1> USE DEF ConnTypeOK, Goes, Sets, loops, resources
  <1>1. ASSUME NEW c \in Conns, MainNext(c) PROVE ConnTypeOK'
    BY <1>1 DEF MainNext, Start, GreetingFails, SeesDoneClosed, Unsubscribe, Cancel, CloseSocket
  <1>2. ASSUME NEW c \in Conns, ReaderNext(c) PROVE ConnTypeOK'
    BY <1>2, PanicType
       DEF ReaderNext, Handle, PongFails, ReadFails, ReaderSignals, CloseDone, ReaderCancels
  <1>3. ASSUME NEW c \in Conns, RelayNext(c) PROVE ConnTypeOK'
    BY <1>3, PanicType
       DEF RelayNext, Select, CheckContext, RelaySignals, RelayPanics, RelayCancels
  <1>4. ASSUME NEW c \in Conns, ReadMessage(c) \/ Forward(c) \/ ReceiveFails(c) \/ ClientGoes(c)
        PROVE  ConnTypeOK'
    BY <1>4 DEF ReadMessage, Forward, ReceiveFails, ClientGoes
  <1>5. CASE UNCHANGED connVars
    BY <1>5 DEF connVars
  <1> QED BY <1>1, <1>2, <1>3, <1>4, <1>5 DEF ConnNext

\* Every variable keeps the shape the code gives it.
THEOREM ConnTypeCorrect == ConnSpec => []ConnTypeOK
  BY ConnInitType, ConnNextType, PTL DEF ConnSpec

--------------------------------------------------------------------------------
(* CutsOffOnlyTheDead says nothing of the loops, whose signals make the handler *)
(* return.  The invariant below follows the cause through each of them: nothing *)
(* is signalled, closed or unsubscribed unless the desktop has gone, Redis or    *)
(* the greeting has failed, or the process has died.                            *)

Dead(c) == desktop[c] = "gone" \/ faulty[c] \/ crashed

Signalled(c) ==
    \/ main[c] \notin {"start", "wait"}
    \/ reader[c] \in {"send", "closeDone", "cancel"}
    \/ relay[c] \in {"check", "send"}
    \/ doneClosed[c] \/ ~subscribed[c] \/ ~open[c]

SignalsHaveACause == \A c \in Conns : Signalled(c) => Dead(c)

LEMMA NextCause == ConnTypeOK /\ SignalsHaveACause /\ [ConnNext]_connVars => SignalsHaveACause'
  <1> SUFFICES ASSUME ConnTypeOK, SignalsHaveACause, [ConnNext]_connVars, NEW k \in Conns
               PROVE  Signalled(k)' => Dead(k)'
    BY DEF SignalsHaveACause
  <1>1. Signalled(k) => Dead(k)
    BY DEF SignalsHaveACause
  <1> USE <1>1 DEF ConnTypeOK, Signalled, Dead, Goes, Sets, loops, resources
  <1>2. CASE Panic
    BY <1>2 DEF Panic
  <1>3. ASSUME NEW c \in Conns, MainNext(c) PROVE Signalled(k)' => Dead(k)'
    BY <1>3 DEF MainNext, Start, GreetingFails, SeesDoneClosed, Unsubscribe, Cancel, CloseSocket
  <1>4. ASSUME NEW c \in Conns, Handle(c) \/ ReaderSignals(c) \/ CloseDone(c) \/ ReaderCancels(c)
        PROVE  Signalled(k)' => Dead(k)'
    BY <1>2, <1>4 DEF Handle, ReaderSignals, CloseDone, ReaderCancels
  <1>5. ASSUME NEW c \in Conns, PongFails(c) \/ ReadFails(c)
        PROVE  Signalled(k)' => Dead(k)'
    BY <1>5 DEF PongFails, ReadFails, Severed
  <1>6. ASSUME NEW c \in Conns, RelayNext(c) PROVE Signalled(k)' => Dead(k)'
    BY <1>2, <1>6 DEF RelayNext, Select, CheckContext, RelaySignals, RelayPanics, RelayCancels
  <1>7. ASSUME NEW c \in Conns, ReadMessage(c) \/ Forward(c) \/ ReceiveFails(c) \/ ClientGoes(c)
        PROVE  Signalled(k)' => Dead(k)'
    BY <1>7 DEF ReadMessage, Forward, ReceiveFails, ClientGoes
  <1>8. CASE UNCHANGED connVars
    BY <1>8 DEF connVars
  <1> QED BY <1>3, <1>4, <1>5, <1>6, <1>7, <1>8 DEF ConnNext, ReaderNext

\* The handler of a connection returns only when its desktop has gone, Redis or the
\* greeting has failed, or the process has panicked.
THEOREM LiveClientsStay == ConnSpec => []CutsOffOnlyTheDead
  <1>1. ConnInit => SignalsHaveACause
    BY DEF ConnInit, SignalsHaveACause, Signalled
  <1>2. SignalsHaveACause => CutsOffOnlyTheDead
    BY DEF SignalsHaveACause, Signalled, Dead, CutsOffOnlyTheDead
  <1> QED BY <1>1, <1>2, NextCause, ConnTypeCorrect, PTL DEF ConnSpec

--------------------------------------------------------------------------------
(* Both parts. *)

\* Whichever part runs, every variable of the calls and of the connections has its type.
THEOREM SocketTypesCorrect == SocketSpec => []SocketTypeOK
  <1>1. SocketInit => SocketTypeOK
    BY InitType, ConnInitType DEF SocketInit, SocketTypeOK
  <1>2. SocketTypeOK /\ [SocketNext]_socketVars => SocketTypeOK'
    <2> SUFFICES ASSUME SocketTypeOK, [SocketNext]_socketVars PROVE SocketTypeOK'
      OBVIOUS
    <2>1. [Next]_vars /\ [ConnNext]_connVars
      BY DEF SocketNext, socketVars
    <2> QED BY <2>1, NextType, ConnNextType DEF SocketTypeOK
  <1> QED BY <1>1, <1>2, PTL DEF SocketSpec
==================================================================================
