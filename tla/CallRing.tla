-------------------------------- MODULE CallRing --------------------------------
(***************************************************************************)
(* Ringing: how a direct call is placed, answered, rejected, cancelled and *)
(* ended, by the WebSocket handlers of the backend (websocketHandlers.go)  *)
(* and by the desktop clients on both sides (participant row, call banner, *)
(* main window).  The protocol hangs on one Redis record per pair of users,*)
(* call:pending:<a>:<b>, that holds who rang and expires by itself.        *)
(*                                                                         *)
(* A connection's read loop handles one message at a time; the Redis       *)
(* commands of handlers on different connections interleave.  Messages to  *)
(* a user go over that user's pub/sub channel, in order of publication;    *)
(* answers to a call request are written to the caller's socket directly.  *)
(***************************************************************************)
EXTENDS Naturals, Sequences, PresenceSnapshot

CONSTANTS
    None,           \* no user, no room, no record
    MaxCalls,       \* bound on call requests
    MaxQueue        \* bound on messages in a channel a client may add to

\* A handler between two of its Redis commands: its operation and the other user.
Handling == [op : {"request", "accept"}, user : Users]

ASSUME ConstantsAssumption ==
    /\ NamedRooms = {}
    /\ None \notin Users \cup Rooms \cup Handling
    /\ {MaxCalls, MaxQueue} \subseteq Nat

VARIABLES
    record,     \* call:pending:<a>:<b>, indexed by the set {a, b}
    snap,       \* the presence snapshot
    used,       \* room names (uuids) already minted
    handler,    \* the call request or accept a read loop is in the middle of
    inbox,      \* client to read loop
    outbox,     \* user's channel and socket, server to client
    calling,    \* store.calling
    banner,     \* incomingCallCallerId: who the banner shows
    answering,  \* whose call the user answered, while the tokens are awaited
    app,        \* the room of callTokens
    peer,       \* callTokens.participant
    rung,       \* history: records created by SETNX, per caller and callee
    minted,     \* history: rooms minted, per caller and callee
    calls

client == <<calling, banner, answering, app, peer>>
history == <<rung, minted>>
vars == <<record, snap, used, handler, inbox, outbox, calling, banner, answering,
          app, peer, rung, minted, calls>>

Pairs == {{p[1], p[2]} : p \in {q \in Users \X Users : q[1] # q[2]}}
Directions == {q \in Users \X Users : q[1] # q[2]}

ToServer == [type : {"call_request", "call_accept", "call_reject", "call_end"}, user : Users]
ToClient ==
    [type : {"incoming_call", "call_reject", "callee_offline", "call_end"}, user : Users]
      \cup [type : {"call_tokens"}, user : Users, room : Rooms]

Msg(type, u) == [type |-> type, user |-> u]

Tokens(u, r) == [type |-> "call_tokens", user |-> u, room |-> r]

--------------------------------------------------------------------------------
(* Channels. *)

\* u's client sends the messages ms, in order.
Sends(u, ms) == inbox' = [inbox EXCEPT ![u] = @ \o ms]

\* A client acts only while its socket keeps up.
CanSend(u) == Len(inbox[u]) < MaxQueue

\* The server publishes m to u.
Publishes(u, m) == outbox' = [outbox EXCEPT ![u] = Append(@, m)]

\* The read loop writes m to u's own socket, past whatever is still in u's Redis
\* channel: the first i messages are on the socket already.
Writes(u, m) ==
    \E i \in 0..Len(outbox[u]) :
      outbox' = [outbox EXCEPT ![u] = SubSeq(@, 1, i) \o <<m>> \o SubSeq(@, i + 1, Len(@))]

Reads(u, type) ==
    /\ handler[u] = None /\ inbox[u] # <<>> /\ Head(inbox[u]).type = type
    /\ inbox' = [inbox EXCEPT ![u] = Tail(@)]

Receives(u, type) ==
    /\ outbox[u] # <<>> /\ Head(outbox[u]).type = type
    /\ outbox' = [outbox EXCEPT ![u] = Tail(@)]

--------------------------------------------------------------------------------
(* The caller's participant row. *)

\* callUser: not while a banner is up or a call is on.
CallUser(u, callee) ==
    /\ calls < MaxCalls /\ calls' = calls + 1
    /\ u # callee /\ calling[u] = None /\ banner[u] = None /\ app[u] = None /\ CanSend(u)
    /\ calling' = [calling EXCEPT ![u] = callee]
    /\ Sends(u, <<Msg("call_request", callee)>>)
    /\ UNCHANGED <<record, snap, used, handler, outbox, banner, answering, app, peer, history>>

\* The End button, or no answer for 65 seconds.
StopCalling(u) ==
    /\ calling[u] # None /\ CanSend(u)
    /\ calling' = [calling EXCEPT ![u] = None]
    /\ Sends(u, <<Msg("call_end", calling[u])>>)
    /\ UNCHANGED <<record, snap, used, handler, outbox, banner, answering, app, peer, history, calls>>

\* A rejection, or the callee being offline, resolves whatever call is ringing:
\* the row does not look at whom the message is about.
ReceiveNoAnswer(u) ==
    /\ Receives(u, "call_reject") \/ Receives(u, "callee_offline")
    /\ calling' = [calling EXCEPT ![u] = None]
    /\ UNCHANGED <<record, snap, used, handler, inbox, banner, answering, app, peer, history, calls>>

--------------------------------------------------------------------------------
(* The callee's main window and banner. *)

\* incoming_call: dropped if it is more than a minute old, twice its record's life;
\* while in another call rejected; from the current peer it replaces the call;
\* otherwise the banner shows it, instead of any other, unless an app update in
\* progress rejects it.
ReceiveIncomingCall(u) ==
    LET caller == Head(outbox[u]).user
        busy == app[u] # None /\ peer[u] # caller
    IN  /\ Receives(u, "incoming_call")
        /\ \/ record[{u, caller}] # caller /\ UNCHANGED <<inbox, banner, app>>
           \/ /\ busy
              /\ Sends(u, <<Msg("call_reject", caller)>>) /\ UNCHANGED <<banner, app>>
           \/ /\ ~busy
              /\ app' = [app EXCEPT ![u] = None]
              /\ \/ banner' = [banner EXCEPT ![u] = caller] /\ UNCHANGED inbox
                 \/ /\ banner' = [banner EXCEPT ![u] = None]
                    /\ Sends(u, <<Msg("call_reject", caller)>>)
        /\ UNCHANGED <<record, snap, used, handler, calling, answering, peer, history, calls>>

\* "Answer": listen for tokens, send call_accept, keep the banner.
Answer(u) ==
    /\ banner[u] # None /\ answering[u] = None /\ CanSend(u)
    /\ answering' = [answering EXCEPT ![u] = banner[u]]
    /\ Sends(u, <<Msg("call_accept", banner[u])>>)
    /\ UNCHANGED <<record, snap, used, handler, outbox, calling, banner, app, peer, history, calls>>

\* "Not now", or a minute without an answer.
Reject(u) ==
    /\ banner[u] # None /\ CanSend(u)
    /\ banner' = [banner EXCEPT ![u] = None]
    /\ Sends(u, <<Msg("call_reject", banner[u])>>)
    /\ UNCHANGED <<record, snap, used, handler, outbox, calling, answering, app, peer, history, calls>>

\* Five seconds after "Answer" without tokens: the listener goes and the call
\* that was answered is rejected, whatever has become of the banner meanwhile.
AnswerTimeout(u) ==
    /\ answering[u] # None /\ CanSend(u)
    /\ answering' = [answering EXCEPT ![u] = None]
    /\ banner' = [banner EXCEPT ![u] = None]
    /\ Sends(u, <<Msg("call_reject", answering[u])>>)
    /\ UNCHANGED <<record, snap, used, handler, outbox, calling, app, peer, history, calls>>

--------------------------------------------------------------------------------
(* Both sides. *)

\* call_tokens start the call on a client that waits for them, in its banner or
\* in its row, and are dropped by any other.
ReceiveTokens(u) ==
    LET m == Head(outbox[u])
        awaited == answering[u] # None
    IN  /\ Receives(u, "call_tokens")
        /\ IF awaited \/ calling[u] # None
             THEN /\ app' = [app EXCEPT ![u] = m.room]
                  /\ peer' = [peer EXCEPT ![u] = m.user]
             ELSE UNCHANGED <<app, peer>>
        /\ calling' = [calling EXCEPT ![u] = None]
        /\ answering' = [answering EXCEPT ![u] = None]
        /\ banner' = [banner EXCEPT ![u] = IF awaited THEN None ELSE @]
        /\ UNCHANGED <<record, snap, used, handler, inbox, history, calls>>

\* call_end dismisses the banner and clears callTokens, whoever sent it.
ReceiveCallEnd(u) ==
    /\ Receives(u, "call_end")
    /\ banner' = [banner EXCEPT ![u] = None]
    /\ app' = [app EXCEPT ![u] = None]
    /\ UNCHANGED <<record, snap, used, handler, inbox, calling, answering, peer, history, calls>>

\* useEndCall.
HangUp(u) ==
    /\ app[u] # None /\ CanSend(u)
    /\ app' = [app EXCEPT ![u] = None]
    /\ Sends(u, <<Msg("call_end", peer[u])>>)
    /\ UNCHANGED <<record, snap, used, handler, outbox, calling, banner, answering, peer, history, calls>>

--------------------------------------------------------------------------------
(* The backend.  Commands of one handler that no other handler's commands can *)
(* be told apart from are one step: the deletion of a record with the message *)
(* that reports it, and the two publications of acceptCall with AddCallRoom.  *)

\* Mutant of Released: the key is read and not deleted.
ReleasedLate(pair) == record

\* The dedupe key of the pair is deleted, whosever record it holds.
Released(pair) == [record EXCEPT ![pair] = None]

Count(history0, d) == [history0 EXCEPT ![d] = @ + 1]

\* initiateCall, SETNX: the caller wins the record, or is told it is taken.
\* A Redis error ends the request with an error message the row ignores.
RequestCall(u) ==
    LET callee == Head(inbox[u]).user
        pair == {u, callee}
    IN  /\ Reads(u, "call_request")
        /\ \/ /\ record[pair] = None
              /\ record' = [record EXCEPT ![pair] = u]
              /\ rung' = Count(rung, <<u, callee>>)
              /\ handler' = [handler EXCEPT ![u] = [op |-> "request", user |-> callee]]
              /\ UNCHANGED outbox
           \/ /\ record[pair] # None
              /\ Writes(u, Msg("call_reject", callee))
              /\ UNCHANGED <<record, rung, handler>>
           \/ UNCHANGED <<record, rung, handler, outbox>>
        /\ UNCHANGED <<snap, used, client, minted, calls>>

InRequest(u) == handler[u] # None /\ handler[u].op = "request"
InAccept(u)  == handler[u] # None /\ handler[u].op = "accept"

Returns(u) == handler' = [handler EXCEPT ![u] = None]

\* Any failed check after the SETNX deletes the record, whosever it is by then.
\* Some answer the caller, the database and Redis errors do not.
RefuseCall(u) ==
    LET callee == handler[u].user IN
    /\ InRequest(u) /\ Returns(u)
    /\ record' = Released({u, callee})
    /\ \/ \E type \in {"call_reject", "callee_offline"} : Writes(u, Msg(type, callee))
       \/ UNCHANGED outbox
    /\ UNCHANGED <<snap, used, inbox, client, history, calls>>

\* The callee has a subscriber: ring it.
RingCallee(u) ==
    /\ InRequest(u) /\ Returns(u)
    /\ Publishes(handler[u].user, Msg("incoming_call", u))
    /\ UNCHANGED <<record, snap, used, inbox, client, history, calls>>

\* rejectCall deletes the pair's record and tells the caller.
RejectCall(u) ==
    LET caller == Head(inbox[u]).user IN
    /\ Reads(u, "call_reject")
    /\ record' = Released({u, caller})
    /\ Publishes(caller, Msg("call_reject", u))
    /\ UNCHANGED <<snap, used, handler, client, history, calls>>

\* acceptCall, consumePendingCall: GETDEL, and go on only if the caller named in
\* the message is the one who rang.
ConsumePendingCall(u) ==
    LET caller == Head(inbox[u]).user
        pair == {u, caller}
    IN  /\ Reads(u, "call_accept")
        /\ record' = Released(pair)
        /\ handler' = IF record[pair] = caller
                        THEN [handler EXCEPT ![u] = [op |-> "accept", user |-> caller]]
                        ELSE handler
        /\ UNCHANGED <<snap, used, outbox, client, history, calls>>

\* acceptCall, the rest: a fresh room, tokens to caller and callee, AddCallRoom.
MintTokens(u) ==
    LET caller == handler[u].user IN
    /\ InAccept(u) /\ Returns(u)
    /\ \E r \in Rooms \ used :
         /\ used' = used \cup {r}
         /\ outbox' = [outbox EXCEPT ![caller] = Append(@, Tokens(u, r)),
                                     ![u] = Append(@, Tokens(caller, r))]
         /\ snap' = AddCallRoom(snap, r, {u, caller})
    /\ minted' = Count(minted, <<caller, u>>)
    /\ UNCHANGED <<record, inbox, client, rung, calls>>

\* A user lookup or the token service fails; the error message changes nothing.
AcceptFails(u) ==
    /\ InAccept(u) /\ Returns(u)
    /\ UNCHANGED <<record, snap, used, inbox, outbox, client, history, calls>>

\* endCall: the record goes; then the room, with the peer that is left in it.
\* Outside any room the peer named in the message is told.
EndCall(u) ==
    LET other == Head(inbox[u]).user IN
    /\ Reads(u, "call_end")
    /\ record' = Released({u, other})
    /\ \/ /\ RoomsOf(snap, u) = {}
          /\ Publishes(other, Msg("call_end", u))
          /\ UNCHANGED snap
       \/ \E r \in RoomsOf(snap, u) :
            LET remaining == snap[r].users \ {u}
                left == RemoveFrom(snap, r, u)
            IN  IF Cardinality(remaining) # 1
                  THEN snap' = left /\ UNCHANGED outbox
                  ELSE \E p \in remaining :
                         /\ Publishes(p, Msg("call_end", u))
                         /\ \E q \in RoomsOf(left, p) : snap' = RemoveFrom(left, q, p)
    /\ UNCHANGED <<used, handler, client, history, calls>>

\* A record lives callDedupeTTL, 30 seconds: less than the minute of the callee's
\* banner and the 65 seconds of the caller's row, so it may expire under both.
RecordExpires(pair) ==
    /\ record[pair] # None
    /\ record' = Released(pair)
    /\ UNCHANGED <<snap, used, handler, inbox, outbox, client, history, calls>>

--------------------------------------------------------------------------------
Init ==
    /\ record = [p \in Pairs |-> None]
    /\ snap = NoRooms /\ used = {}
    /\ handler = [u \in Users |-> None]
    /\ inbox = [u \in Users |-> <<>>] /\ outbox = [u \in Users |-> <<>>]
    /\ calling = [u \in Users |-> None] /\ banner = [u \in Users |-> None]
    /\ answering = [u \in Users |-> None]
    /\ app = [u \in Users |-> None] /\ peer = [u \in Users |-> u]
    /\ rung = [d \in Directions |-> 0] /\ minted = [d \in Directions |-> 0]
    /\ calls = 0

Receive(u) ==
    ReceiveNoAnswer(u) \/ ReceiveIncomingCall(u) \/ ReceiveTokens(u) \/ ReceiveCallEnd(u)

ClientNext(u) ==
    \/ \E callee \in Users : CallUser(u, callee)
    \/ StopCalling(u) \/ Answer(u) \/ Reject(u) \/ AnswerTimeout(u) \/ HangUp(u)
    \/ Receive(u)

ServerNext(u) ==
    \/ RequestCall(u) \/ RefuseCall(u) \/ RingCallee(u)
    \/ RejectCall(u) \/ EndCall(u)
    \/ ConsumePendingCall(u) \/ MintTokens(u) \/ AcceptFails(u)

Next ==
    \/ \E u \in Users : ClientNext(u) \/ ServerNext(u)
    \/ \E pair \in Pairs : RecordExpires(pair)

Spec == Init /\ [][Next]_vars

\* The connections deliver, the read loops run, and the clients' timers fire: 65
\* seconds of calling, a minute of banner, five seconds of answering.  Nobody has
\* to press a button, and no record has to expire.
Fairness ==
    \A u \in Users :
      /\ WF_vars(Receive(u)) /\ WF_vars(ServerNext(u))
      /\ WF_vars(StopCalling(u)) /\ WF_vars(Reject(u)) /\ WF_vars(AnswerTimeout(u))

FairSpec == Spec /\ Fairness

--------------------------------------------------------------------------------
(* Properties. *)

\* Every variable has the shape the code gives it.
TypeOK ==
    /\ record \in [Pairs -> Users \cup {None}]
    /\ snap \in Snapshots /\ used \subseteq Rooms
    /\ handler \in [Users -> Handling \cup {None}]
    /\ inbox \in [Users -> Seq(ToServer)] /\ outbox \in [Users -> Seq(ToClient)]
    /\ calling \in [Users -> Users \cup {None}] /\ banner \in [Users -> Users \cup {None}]
    /\ answering \in [Users -> Users \cup {None}]
    /\ app \in [Users -> Rooms \cup {None}] /\ peer \in [Users -> Users]
    /\ rung \in [Directions -> Nat] /\ minted \in [Directions -> Nat]
    /\ calls \in Nat

\* The accepts of d still entitled to a room: a record that names the caller, or
\* a consumed one whose handler has not minted yet.
Entitled(d) ==
    (IF record[{d[1], d[2]}] = d[1] THEN 1 ELSE 0)
      + (IF handler[d[2]] = [op |-> "accept", user |-> d[1]] THEN 1 ELSE 0)

\* A call is accepted at most once, only by the user who was called and only if
\* it was placed: the rooms minted from caller to callee, and those that may
\* still be, never outnumber the calls placed in that direction, whatever
\* duplicate, stale or crossing accepts arrive.
OneRoomPerRing == \A d \in Directions : minted[d] + Entitled(d) <= rung[d]

\* Ringing stops by itself, and leaves no record behind that keeps the pair from
\* calling again: without any record having to expire, rejections, cancellations,
\* accepts and timeouts release it, unless the two are in a call, which their
\* hanging up will release it from.
RingingStops ==
    <>[](/\ \A u \in Users : calling[u] = None /\ banner[u] = None /\ answering[u] = None
         /\ \A pair \in Pairs : record[pair] = None \/ \E u \in pair : app[u] # None)
================================================================================
