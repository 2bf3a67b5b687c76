------------------------------ MODULE RoomMessages ------------------------------
(***************************************************************************)
(* How what one core says reaches the others of its call.  The application     *)
(* hands commands to the room service, which takes one at a time               *)
(* (core/src/room_service.rs, room_service_commands): it opens and closes rooms *)
(* and publishes in the room it has.  Positions of the pointer come far faster   *)
(* than they are of use, and most are left out.  At the other cores a task per   *)
(* room hands what arrives to the event loop (handle_room_events).             *)
(*                                                                         *)
(* Words are all that is published except positions: the tab and the strokes of  *)
(* Drawing, the keys of RemoteInput, the texts of Clipboard, who is in control   *)
(* and what the sharer allows.  LiveKit delivers reliably and in order to those  *)
(* who are in the room; a publish that LiveKit refuses is not modelled.          *)
(***************************************************************************)
EXTENDS Naturals, Sequences

CONSTANTS
    Peers,          \* the cores
    Speakers,       \* those whose words are followed
    RoomIds,        \* the rooms, numbered
    Throttle,       \* CURSOR_THROTTLE, in ticks
    MaxCommands,    \* bound: commands of an application
    MaxWaiting,     \* bound: commands that wait
    MaxPost         \* bound: messages that wait

ASSUME RoomMessagesAssumption ==
    /\ Speakers \subseteq Peers /\ RoomIds \subseteq Nat \ {0} /\ Throttle \in Nat \ {0}
    /\ MaxCommands \in Nat /\ MaxWaiting \in Nat /\ MaxPost \in Nat

VARIABLES
    callOf,         \* the call each application is in, 0 for none
    waiting,        \* commands sent to the service and not taken
    joining,        \* the room the service connects to, 0 for none
    roomOf,         \* the room it has, 0 for none
    sinceTaken,     \* since last_cursor_publish, at most Throttle
    visit,          \* how often it has joined a room
    post,           \* data received and not handled by the room's task
    commandsSent, wordsSaid,
    wordsTaken,     \* the last word the service has handled
    wordsHeard,     \* of each speaker, in these visits of both
    sinceSent,      \* since a position last went out, at most Throttle
    unsent          \* a position was left out although none had gone out lately

appVars == <<callOf, commandsSent, wordsSaid>>
serviceVars == <<joining, roomOf, sinceTaken, visit, wordsTaken, sinceSent, unsent>>
messageVars == <<appVars, waiting, serviceVars, post, wordsHeard>>

--------------------------------------------------------------------------------
(* The application: every wrapper sends one command, and none waits for it. *)

CommandKinds == {"create", "destroy", "word", "position"}
MessageKinds == {"word", "position"}

Command(what, room, n) == [what |-> what, room |-> room, n |-> n]

SendCommand(c, command) ==
    /\ commandsSent[c] < MaxCommands /\ Len(waiting[c]) < MaxWaiting
    /\ commandsSent' = [commandsSent EXCEPT ![c] = @ + 1]
    /\ waiting' = [waiting EXCEPT ![c] = Append(@, command)]
    /\ UNCHANGED <<post, wordsHeard, serviceVars>>

\* A call may be started while there is one.
CreateRoom(c, r) ==
    /\ callOf[c] # r /\ callOf' = [callOf EXCEPT ![c] = r]
    /\ SendCommand(c, Command("create", r, 0))
    /\ UNCHANGED wordsSaid

\* What is being connected is given up at once (ConnectFails), the rest waits its turn.
LeaveCall(c) ==
    /\ callOf[c] # 0 /\ callOf' = [callOf EXCEPT ![c] = 0]
    /\ SendCommand(c, Command("destroy", 0, 0))
    /\ UNCHANGED wordsSaid

\* In a call or not.
PublishWord(c) ==
    /\ wordsSaid' = [wordsSaid EXCEPT ![c] = @ + 1]
    /\ SendCommand(c, Command("word", callOf[c], wordsSaid[c] + 1))
    /\ UNCHANGED callOf

PublishPosition(c) ==
    /\ SendCommand(c, Command("position", callOf[c], 0))
    /\ UNCHANGED <<callOf, wordsSaid>>

--------------------------------------------------------------------------------
(* The service. *)

\* One command at a time, and none while it connects.
TakesNext(c, what) ==
    /\ joining[c] = 0
    /\ waiting[c] # <<>> /\ Head(waiting[c]).what = what
    /\ waiting' = [waiting EXCEPT ![c] = Tail(@)]
    /\ UNCHANGED appVars

Foremost(c) == Head(waiting[c])

\* Mutant of ClearedRoom: the old room is kept until there is a new one.
KeptRoom(c) == roomOf

\* The room is closed before another is opened.
ClearedRoom(c) == [roomOf EXCEPT ![c] = 0]

StartsConnecting(c) ==
    /\ TakesNext(c, "create")
    /\ roomOf' = ClearedRoom(c)
    /\ joining' = [joining EXCEPT ![c] = Foremost(c).room]
    /\ UNCHANGED <<sinceTaken, visit, wordsTaken, sinceSent, unsent, post, wordsHeard>>

\* Who joins hears what is said from now on.  Connecting takes longer than the interval.
Connects(c) ==
    /\ joining[c] # 0 /\ sinceTaken[c] = Throttle
    /\ roomOf' = [roomOf EXCEPT ![c] = joining[c]]
    /\ joining' = [joining EXCEPT ![c] = 0]
    /\ visit' = [visit EXCEPT ![c] = @ + 1]
    /\ wordsHeard' = [d \in Peers |-> [s \in Speakers |->
                        IF c \in {d, s} THEN wordsTaken[s] ELSE wordsHeard[d][s]]]
    /\ UNCHANGED <<appVars, waiting, sinceTaken, wordsTaken, sinceSent, unsent, post>>

\* Refused, timed out or cancelled.
ConnectFails(c) ==
    /\ joining[c] # 0
    /\ joining' = [joining EXCEPT ![c] = 0]
    /\ UNCHANGED <<appVars, waiting, roomOf, sinceTaken, visit, wordsTaken, sinceSent, unsent,
                   post, wordsHeard>>

DestroysRoom(c) ==
    /\ TakesNext(c, "destroy")
    /\ roomOf' = [roomOf EXCEPT ![c] = 0]
    /\ UNCHANGED <<joining, sinceTaken, visit, wordsTaken, sinceSent, unsent, post, wordsHeard>>

Together(c, d) == c # d /\ roomOf[c] # 0 /\ roomOf[c] = roomOf[d]

\* Everyone else in the room gets it; without a room it is dropped.
PublishData(c, command) ==
    LET data(d) == [command |-> command, from |-> c, sent |-> visit[c], got |-> visit[d],
                    room |-> roomOf[c]] IN
    /\ \A d \in Peers : Together(c, d) => Len(post[d]) < MaxPost
    /\ post' = [d \in Peers |-> IF Together(c, d) THEN Append(post[d], data(d)) ELSE post[d]]

PublishesWord(c) ==
    /\ TakesNext(c, "word")
    /\ PublishData(c, Foremost(c))
    /\ wordsTaken' = [wordsTaken EXCEPT ![c] = Foremost(c).n]
    /\ UNCHANGED <<joining, roomOf, sinceTaken, visit, sinceSent, unsent, wordsHeard>>

\* Mutant of LeavesOut: a position that is left out starts the interval anew.
LeavesOutAndWaits(c) ==
    /\ sinceTaken[c] < Throttle
    /\ sinceTaken' = [sinceTaken EXCEPT ![c] = 0]

\* Too soon after the last: it is left out, even when none comes after it.
LeavesOut(c) == sinceTaken[c] < Throttle /\ UNCHANGED sinceTaken

PublishesCursorPosition(c) ==
    /\ TakesNext(c, "position")
    /\ \/ /\ LeavesOut(c)
          /\ unsent' = (unsent \/ (roomOf[c] # 0 /\ sinceSent[c] >= Throttle))
          /\ UNCHANGED <<sinceSent, post>>
       \/ /\ sinceTaken[c] >= Throttle
          /\ sinceTaken' = [sinceTaken EXCEPT ![c] = 0]
          /\ PublishData(c, Foremost(c))
          /\ sinceSent' = [sinceSent EXCEPT ![c] = IF roomOf[c] # 0 THEN 0 ELSE @]
          /\ UNCHANGED unsent
    /\ UNCHANGED <<joining, roomOf, visit, wordsTaken, wordsHeard>>

--------------------------------------------------------------------------------
(* Arrival, in the task of the room, and time. *)

Current(d, data) == data.got = visit[d] /\ data.sent = visit[data.from]

DataReceived(d) ==
    /\ post[d] # <<>> /\ post' = [post EXCEPT ![d] = Tail(@)]
    /\ LET data == Head(post[d]) IN
       wordsHeard' = IF data.command.what = "word" /\ Current(d, data)
                     THEN [wordsHeard EXCEPT ![d][data.from] = data.command.n]
                     ELSE wordsHeard
    /\ UNCHANGED <<appVars, waiting, serviceVars>>

Older(ages) == [c \in Peers |-> IF ages[c] < Throttle THEN ages[c] + 1 ELSE Throttle]

TimePasses ==
    /\ sinceTaken' = Older(sinceTaken) /\ sinceSent' = Older(sinceSent)
    /\ UNCHANGED <<appVars, waiting, joining, roomOf, visit, wordsTaken, unsent, post, wordsHeard>>

--------------------------------------------------------------------------------
MessagesInit ==
    /\ callOf = [c \in Peers |-> 0] /\ waiting = [c \in Peers |-> <<>>]
    /\ joining = [c \in Peers |-> 0] /\ roomOf = [c \in Peers |-> 0]
    /\ sinceTaken = [c \in Peers |-> 0] /\ sinceSent = [c \in Peers |-> 0] /\ unsent = FALSE
    /\ visit = [c \in Peers |-> 0] /\ post = [c \in Peers |-> <<>>]
    /\ commandsSent = [c \in Peers |-> 0] /\ wordsSaid = [c \in Speakers |-> 0]
    /\ wordsTaken = [c \in Speakers |-> 0]
    /\ wordsHeard = [d \in Peers |-> [s \in Speakers |-> 0]]

MessagesNext ==
    \/ \E c \in Peers :
        \/ \E r \in RoomIds : CreateRoom(c, r)
        \/ LeaveCall(c) \/ StartsConnecting(c) \/ Connects(c) \/ ConnectFails(c)
        \/ DestroysRoom(c) \/ DataReceived(c)
    \/ \E c \in Speakers :
        PublishWord(c) \/ PublishPosition(c) \/ PublishesWord(c) \/ PublishesCursorPosition(c)
    \/ TimePasses

MessagesSpec == MessagesInit /\ [][MessagesNext]_messageVars

--------------------------------------------------------------------------------
\* Every variable has its type.
MessagesTypeOK ==
    /\ callOf \in [Peers -> RoomIds \cup {0}] /\ joining \in [Peers -> RoomIds \cup {0}]
    /\ roomOf \in [Peers -> RoomIds \cup {0}]
    /\ \A c \in Peers :
        /\ Len(waiting[c]) <= MaxWaiting /\ Len(post[c]) <= MaxPost
        /\ \A i \in DOMAIN waiting[c] : waiting[c][i].what \in CommandKinds
        /\ \A i \in DOMAIN post[c] : post[c][i].command.what \in MessageKinds
    /\ sinceTaken \in [Peers -> 0..Throttle] /\ sinceSent \in [Peers -> 0..Throttle]
    /\ visit \in [Peers -> 0..MaxCommands] /\ commandsSent \in [Peers -> 0..MaxCommands]
    /\ wordsSaid \in [Speakers -> 0..MaxCommands] /\ wordsTaken \in [Speakers -> 0..MaxCommands]
    /\ wordsHeard \in [Peers -> [Speakers -> 0..MaxCommands]] /\ unsent \in BOOLEAN

\* The words that wait at s, and those under way from s to d, which are both still in
\* the room: their numbers, by their places in the queue.
Waiting(s) ==
    [i \in {i \in DOMAIN waiting[s] : waiting[s][i].what = "word"} |-> waiting[s][i].n]
UnderWay(s, d) ==
    LET IsWord(data) == data.command.what = "word" /\ data.from = s /\ Current(d, data)
    IN [i \in {i \in DOMAIN post[d] : IsWord(post[d][i])} |-> post[d][i].command.n]

\* After the first number every one up to the last, in order.
Consecutive(numbers, first, last) ==
    /\ first <= last
    /\ {numbers[i] : i \in DOMAIN numbers} = (first + 1)..last
    /\ \A i, j \in DOMAIN numbers : i < j => numbers[i] < numbers[j]

\* What an application says in a call is heard in that call and in no other, however
\* calls start, end and fail in between; none of its words is left out or overtaken before
\* the service takes it; two who stay in a room miss no word of each other and hear them
\* in order; and while a pointer moves, its position goes out once in every interval
\* (room_service.rs, room_service_commands and DataReceived).
SaidIsHeard ==
    /\ \A d \in Peers : \A i \in DOMAIN post[d] : post[d][i].command.room = post[d][i].room
    /\ \A s \in Speakers : Consecutive(Waiting(s), wordsTaken[s], wordsSaid[s])
    /\ \A s \in Speakers, d \in Peers :
        Together(s, d) => Consecutive(UnderWay(s, d), wordsHeard[d][s], wordsTaken[s])
    /\ ~unsent
================================================================================
