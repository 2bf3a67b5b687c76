------------------------------ MODULE Participants ------------------------------
(***************************************************************************)
(* Who is in the call, as the core keeps it and as the application lists   *)
(* it (core/src/room_service.rs, snapshot_sender.rs, livekit/              *)
(* participant.rs).  The participants map is behind a lock, and three      *)
(* tasks change it: the one that takes the room service's commands, the    *)
(* one that handles the room's events, and the event loop, which sends     *)
(* snapshots, too.  A task builds a snapshot under the lock and sends it   *)
(* when it has released it.                                                *)
(*                                                                         *)
(* A room has a task for its events of its own, which outlives the room's  *)
(* closing for as long as there are events left in its channel.            *)
(***************************************************************************)
EXTENDS Naturals, Sequences, FiniteSets

CONSTANTS
    Person,         \* the others, as their audio participants
    MicOnCall,      \* start_mic_on_call
    MaxCalls,       \* bound: calls one after another
    MaxMoves        \* bound: what the people in the room do

ASSUME PersonAssumption ==
    IsFiniteSet(Person) /\ MicOnCall \in BOOLEAN /\ MaxCalls \in Nat /\ MaxMoves \in Nat

VARIABLES
    here,           \* LiveKit: who is in the room
    muted,          \* LiveKit: whose microphone is muted
    speaks,         \* LiveKit: who speaks
    session,        \* the number of the call
    phase,          \* "idle", "connected" or "on" (its events are handled)
    news,           \* per call, the room events its task has not handled
    people,         \* inner.participants, without "local"
    mine,          \* "local": "absent", "muted" or "open"
    held,           \* the snapshots that are built and not sent, in that order
    list,           \* the last snapshot the application got
    late,           \* an event of a closed room has changed the map
    moves           \* moves so far

roomVars == <<here, muted, speaks>>
mapVars == <<people, mine, late>>
listVars == <<held, list>>
partVars == <<roomVars, session, phase, news, mapVars, listVars, moves>>

Call == 1..MaxCalls
EventTask(c) == <<"events", c>>
Commands == <<"commands", 0>>
Loop == <<"loop", 0>>
QueuedResult == <<"result", 0>>     \* CreateRoomResult, on its way to the event loop
Sender == {Commands, Loop, QueuedResult} \cup {EventTask(c) : c \in Call}

Known == DOMAIN people
Info(p) == [muted |-> p \in muted, speaks |-> p \in speaks]
Infos(set) == [p \in set |-> Info(p)]

News(type, p) == [type |-> type, who |-> {p}]
Posted(added) == news' = [news EXCEPT ![session] = @ \o added]

\* build_snapshot; "old" once a newer one has been sent.
Snapshot(s) == [by |-> s, present |-> Known, muted |-> {p \in Known : people[p].muted},
                mine |-> mine, old |-> FALSE]
NoSnapshot ==
    [by |-> QueuedResult, present |-> {}, muted |-> {}, mine |-> "absent", old |-> FALSE]

--------------------------------------------------------------------------------
(* The others, at LiveKit. *)

Connected == phase \in {"connected", "on"}
Move == moves < MaxMoves /\ moves' = moves + 1
AtLiveKit ==
    /\ Connected /\ Move
    /\ UNCHANGED <<session, phase, mapVars, listVars>>

Joins(p) ==
    /\ AtLiveKit /\ p \notin here
    /\ here' = here \cup {p}
    /\ \E m \in {{}, {p}} : muted' = muted \cup m
    /\ Posted(<<News("connected", p), News("subscribed", p)>>)
    /\ UNCHANGED speaks

Leaves(p) ==
    /\ AtLiveKit /\ p \in here
    /\ here' = here \ {p} /\ muted' = muted \ {p} /\ speaks' = speaks \ {p}
    /\ Posted(<<News("disconnected", p)>>)

TogglesMic(p) ==
    /\ AtLiveKit /\ p \in here
    /\ muted' = IF p \in muted THEN muted \ {p} ELSE muted \cup {p}
    /\ Posted(<<News(IF p \in muted THEN "unmuted" ELSE "muted", p)>>)
    /\ UNCHANGED <<here, speaks>>

Speaks(set) ==
    /\ AtLiveKit /\ set # speaks /\ set \subseteq here \ muted
    /\ speaks' = set
    /\ Posted(<<[type |-> "speakers", who |-> set]>>)
    /\ UNCHANGED <<here, muted>>

--------------------------------------------------------------------------------
(* Snapshots. *)

\* Mutant of Idle: a task builds the next one before it has sent the last.
NeverWaits(s) == TRUE
Idle(s) == \A i \in 1..Len(held) : held[i].by # s
Build(s) == held' = Append(held, Snapshot(s)')

\* SocketSender::send, of the i-th; whoever built it may build the next.
Sends(i) ==
    /\ list' = [held[i] EXCEPT !.by = QueuedResult]
    /\ held' = [j \in 1..(i - 1) |-> [held[j] EXCEPT !.old = TRUE]]
               \o SubSeq(held, i + 1, Len(held))
    /\ UNCHANGED <<roomVars, session, phase, news, mapVars, moves>>

\* send_participants_snapshot on the event loop: a share or a camera starts or stops.
LoopSnapshot ==
    /\ phase = "on" /\ Move /\ Idle(Loop)
    /\ UNCHANGED <<roomVars, session, phase, news, mapVars, list>>
    /\ Build(Loop)

--------------------------------------------------------------------------------
(* The room service's commands. *)

\* Both rooms have connected; their events come from now on, beginning with the
\* tracks of those who are there.
Connect(there) ==
    /\ phase = "idle" /\ session < MaxCalls
    /\ session' = session + 1 /\ phase' = "connected"
    /\ here' = there /\ \E set \in {{}, there} : muted' = set
    /\ news' = [news EXCEPT ![session'] = <<[type |-> "subscribed", who |-> there]>>]
    /\ UNCHANGED <<speaks, mapVars, listVars, moves>>

\* populate_participants_from_room, insert_participant_if_absent.
Populated == [p \in Known \cup here |-> IF p \in Known THEN people[p] ELSE Info(p)]

\* The rest of CreateRoom: the local participant, those who are there, and the
\* snapshot, which the event loop will send with CreateRoomResult; then the task that
\* handles the room's events is spawned.
SetUp ==
    /\ phase = "connected" /\ Idle(QueuedResult)
    /\ phase' = "on"
    /\ people' = Populated
    /\ mine' = IF MicOnCall THEN "open" ELSE "muted"
    /\ Build(QueuedResult)
    /\ UNCHANGED <<roomVars, session, news, late, list, moves>>

\* MuteAudioTrack, UnmuteAudioTrack.
ToggleMic ==
    /\ phase = "on" /\ Move /\ Idle(Commands)
    /\ mine' = IF mine = "muted" THEN "open" ELSE "muted"
    /\ UNCHANGED <<roomVars, session, phase, news, people, late, list>>
    /\ Build(Commands)

\* Mutant of Forget: the participants stay.
ForgetLocal == people' = people /\ mine' = "absent"
Forget == people' = <<>> /\ mine' = "absent"

\* DestroyRoom: clear() closes the rooms, then forgets the participants.
Clear ==
    /\ phase = "on" /\ Idle(Commands)
    /\ phase' = "idle"
    /\ here' = {} /\ muted' = {} /\ speaks' = {}
    /\ Forget
    /\ UNCHANGED <<session, news, late, listVars, moves>>

--------------------------------------------------------------------------------
(* handle_room_events, the task of call c. *)

Handling(c, type) ==
    /\ news[c] # <<>> /\ Head(news[c]).type = type
    /\ c < session \/ phase \in {"on", "idle"}
    /\ Idle(EventTask(c))
    /\ news' = [news EXCEPT ![c] = Tail(@)]
    /\ UNCHANGED <<roomVars, session, phase, mine, list, moves>>
Changed(c) == late' = (late \/ (people' # people /\ (c # session \/ phase = "idle")))

Who(c) == Head(news[c]).who
Only(c) == CHOOSE p \in Who(c) : TRUE
Remaining(set) == [p \in set |-> people[p]]

\* What the publication shows when the event is handled; of one who has left since,
\* what it showed last.
LiveInfo(p) ==
    IF p \in here THEN {Info(p)} ELSE [muted : BOOLEAN, speaks : {FALSE}]

PersonConnected(c) ==
    /\ Handling(c, "connected")
    /\ LET p == Only(c) IN
       IF p \in Known
       THEN UNCHANGED <<people, late, held>>
       ELSE /\ \E info \in LiveInfo(p) :
                 people' = [q \in Known \cup {p} |-> IF q = p THEN info ELSE people[q]]
            /\ Changed(c)
            /\ Build(EventTask(c))

PersonDisconnected(c) ==
    /\ Handling(c, "disconnected")
    /\ people' = Remaining(Known \ Who(c))
    /\ Changed(c)
    /\ Build(EventTask(c))

MicChanged(c, type) ==
    /\ Handling(c, type)
    /\ people' = [p \in Known |->
                    IF p \in Who(c) THEN [people[p] EXCEPT !.muted = (type = "muted")]
                                    ELSE people[p]]
    /\ Changed(c)
    /\ Build(EventTask(c))

\* A track subscribed: whoever is not known yet is entered, without a snapshot.
Subscribed(c) ==
    /\ Handling(c, "subscribed")
    /\ people' = [p \in Known \cup Who(c) |-> IF p \in Known THEN people[p] ELSE Info(p)]
    /\ Changed(c)
    /\ UNCHANGED held

\* ActiveSpeakersChanged: nobody else speaks.
SpeakersChanged(c) ==
    /\ Handling(c, "speakers")
    /\ people' = [p \in Known |-> [people[p] EXCEPT !.speaks = (p \in Who(c))]]
    /\ Changed(c)
    /\ UNCHANGED held

--------------------------------------------------------------------------------
PartInit ==
    /\ here = {} /\ muted = {} /\ speaks = {}
    /\ session = 0 /\ phase = "idle"
    /\ news = [c \in Call |-> <<>>]
    /\ people = <<>> /\ mine = "absent" /\ late = FALSE
    /\ held = <<>> /\ list = NoSnapshot
    /\ moves = 0

PartNext ==
    \/ \E p \in Person : Joins(p) \/ Leaves(p) \/ TogglesMic(p)
    \/ \E set \in SUBSET Person : Speaks(set) \/ Connect(set)
    \/ SetUp \/ ToggleMic \/ Clear \/ LoopSnapshot
    \/ \E i \in 1..Len(held) : Sends(i)
    \/ \E c \in Call :
         \/ PersonConnected(c) \/ PersonDisconnected(c) \/ Subscribed(c) \/ SpeakersChanged(c)
         \/ MicChanged(c, "muted") \/ MicChanged(c, "unmuted")

PartSpec == PartInit /\ [][PartNext]_partVars

--------------------------------------------------------------------------------
(* Correctness. *)

Snapshots == [by : Sender, present : SUBSET Person, muted : SUBSET Person,
              mine : {"absent", "muted", "open"}, old : BOOLEAN]

\* Every variable has its type, and a list shows as muted only whom it shows.
PartTypeOK ==
    /\ here \subseteq Person /\ muted \subseteq Person /\ speaks \subseteq here
    /\ session \in 0..MaxCalls
    /\ phase \in {"idle", "connected", "on"}
    /\ \A c \in Call : \A i \in 1..Len(news[c]) : news[c][i].who \subseteq Person
    /\ Known \subseteq Person
    /\ people \in [Known -> [muted : BOOLEAN, speaks : BOOLEAN]]
    /\ mine \in {"absent", "muted", "open"}
    /\ held \in Seq(Snapshots) /\ list \in Snapshots
    /\ list.muted \subseteq list.present
    /\ \A i, j \in 1..Len(held) : held[i].by = held[j].by => i = j
    /\ late \in BOOLEAN /\ moves \in 0..MaxMoves

Handled == phase = "on" /\ news[session] = <<>>

\* When a room's events have been handled the core knows exactly who is in it, who is
\* muted and who speaks, in whatever order people came, went and changed while the
\* room was being set up; unless an event of the room before came after it was closed.
\* The application lists the same, once everything built has been sent, unless an older
\* snapshot has overtaken a newer one between two tasks.
ListFollowsRoom ==
    Handled /\ ~late =>
        /\ people = Infos(here)
        /\ ~list.old /\ held = <<>> =>
             list.present = Known /\ list.muted = {p \in Known : people[p].muted}
             /\ list.mine = mine
================================================================================
