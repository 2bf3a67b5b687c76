------------------------------- MODULE RoomProofs -------------------------------
(***************************************************************************)
(* Theorems about what one core keeps and shows of a room (MCRoom): the    *)
(* list of participants (Participants), the window in which a watcher sees *)
(* the share (Viewer, ViewerSize), the cameras of the others (Cameras),    *)
(* the windows over the monitors (Overlay), the choice of what to share    *)
(* (WindowPicker; what its functions on frames and lists compute is in     *)
(* Facts), the pointers over the share (Pointers), when they are drawn     *)
(* (Redraw), and the types of all of them.                                 *)
(*                                                                         *)
(* Several of the properties speak of the time when the events that wait   *)
(* have been handled.  The inductive invariants say for every state what   *)
(* the events that are left will make of the list, the cameras and the     *)
(* pictures: what was done is what the last event that was handled said,   *)
(* and the last that waits says how it is.                                 *)
(***************************************************************************)
EXTENDS MCRoom, Facts

--------------------------------------------------------------------------------
(* Participants: the events. *)

PersonalType == {"connected", "disconnected", "muted", "unmuted"}
NewsType == PersonalType \cup {"subscribed", "speakers"}
RoomNews ==
    {m \in [type : NewsType, who : SUBSET Person] :
        m.type \in PersonalType => \E p \in Person : m.who = {p}}

Comes(p) == {m \in RoomNews : m.type \in {"connected", "subscribed"} /\ p \in m.who}
Goes(p) == {m \in RoomNews : m.type = "disconnected" /\ p \in m.who}
AnyoneGoes == {m \in RoomNews : m.type = "disconnected"}
Mics(p) == {m \in RoomNews : m.type \in {"muted", "unmuted"} /\ p \in m.who}
MicsTo(p, off) == {m \in Mics(p) : m.type = "muted" <=> off}
Voices == {m \in RoomNews : m.type = "speakers"}
VoicesTo(p, loud) == {m \in Voices : p \in m.who <=> loud}

LEMMA PersonalNews ==
  ASSUME NEW type \in PersonalType, NEW p \in Person
  PROVE  /\ News(type, p) \in RoomNews
         /\ News(type, p).type = type /\ News(type, p).who = {p}
  BY DEF News, RoomNews, NewsType, PersonalType

LEMMA CommonNews ==
  ASSUME NEW type \in {"subscribed", "speakers"}, NEW set \in SUBSET Person
  PROVE  /\ [type |-> type, who |-> set] \in RoomNews
         /\ [type |-> type, who |-> set].type = type
         /\ [type |-> type, who |-> set].who = set
  BY DEF RoomNews, NewsType, PersonalType

\* What an event is about.
LEMMA NewsSets ==
  ASSUME NEW m \in RoomNews, NEW x
  PROVE  /\ m \in Comes(x) <=> m.type \in {"connected", "subscribed"} /\ x \in m.who
         /\ m \in Goes(x) <=> m.type = "disconnected" /\ x \in m.who
         /\ m \in AnyoneGoes <=> m.type = "disconnected"
         /\ m \in Mics(x) <=> m.type \in {"muted", "unmuted"} /\ x \in m.who
         /\ m \in Voices <=> m.type = "speakers"
         /\ \A off \in BOOLEAN :
              m \in MicsTo(x, off) <=> m \in Mics(x) /\ (m.type = "muted" <=> off)
         /\ \A loud \in BOOLEAN :
              m \in VoicesTo(x, loud) <=> m \in Voices /\ (x \in m.who <=> loud)
  BY DEF Comes, Goes, AnyoneGoes, Mics, Voices, MicsTo, VoicesTo

--------------------------------------------------------------------------------
(* Participants: the inductive invariant. *)

Info0 == [muted : BOOLEAN, speaks : BOOLEAN]

PartTypes ==
    /\ here \subseteq Person /\ muted \subseteq here /\ speaks \subseteq here
    /\ session \in 0..MaxCalls /\ phase \in {"idle", "connected", "on"}
    /\ phase # "idle" => session \in Call
    /\ phase = "idle" => here = {}
    /\ news \in [Call -> Seq(RoomNews)]
    /\ Known \subseteq Person /\ people \in [Known -> Info0]
    /\ mine \in {"absent", "muted", "open"}
    /\ held \in Seq(Snapshots) /\ list \in Snapshots
    /\ late \in BOOLEAN

IsMuted(p) == people[p].muted
IsSpeaking(p) == people[p].speaks
MutedNow == {p \in Known : people[p].muted}

\* The last event of S in q says what is so, if p does not go after it; without one the
\* core knows it already.
Due(q, p, S, T, knows) ==
    \/ EndsIn(q, S \cup Goes(p), T)
    \/ EndsIn(q, S \cup Goes(p), Goes(p))
    \/ Lacks(q, S \cup Goes(p)) /\ (p \in Known => knows)

PresenceDue(q, p) ==
    LET moving == Comes(p) \cup Goes(p) IN
    \/ EndsIn(q, moving, IF p \in here THEN Comes(p) ELSE Goes(p))
    \/ Lacks(q, moving) /\ (phase = "on" => (p \in Known <=> p \in here))
MicDue(q, p) == Due(q, p, Mics(p), MicsTo(p, p \in muted), IsMuted(p) <=> p \in muted)
SpeechDue(q, p) ==
    Due(q, p, Voices, VoicesTo(p, p \in speaks), IsSpeaking(p) <=> p \in speaks)

\* Nothing is said of the microphone of one who is not there, but before he goes.
NoMic(q, p) ==
    \/ EndsIn(q, Mics(p) \cup Goes(p), Goes(p))
    \/ Lacks(q, Mics(p) \cup Goes(p))
EventsTell(q, p) ==
    /\ PresenceDue(q, p) /\ SpeechDue(q, p)
    /\ p \in here => MicDue(q, p)
    /\ p \notin here => NoMic(q, p)

\* A person is entered without a snapshot only if a snapshot follows, because somebody
\* goes: he has connected just before, or was there when the call began.
Excused == ~Lacks(news[session], AnyoneGoes)
There == IF phase = "on" THEN Known ELSE here
InTurn(q, excused, entered) ==
    \A i \in DOMAIN q :
      q[i].type = "subscribed" =>
        IF i = 1 THEN excused \/ q[i].who \subseteq entered
                 ELSE q[i - 1].type = "connected" /\ q[i - 1].who = q[i].who
TracksEntered == InTurn(news[session], Excused, There)

\* The last snapshot built shows what is so: it is still to be sent, or has been.
Fresh(s) == s.present = Known /\ s.muted = MutedNow /\ s.mine = mine
ListIsDue ==
    \/ held # <<>> /\ ~held[Len(held)].old /\ Fresh(held[Len(held)])
    \/ (\A i \in 1..Len(held) : held[i].old) /\ (list.old \/ Fresh(list))

RoomFollowed ==
    /\ phase # "on" => people = <<>>
    /\ Connected => (\A p \in Person : EventsTell(news[session], p)) /\ TracksEntered
    /\ phase = "on" => Excused \/ ListIsDue

PartInv == PartTypes /\ (~late => RoomFollowed)

LEMMA EnteredAppend ==
  ASSUME NEW q \in Seq(RoomNews), NEW m \in RoomNews,
         NEW e \in BOOLEAN, NEW f \in BOOLEAN, NEW k, NEW l,
         InTurn(q, e, k), e => f, f \/ k \subseteq l,
         m.type = "subscribed" =>
           q # <<>> /\ q[Len(q)].type = "connected" /\ q[Len(q)].who = m.who
  PROVE  InTurn(Append(q, m), f, l)
  <1> DEFINE rest == Append(q, m)
  <1>1. /\ Len(q) \in Nat /\ DOMAIN q = 1..Len(q) /\ DOMAIN rest = 1..(Len(q) + 1)
        /\ \A i \in 1..Len(q) : rest[i] = q[i]
        /\ rest[Len(q) + 1] = m
        /\ q # <<>> => Len(q) # 0
    BY AppendProperties, LenProperties, EmptySeq
  <1> HIDE DEF rest
  <1> SUFFICES ASSUME NEW i \in DOMAIN rest, rest[i].type = "subscribed"
               PROVE  IF i = 1 THEN f \/ rest[i].who \subseteq l
                      ELSE rest[i - 1].type = "connected" /\ rest[i - 1].who = rest[i].who
    BY DEF InTurn, rest
  <1>2. CASE i = Len(q) + 1
    <2>1. Len(q) # 0 /\ i # 1 /\ i - 1 = Len(q) /\ i - 1 \in 1..Len(q)
      BY <1>1, <1>2
    <2> QED BY <1>1, <1>2, <2>1
  <1>3. CASE i # Len(q) + 1
    <2>1. i \in 1..Len(q) /\ (i # 1 => i - 1 \in 1..Len(q))
      BY <1>1, <1>3
    <2>2. rest[i] = q[i] /\ (i # 1 => rest[i - 1] = q[i - 1])
      BY <1>1, <2>1
    <2> QED BY ZenonT(60), <1>1, <2>1, <2>2 DEF InTurn
  <1> QED BY <1>2, <1>3

LEMMA EnteredTail ==
  ASSUME NEW q \in Seq(RoomNews), q # <<>>, NEW e \in BOOLEAN, NEW f \in BOOLEAN, NEW k, NEW l,
         InTurn(q, e, k), Head(q).type = "connected" => Head(q).who \subseteq l
  PROVE  InTurn(Tail(q), f, l)
  <1> DEFINE rest == Tail(q)
  <1>1. /\ Len(q) \in Nat \ {0} /\ DOMAIN q = 1..Len(q) /\ Head(q) = q[1]
        /\ DOMAIN rest = 1..(Len(q) - 1)
        /\ \A i \in 1..(Len(q) - 1) : rest[i] = q[i + 1]
    BY HeadTailProperties, LenProperties, EmptySeq
  <1> HIDE DEF rest
  <1> SUFFICES ASSUME NEW i \in DOMAIN rest, rest[i].type = "subscribed"
               PROVE  IF i = 1 THEN f \/ rest[i].who \subseteq l
                      ELSE rest[i - 1].type = "connected" /\ rest[i - 1].who = rest[i].who
    BY DEF InTurn, rest
  <1>2. /\ i + 1 \in DOMAIN q /\ i + 1 # 1 /\ (i + 1) - 1 = i /\ rest[i] = q[i + 1]
        /\ i # 1 => i - 1 \in DOMAIN rest /\ (i - 1) + 1 = i
    BY <1>1
  <1>3. q[i].type = "connected" /\ q[i].who = rest[i].who
    BY <1>2 DEF InTurn
  <1>4. i # 1 => rest[i - 1] = q[i]
    BY <1>1, <1>2
  <1> QED BY <1>1, <1>3, <1>4

--------------------------------------------------------------------------------
(* Participants: the initial state. *)

LEMMA NoPerson == DOMAIN <<>> = {} /\ <<>> \in [{} -> Info0]
  <1>1. <<>> \in Seq(Info0) /\ Len(<<>>) = 0
    BY EmptySeq
  <1>2. <<>> \in [1..0 -> Info0] /\ DOMAIN <<>> = 1..0
    BY <1>1, LenProperties
  <1>3. 1..0 = {}
    OBVIOUS
  <1> QED BY <1>2, <1>3

LEMMA NobodyKnown == people = <<>> => Known = {} /\ people \in [Known -> Info0]
  BY NoPerson DEF Known

LEMMA PartInitInv == PartInit => PartInv
  <1> SUFFICES ASSUME PartInit PROVE PartInv
    OBVIOUS
  <1> USE PersonAssumption DEF PartInit
  <1>1. Known = {} /\ people \in [Known -> Info0]
    BY NobodyKnown
  <1>2. NoSnapshot \in Snapshots
    BY DEF NoSnapshot, Snapshots, Sender
  <1>3. news \in [Call -> Seq(RoomNews)] /\ held \in Seq(Snapshots)
    BY EmptySeq
  <1>4. here \subseteq Person /\ muted \subseteq here /\ speaks \subseteq here
    OBVIOUS
  <1>5. session \in 0..MaxCalls
    OBVIOUS
  <1>6. PartTypes
    BY <1>1, <1>2, <1>3, <1>4, <1>5 DEF PartTypes
  <1>7. RoomFollowed
    BY DEF RoomFollowed, Connected
  <1> QED BY <1>6, <1>7 DEF PartInv

--------------------------------------------------------------------------------
(* Participants: what happens at LiveKit. *)

LEMMA PostedQueue ==
  ASSUME PartTypes, Connected, UNCHANGED session
  PROVE  /\ session \in Call /\ news[session] \in Seq(RoomNews)
         /\ \A m \in RoomNews : Posted(<<m>>) =>
              /\ news' \in [Call -> Seq(RoomNews)]
              /\ news'[session] = Append(news[session], m)
         /\ \A m, n \in RoomNews : Posted(<<m, n>>) =>
              /\ news' \in [Call -> Seq(RoomNews)]
              /\ news'[session] = Append(Append(news[session], m), n)
  <1>1. session \in Call /\ news \in [Call -> Seq(RoomNews)] /\ news[session] \in Seq(RoomNews)
    BY DEF PartTypes, Connected
  <1>2. ASSUME NEW m \in RoomNews, Posted(<<m>>)
        PROVE  /\ news' \in [Call -> Seq(RoomNews)]
               /\ news'[session] = Append(news[session], m)
    BY <1>1, <1>2, ConcatQueue, AppendProperties DEF Posted
  <1>3. ASSUME NEW m \in RoomNews, NEW n \in RoomNews, Posted(<<m, n>>)
        PROVE  /\ news' \in [Call -> Seq(RoomNews)]
               /\ news'[session] = Append(Append(news[session], m), n)
    <2>1. Append(news[session], m) \in Seq(RoomNews)
      BY <1>1, AppendProperties
    <2>2. Append(Append(news[session], m), n) \in Seq(RoomNews)
      BY <2>1, AppendProperties
    <2> QED BY <1>1, <1>3, <2>2, ConcatQueue DEF Posted
  <1> QED BY <1>1, <1>2, <1>3

LEMMA DueAppend ==
  ASSUME NEW q \in Seq(RoomNews), NEW m \in RoomNews, NEW p, NEW S, NEW T, NEW k \in BOOLEAN
  PROVE  /\ m \in T \cup Goes(p) => Due(Append(q, m), p, S, T, k)
         /\ m \notin S \cup Goes(p) /\ Due(q, p, S, T, k) => Due(Append(q, m), p, S, T, k)
  <1>1. m \in T \cup Goes(p) => Due(Append(q, m), p, S, T, k)
    BY AppendQueue DEF Due
  <1>2. ASSUME m \notin S \cup Goes(p), Due(q, p, S, T, k)
        PROVE  Due(Append(q, m), p, S, T, k)
    BY <1>2, AppendQueue DEF Due
  <1> QED BY <1>1, <1>2

\* An event that is not about p.
LEMMA NotAbout ==
  ASSUME NEW q \in Seq(RoomNews), NEW m \in RoomNews, NEW p \in Person,
         m \notin Comes(p) \cup Goes(p)
  PROVE  /\ PresenceDue(q, p) => PresenceDue(Append(q, m), p)
         /\ m \notin Voices /\ SpeechDue(q, p) => SpeechDue(Append(q, m), p)
         /\ m \notin Mics(p) /\ MicDue(q, p) => MicDue(Append(q, m), p)
         /\ m \notin Mics(p) /\ NoMic(q, p) => NoMic(Append(q, m), p)
  <1>1. PresenceDue(q, p) => PresenceDue(Append(q, m), p)
    <2> DEFINE moving == Comes(p) \cup Goes(p)
    <2> DEFINE so == IF p \in here THEN Comes(p) ELSE Goes(p)
    <2>1. /\ EndsIn(q, moving, so) => EndsIn(Append(q, m), moving, so)
          /\ Lacks(q, moving) => Lacks(Append(q, m), moving)
      BY AppendQueue
    <2> QED BY <2>1 DEF PresenceDue
  <1>2. m \notin Voices /\ SpeechDue(q, p) => SpeechDue(Append(q, m), p)
    BY DueAppend DEF SpeechDue
  <1>3. m \notin Mics(p) /\ MicDue(q, p) => MicDue(Append(q, m), p)
    BY DueAppend DEF MicDue
  <1>4. m \notin Mics(p) /\ NoMic(q, p) => NoMic(Append(q, m), p)
    <2> DEFINE about == Mics(p) \cup Goes(p)
    <2>1. m \notin Mics(p) =>
            /\ EndsIn(q, about, Goes(p)) => EndsIn(Append(q, m), about, Goes(p))
            /\ Lacks(q, about) => Lacks(Append(q, m), about)
      BY AppendQueue
    <2> QED BY <2>1 DEF NoMic
  <1> QED BY <1>1, <1>2, <1>3, <1>4

\* Whose standing in the room has not changed.
LEMMA SameStanding ==
  ASSUME NEW x \in Person, UNCHANGED <<session, people, phase>>,
         x \in here' <=> x \in here, x \in muted' <=> x \in muted,
         x \in speaks' <=> x \in speaks,
         EventsTell(news'[session], x)
  PROVE  EventsTell(news[session], x)'
  <1>1. /\ Known' = Known /\ (IsMuted(x)' <=> IsMuted(x)) /\ (IsSpeaking(x)' <=> IsSpeaking(x))
    BY DEF Known, IsMuted, IsSpeaking
  <1>2. (x \in muted') = (x \in muted) /\ (x \in speaks') = (x \in speaks)
    OBVIOUS
  <1>3. PresenceDue(news'[session], x) => PresenceDue(news[session], x)'
    BY <1>1 DEF PresenceDue
  <1>4. SpeechDue(news'[session], x) => SpeechDue(news[session], x)'
    BY <1>1, <1>2 DEF SpeechDue, Due
  <1>5. MicDue(news'[session], x) => MicDue(news[session], x)'
    BY <1>1, <1>2 DEF MicDue, Due
  <1>6. NoMic(news'[session], x) => NoMic(news[session], x)'
    BY DEF NoMic
  <1> QED BY <1>3, <1>4, <1>5, <1>6 DEF EventsTell

LEMMA MoveKeeps ==
  ASSUME PartInv, AtLiveKit, PartTypes',
         ~late => /\ \A x \in Person : EventsTell(news[session], x)'
                  /\ TracksEntered'
                  /\ Excused => Excused'
  PROVE  PartInv'
  <1>1. UNCHANGED <<session, phase, people, mine, late, held, list>> /\ Connected
    BY DEF AtLiveKit, mapVars, listVars
  <1>2. /\ Known' = Known /\ MutedNow' = MutedNow
    BY <1>1 DEF Known, MutedNow
  <1>3. ListIsDue => ListIsDue'
    BY <1>1, <1>2 DEF ListIsDue, Fresh
  <1> QED BY <1>1, <1>3 DEF PartInv, RoomFollowed

LEMMA JoinsKeep ==
  ASSUME PartInv, NEW p \in Person, Joins(p)
  PROVE  PartInv'
  <1> DEFINE q == news[session]
  <1> DEFINE m == News("connected", p)
  <1> DEFINE n == News("subscribed", p)
  <1> DEFINE qm == Append(q, m)
  <1> DEFINE r == Append(qm, n)
  <1>1. /\ UNCHANGED <<session, phase, people, mine, late, held, list, speaks>> /\ Connected
        /\ AtLiveKit /\ p \notin here /\ here' = here \cup {p} /\ Posted(<<m, n>>)
        /\ muted' \in {muted, muted \cup {p}}
    BY DEF Joins, AtLiveKit, mapVars, listVars
  <1>2. /\ m \in RoomNews /\ m.type = "connected" /\ m.who = {p}
        /\ n \in RoomNews /\ n.type = "subscribed" /\ n.who = {p}
    BY PersonalNews, CommonNews DEF PersonalType, News
  <1>3. /\ session \in Call /\ q \in Seq(RoomNews)
        /\ news' \in [Call -> Seq(RoomNews)] /\ news'[session] = r
        /\ qm \in Seq(RoomNews) /\ qm # <<>> /\ qm[Len(qm)] = m /\ r \in Seq(RoomNews)
    <2>1. session \in Call /\ q \in Seq(RoomNews)
      BY <1>1, PostedQueue DEF PartInv
    <2>2. /\ news' \in [Call -> Seq(RoomNews)] /\ news'[session] = r
      BY <1>1, <1>2, PostedQueue DEF PartInv
    <2> HIDE DEF q, m, n
    <2>3. qm \in Seq(RoomNews) /\ qm # <<>> /\ qm[Len(qm)] = m
      BY <1>2, <2>1, AppendProperties, AppendQueue
    <2> HIDE DEF qm
    <2>4. r \in Seq(RoomNews)
      BY <1>2, <2>3, AppendProperties
    <2> QED BY <2>1, <2>2, <2>3, <2>4
  <1> HIDE DEF q, m, n, qm, r
  <1>r. \A S, T :
        /\ Lacks(r, S) <=> Lacks(q, S) /\ m \notin S /\ n \notin S
        /\ n \in T => EndsIn(r, S, T)
        /\ m \notin S /\ n \notin S /\ EndsIn(q, S, T) => EndsIn(r, S, T)
    <2> TAKE S, T
    <2>1. /\ Lacks(qm, S) <=> Lacks(q, S) /\ m \notin S
          /\ m \notin S /\ EndsIn(q, S, T) => EndsIn(qm, S, T)
      BY <1>2, <1>3, AppendQueue DEF qm
    <2>2. /\ Lacks(r, S) <=> Lacks(qm, S) /\ n \notin S
          /\ n \in T => EndsIn(r, S, T)
          /\ n \notin S /\ EndsIn(qm, S, T) => EndsIn(r, S, T)
      BY <1>2, <1>3, AppendQueue DEF r
    <2> QED BY <2>1, <2>2
  <1>4. PartTypes'
    <2>1. here' \subseteq Person /\ muted' \subseteq here' /\ speaks' \subseteq here'
      BY <1>1 DEF PartInv, PartTypes
    <2> QED BY <1>1, <1>3, <2>1 DEF PartInv, PartTypes, Connected, Known
  <1> SUFFICES ASSUME ~late
               PROVE  /\ \A x \in Person : EventsTell(news[session], x)'
                      /\ TracksEntered'
                      /\ Excused => Excused'
    BY <1>1, <1>4, MoveKeeps
  <1>5. (\A x \in Person : EventsTell(q, x)) /\ InTurn(q, Excused, There)
    BY <1>1 DEF PartInv, RoomFollowed, TracksEntered, q
  <1>6. ASSUME NEW x \in Person, x # p PROVE EventsTell(news[session], x)'
    <2>1. m \notin Comes(x) \cup Goes(x) \cup Voices \cup Mics(x)
      BY <1>2, <1>6, NewsSets
    <2>2. n \notin Comes(x) \cup Goes(x) \cup Voices \cup Mics(x)
      BY <1>2, <1>6, NewsSets
    <2>3. EventsTell(qm, x)
      BY <1>2, <1>3, <1>5, <2>1, NotAbout DEF EventsTell, qm
    <2>4. EventsTell(r, x)
      BY <1>2, <1>3, <2>2, <2>3, NotAbout DEF EventsTell, r
    <2> QED BY <1>1, <1>3, <1>6, <2>4, SameStanding
  <1>7. EventsTell(news[session], p)'
    <2>1. /\ m \notin Goes(p) \cup Voices \cup Mics(p)
          /\ n \notin Goes(p) \cup Voices \cup Mics(p) /\ n \in Comes(p)
      BY <1>2, NewsSets
    <2>2. EndsIn(r, Comes(p) \cup Goes(p), Comes(p))
      BY <1>r, <2>1
    <2>3. SpeechDue(r, p)
      BY <1>5, <1>r, <2>1 DEF EventsTell, SpeechDue, Due
    <2>4. NoMic(r, p) /\ PresenceDue(q, p)
      BY <1>1, <1>5, <1>r, <2>1 DEF EventsTell, NoMic
    <2>5. Lacks(r, Mics(p) \cup Goes(p)) => p \notin Known
      <3>1. Lacks(r, Mics(p) \cup Goes(p)) => Lacks(q, Goes(p))
        BY <1>r DEF Lacks
      <3>2. Lacks(q, Goes(p)) => ~EndsIn(q, Comes(p) \cup Goes(p), Goes(p))
        BY DEF Lacks, EndsIn
      <3>3. phase # "on" => Known = {}
        BY NobodyKnown DEF PartInv, RoomFollowed
      <3> QED BY <1>1, <2>4, <3>1, <3>2, <3>3 DEF PresenceDue
    <2>6. /\ p \in here' /\ Known' = Known /\ (IsSpeaking(p)' <=> IsSpeaking(p)) /\ r = news'[session']
          /\ speaks' = speaks
      BY <1>1, <1>3 DEF Known, IsSpeaking
    <2>7. PresenceDue(news[session], p)'
      BY <2>2, <2>6 DEF PresenceDue
    <2>8. SpeechDue(news[session], p)'
      BY <2>3, <2>6 DEF SpeechDue, Due
    <2>9. MicDue(news[session], p)'
      BY <2>4, <2>5, <2>6 DEF NoMic, MicDue, Due
    <2> QED BY <2>6, <2>7, <2>8, <2>9 DEF EventsTell
  <1>8. Excused => Excused'
    BY <1>1, <1>3, <1>r DEF Excused, q
  <1>9. TracksEntered'
    <2>1. There \subseteq There'
      BY <1>1 DEF There, Known
    <2>2. InTurn(qm, Excused, There)
      BY <1>2, <1>3, <1>5, EnteredAppend DEF Excused, qm
    <2>3. InTurn(r, Excused', There')
      BY <1>2, <1>3, <1>8, <2>1, <2>2, EnteredAppend DEF Excused, r
    <2> QED BY <1>1, <1>3, <2>3 DEF TracksEntered
  <1> QED BY <1>6, <1>7, <1>8, <1>9

\* Leaves, TogglesMic, Speaks: one event, which is not of a track.
LEMMA OneEventKeeps ==
  ASSUME PartInv, AtLiveKit, NEW m \in RoomNews, Posted(<<m>>), m.type # "subscribed",
         here' \subseteq Person, muted' \subseteq here', speaks' \subseteq here',
         m.type = "disconnected" \/ here' = here,
         \A x \in Person :
           EventsTell(news[session], x) => EventsTell(news[session], x)'
  PROVE  PartInv'
  <1> DEFINE q == news[session]
  <1>1. UNCHANGED <<session, phase, people, mine, late, held, list>> /\ Connected
    BY DEF AtLiveKit, mapVars, listVars
  <1>2. /\ session \in Call /\ q \in Seq(RoomNews)
        /\ news' \in [Call -> Seq(RoomNews)] /\ news'[session] = Append(q, m)
    BY <1>1, PostedQueue DEF PartInv
  <1>3. PartTypes'
    BY <1>1, <1>2 DEF PartInv, PartTypes, Connected, Known
  <1> HIDE DEF q
  <1> SUFFICES ASSUME ~late
               PROVE  /\ \A x \in Person : EventsTell(news[session], x)'
                      /\ TracksEntered'
                      /\ Excused => Excused'
    BY <1>3, MoveKeeps
  <1>4. (\A x \in Person : EventsTell(news[session], x)) /\ InTurn(q, Excused, There)
    BY <1>1 DEF PartInv, RoomFollowed, TracksEntered, q
  <1>5. /\ Excused => Excused'
        /\ m.type = "disconnected" => Excused'
    <2>1. Lacks(Append(q, m), AnyoneGoes) <=> Lacks(q, AnyoneGoes) /\ m \notin AnyoneGoes
      BY <1>2, AppendQueue
    <2> QED BY <1>1, <1>2, <2>1, NewsSets DEF Excused, q
  <1>6. Excused' \/ There \subseteq There'
    BY <1>1, <1>5 DEF There, Known
  <1>7. TracksEntered'
    <2>1. InTurn(Append(q, m), Excused', There')
      BY <1>2, <1>4, <1>5, <1>6, EnteredAppend DEF Excused
    <2> QED BY <1>1, <1>2, <2>1 DEF TracksEntered
  <1> QED BY <1>4, <1>5, <1>7

\* The queue after one event.
LEMMA OneEventQueue ==
  ASSUME PartTypes, AtLiveKit, NEW m \in RoomNews, Posted(<<m>>)
  PROVE  /\ news'[session] = Append(news[session], m) /\ news[session] \in Seq(RoomNews)
         /\ UNCHANGED <<session, phase, people>>
         /\ \A S, T :
              /\ Lacks(news'[session], S) <=> Lacks(news[session], S) /\ m \notin S
              /\ m \in T => EndsIn(news'[session], S, T)
              /\ m \notin S /\ EndsIn(news[session], S, T) => EndsIn(news'[session], S, T)
  <1>1. UNCHANGED <<session, phase, people>> /\ Connected
    BY DEF AtLiveKit, mapVars
  <1>2. news'[session] = Append(news[session], m) /\ news[session] \in Seq(RoomNews)
    BY <1>1, PostedQueue
  <1>3. ASSUME NEW S, NEW T
        PROVE  /\ Lacks(Append(news[session], m), S) <=> Lacks(news[session], S) /\ m \notin S
               /\ m \in T => EndsIn(Append(news[session], m), S, T)
               /\ m \notin S /\ EndsIn(news[session], S, T) => EndsIn(Append(news[session], m), S, T)
    BY <1>2, AppendQueue
  <1> QED BY <1>1, <1>2, <1>3

LEMMA EventNotAbout ==
  ASSUME PartTypes, AtLiveKit, NEW m \in RoomNews, Posted(<<m>>), NEW x \in Person,
         m \notin Comes(x) \cup Goes(x)
  PROVE  /\ PresenceDue(news[session], x) => PresenceDue(news'[session], x)
         /\ m \notin Voices /\ SpeechDue(news[session], x) => SpeechDue(news'[session], x)
         /\ m \notin Mics(x) /\ MicDue(news[session], x) => MicDue(news'[session], x)
         /\ m \notin Mics(x) /\ NoMic(news[session], x) => NoMic(news'[session], x)
  <1> DEFINE q == news[session]
  <1>1. news'[session] = Append(q, m) /\ q \in Seq(RoomNews)
    BY OneEventQueue
  <1> HIDE DEF q
  <1>2. /\ PresenceDue(q, x) => PresenceDue(Append(q, m), x)
        /\ m \notin Voices /\ SpeechDue(q, x) => SpeechDue(Append(q, m), x)
        /\ m \notin Mics(x) /\ MicDue(q, x) => MicDue(Append(q, m), x)
        /\ m \notin Mics(x) /\ NoMic(q, x) => NoMic(Append(q, m), x)
    BY <1>1, NotAbout
  <1> QED BY <1>1, <1>2 DEF q

LEMMA LeavesKeep ==
  ASSUME PartInv, NEW p \in Person, Leaves(p)
  PROVE  PartInv'
  <1> DEFINE m == News("disconnected", p)
  <1>1. /\ AtLiveKit /\ Posted(<<m>>)
        /\ here' = here \ {p} /\ muted' = muted \ {p} /\ speaks' = speaks \ {p}
    BY DEF Leaves
  <1>2. m \in RoomNews /\ m.type = "disconnected" /\ m.who = {p}
    BY PersonalNews DEF PersonalType
  <1> HIDE DEF m
  <1>3. ASSUME NEW x \in Person, EventsTell(news[session], x), x # p
        PROVE  EventsTell(news[session], x)'
    <2>1. m \notin Comes(x) \cup Goes(x) \cup Voices \cup Mics(x)
      BY <1>2, <1>3, NewsSets
    <2>2. EventsTell(news'[session], x)
      BY <1>1, <1>2, <1>3, <2>1, EventNotAbout DEF EventsTell, PartInv
    <2> QED BY <1>1, <1>2, <1>3, <2>2, OneEventQueue, SameStanding DEF PartInv
  <1>4. EventsTell(news[session], p)'
    <2>1. m \in Goes(p)
      BY <1>2, NewsSets
    <2>2. \A S : EndsIn(news'[session'], S, Goes(p))
      BY <1>1, <1>2, <2>1, OneEventQueue DEF PartInv
    <2> QED BY <1>1, <2>2 DEF EventsTell, PresenceDue, SpeechDue, Due, NoMic
  <1>5. here' \subseteq Person /\ muted' \subseteq here' /\ speaks' \subseteq here'
    BY <1>1 DEF PartInv, PartTypes
  <1> QED BY <1>1, <1>2, <1>3, <1>4, <1>5, OneEventKeeps

LEMMA TogglesMicKeeps ==
  ASSUME PartInv, NEW p \in Person, TogglesMic(p)
  PROVE  PartInv'
  <1> DEFINE m == News(IF p \in muted THEN "unmuted" ELSE "muted", p)
  <1>1. /\ AtLiveKit /\ Posted(<<m>>) /\ p \in here
        /\ here' = here /\ speaks' = speaks
        /\ muted' = IF p \in muted THEN muted \ {p} ELSE muted \cup {p}
    BY DEF TogglesMic
  <1>2. /\ m \in RoomNews /\ m.type = (IF p \in muted THEN "unmuted" ELSE "muted")
        /\ m.who = {p}
    BY PersonalNews DEF PersonalType
  <1> HIDE DEF m
  <1>3. ASSUME NEW x \in Person, EventsTell(news[session], x), x # p
        PROVE  EventsTell(news[session], x)'
    <2>1. m \notin Comes(x) \cup Goes(x) \cup Voices \cup Mics(x)
      BY <1>2, <1>3, NewsSets
    <2>2. EventsTell(news'[session], x)
      BY <1>1, <1>2, <1>3, <2>1, EventNotAbout DEF EventsTell, PartInv
    <2> QED BY <1>1, <1>2, <1>3, <2>2, OneEventQueue, SameStanding DEF PartInv
  <1>4. ASSUME EventsTell(news[session], p)
        PROVE  EventsTell(news[session], p)'
    <2>1. m \notin Comes(p) \cup Goes(p) \cup Voices /\ m \in Mics(p)
      BY <1>1, <1>2, NewsSets
    <2>m. m \in MicsTo(p, p \in muted')
      BY <1>1, <1>2, <2>1 DEF MicsTo
    <2>2. PresenceDue(news'[session], p) /\ SpeechDue(news'[session], p)
      BY <1>1, <1>2, <1>4, <2>1, EventNotAbout DEF EventsTell, PartInv
    <2>3. /\ UNCHANGED <<session, phase, people, here, speaks>> /\ Known' = Known
          /\ IsSpeaking(p)' <=> IsSpeaking(p)
      BY <1>1, <1>2, OneEventQueue DEF PartInv, Known, IsSpeaking
    <2>4. EndsIn(news'[session'], Mics(p) \cup Goes(p), MicsTo(p, p \in muted'))
      BY <1>1, <1>2, <2>m, <2>3, OneEventQueue DEF PartInv
    <2>5. PresenceDue(news[session], p)'
      BY <2>2, <2>3 DEF PresenceDue
    <2>6. SpeechDue(news[session], p)'
      BY <2>2, <2>3 DEF SpeechDue, Due
    <2>7. MicDue(news[session], p)'
      BY <2>4 DEF MicDue, Due
    <2> QED BY <1>1, <2>5, <2>6, <2>7 DEF EventsTell
  <1>5. here' \subseteq Person /\ muted' \subseteq here' /\ speaks' \subseteq here'
    BY <1>1 DEF PartInv, PartTypes
  <1>6. m.type # "subscribed"
    BY <1>2
  <1> QED BY <1>1, <1>2, <1>3, <1>4, <1>5, <1>6, OneEventKeeps

LEMMA SpeaksKeep ==
  ASSUME PartInv, NEW set \in SUBSET Person, Speaks(set)
  PROVE  PartInv'
  <1> DEFINE m == [type |-> "speakers", who |-> set]
  <1>1. /\ AtLiveKit /\ Posted(<<m>>) /\ set \subseteq here
        /\ here' = here /\ muted' = muted /\ speaks' = set
    BY DEF Speaks
  <1>2. m \in RoomNews /\ m.type = "speakers" /\ m.who = set
    BY CommonNews
  <1> HIDE DEF m
  <1>3. ASSUME NEW x \in Person, EventsTell(news[session], x)
        PROVE  EventsTell(news[session], x)'
    <2>1. m \notin Comes(x) \cup Goes(x) \cup Mics(x) /\ m \in Voices
      BY <1>1, <1>2, NewsSets
    <2>m. m \in VoicesTo(x, x \in speaks')
      BY <1>1, <1>2, <2>1 DEF VoicesTo
    <2>2. /\ PresenceDue(news'[session], x)
          /\ x \in here => MicDue(news'[session], x)
          /\ x \notin here => NoMic(news'[session], x)
      BY <1>1, <1>2, <1>3, <2>1, EventNotAbout DEF EventsTell, PartInv
    <2>3. /\ UNCHANGED <<session, phase, people, here, muted>> /\ Known' = Known
          /\ IsMuted(x)' <=> IsMuted(x)
      BY <1>1, <1>2, OneEventQueue DEF PartInv, Known, IsMuted
    <2>4. EndsIn(news'[session'], Voices \cup Goes(x), VoicesTo(x, x \in speaks'))
      BY <1>1, <1>2, <2>m, <2>3, OneEventQueue DEF PartInv
    <2>5. PresenceDue(news[session], x)'
      BY <2>2, <2>3 DEF PresenceDue
    <2>6. SpeechDue(news[session], x)'
      BY <2>4 DEF SpeechDue, Due
    <2>7. x \in here' => MicDue(news[session], x)'
      BY <2>2, <2>3 DEF MicDue, Due
    <2>8. x \notin here' => NoMic(news[session], x)'
      BY <2>2, <2>3 DEF NoMic
    <2> QED BY <2>5, <2>6, <2>7, <2>8 DEF EventsTell
  <1>4. here' \subseteq Person /\ muted' \subseteq here' /\ speaks' \subseteq here'
    BY <1>1 DEF PartInv, PartTypes
  <1>5. m.type # "subscribed"
    BY <1>2
  <1> QED BY <1>1, <1>2, <1>3, <1>4, <1>5, OneEventKeeps

--------------------------------------------------------------------------------
(* Participants: snapshots and commands. *)

\* A snapshot shows what is so when it is built, and is the last that was.
LEMMA BuildIsDue ==
  ASSUME PartTypes, NEW s \in Sender, Build(s), Known' \subseteq Person,
         mine' \in {"absent", "muted", "open"}
  PROVE  held' \in Seq(Snapshots) /\ ListIsDue'
  <1> DEFINE t == Snapshot(s)'
  <1>1. /\ t \in Snapshots /\ ~t.old
        /\ t.present = Known' /\ t.muted = MutedNow' /\ t.mine = mine'
    BY DEF Snapshot, Snapshots, MutedNow
  <1>2. held \in Seq(Snapshots) /\ held' = Append(held, t)
    BY DEF PartTypes, Build
  <1> HIDE DEF t
  <1>3. held' \in Seq(Snapshots) /\ held' # <<>> /\ held'[Len(held')] = t
    BY <1>1, <1>2, AppendProperties, AppendQueue
  <1> QED BY <1>1, <1>3 DEF ListIsDue, Fresh

\* The room, what has been told and what is known of it are the same.
LEMMA SameRoom ==
  ASSUME UNCHANGED <<here, muted, speaks, session, phase, people>>,
         news'[session] = news[session]
  PROVE  /\ \A x : EventsTell(news[session], x) => EventsTell(news[session], x)'
         /\ TracksEntered => TracksEntered'
         /\ Excused' <=> Excused
         /\ Known' = Known /\ MutedNow' = MutedNow
  <1>1. /\ Known' = Known /\ MutedNow' = MutedNow /\ There' = There
        /\ \A x : (IsMuted(x)' <=> IsMuted(x)) /\ (IsSpeaking(x)' <=> IsSpeaking(x))
    BY DEF Known, MutedNow, IsMuted, IsSpeaking, There
  <1>2. Excused' <=> Excused
    BY DEF Excused
  <1>3. TracksEntered => TracksEntered'
    BY <1>1, <1>2 DEF TracksEntered, InTurn
  <1>4. ASSUME NEW x, EventsTell(news[session], x) PROVE EventsTell(news[session], x)'
    <2>1. PresenceDue(news[session], x)'
      BY <1>1, <1>4 DEF EventsTell, PresenceDue
    <2>2. SpeechDue(news[session], x)'
      BY <1>1, <1>4 DEF EventsTell, SpeechDue, Due
    <2>3. x \in here' => MicDue(news[session], x)'
      BY <1>1, <1>4 DEF EventsTell, MicDue, Due
    <2>4. x \notin here' => NoMic(news[session], x)'
      BY <1>4 DEF EventsTell, NoMic
    <2> QED BY <2>1, <2>2, <2>3, <2>4 DEF EventsTell
  <1> QED BY <1>1, <1>2, <1>3, <1>4

LEMMA SnapshotKeeps ==
  ASSUME PartInv, LoopSnapshot \/ ToggleMic
  PROVE  PartInv'
  <1>1. /\ UNCHANGED <<here, muted, speaks, session, phase, news, people, late, list>>
        /\ mine' = mine \/ mine' \in {"muted", "open"}
        /\ Build(Loop) \/ Build(Commands)
    BY DEF LoopSnapshot, ToggleMic, roomVars, mapVars
  <1>2. held' \in Seq(Snapshots) /\ ListIsDue'
    <2>1. PartTypes /\ Known' \subseteq Person /\ mine' \in {"absent", "muted", "open"}
      BY <1>1, SameRoom DEF PartInv, PartTypes
    <2>2. Loop \in Sender /\ Commands \in Sender
      BY DEF Sender
    <2> QED BY <1>1, <2>1, <2>2, BuildIsDue
  <1>3. PartTypes'
    BY <1>1, <1>2, SameRoom DEF PartInv, PartTypes
  <1>4. RoomFollowed => RoomFollowed'
    BY <1>1, <1>2, SameRoom DEF RoomFollowed, Connected
  <1> QED BY <1>1, <1>3, <1>4 DEF PartInv

LEMMA SendsKeeps ==
  ASSUME PartInv, NEW i \in 1..Len(held), Sends(i)
  PROVE  PartInv'
  <1> DEFINE n == Len(held)
  <1> DEFINE before == [j \in 1..(i - 1) |-> [held[j] EXCEPT !.old = TRUE]]
  <1> DEFINE after == SubSeq(held, i + 1, Len(held))
  <1>1. /\ UNCHANGED <<here, muted, speaks, session, phase, news, people, mine, late>>
        /\ list' = [held[i] EXCEPT !.by = QueuedResult] /\ held' = before \o after
    BY DEF Sends, roomVars, mapVars
  <1>2. /\ held \in Seq(Snapshots) /\ n \in Nat /\ i \in 1..n
        /\ \A j \in 1..n : held[j] \in Snapshots
    <2>1. held \in Seq(Snapshots)
      BY DEF PartInv, PartTypes
    <2> QED BY <2>1, LenProperties, ElementOfSeq
  <1>3. \A j \in 1..n : /\ [held[j] EXCEPT !.old = TRUE] \in Snapshots
                        /\ [held[j] EXCEPT !.old = TRUE].old = TRUE
    BY <1>2 DEF Snapshots
  <1>4. /\ list' \in Snapshots /\ list'.old = held[i].old
        /\ list'.present = held[i].present /\ list'.muted = held[i].muted
        /\ list'.mine = held[i].mine
    BY <1>1, <1>2 DEF Snapshots, Sender
  <1>5. /\ before \in Seq(Snapshots) /\ Len(before) = i - 1
        /\ \A j \in 1..(i - 1) : before[j].old = TRUE
    <2>1. i - 1 \in Nat /\ \A j \in 1..(i - 1) : j \in 1..n
      BY <1>2
    <2>2. before \in [1..(i - 1) -> Snapshots]
      BY <1>3, <2>1
    <2>3. before \in Seq(Snapshots) /\ Len(before) = i - 1
      BY <2>1, <2>2
    <2> QED BY <1>3, <2>1, <2>3
  <1>6. /\ after \in Seq(Snapshots) /\ Len(after) = n - i
        /\ \A j \in 1..(n - i) : after[j] = held[j + i]
    <2>1. \A j \in (i + 1)..n : held[j] \in Snapshots
      BY <1>2
    <2>2. i + 1 \in Int /\ n \in Int
      BY <1>2
    <2>3. /\ after \in Seq(Snapshots)
          /\ Len(after) = IF i + 1 <= n THEN n - (i + 1) + 1 ELSE 0
          /\ \A j \in 1..(n - (i + 1) + 1) : after[j] = held[i + 1 + j - 1]
      BY <2>1, <2>2, SubSeqProperties
    <2> HIDE DEF after
    <2>4. /\ n - (i + 1) + 1 = n - i
          /\ (IF i + 1 <= n THEN n - (i + 1) + 1 ELSE 0) = n - i
          /\ \A j \in 1..(n - i) : i + 1 + j - 1 = j + i
      BY <1>2
    <2>5. Len(after) = n - i
      BY <2>3, <2>4
    <2>6. ASSUME NEW j \in 1..(n - i) PROVE after[j] = held[j + i]
      <3>1. after[j] = held[i + 1 + j - 1]
        BY <2>3, <2>4
      <3>2. i + 1 + j - 1 = j + i
        BY <2>4
      <3> QED BY <3>1, <3>2
    <2> QED BY <2>3, <2>5, <2>6
  <1> HIDE DEF before, after
  <1>7. /\ held' \in Seq(Snapshots) /\ Len(held') = n - 1
        /\ \A j \in 1..(n - 1) : IF j < i THEN held'[j].old = TRUE ELSE held'[j] = held[j + 1]
    <2>1. /\ held' \in Seq(Snapshots) /\ Len(held') = (i - 1) + (n - i)
          /\ \A j \in 1..((i - 1) + (n - i)) :
               held'[j] = IF j <= i - 1 THEN before[j] ELSE after[j - (i - 1)]
      <3>1. /\ before \o after \in Seq(Snapshots)
            /\ Len(before \o after) = Len(before) + Len(after)
            /\ \A j \in 1..(Len(before) + Len(after)) :
                 (before \o after)[j] =
                   IF j <= Len(before) THEN before[j] ELSE after[j - Len(before)]
        BY <1>5, <1>6, ConcatProperties
      <3>2. Len(before) = i - 1 /\ Len(after) = n - i
        BY <1>5, <1>6
      <3> QED BY <1>1, <3>1, <3>2, Zenon
    <2>2. (i - 1) + (n - i) = n - 1
      BY <1>2
    <2>3. ASSUME NEW j \in 1..(n - 1)
          PROVE  IF j < i THEN held'[j].old = TRUE ELSE held'[j] = held[j + 1]
      <3>1. CASE j < i
        <4>1. j <= i - 1 /\ j \in 1..(i - 1)
          BY <1>2, <3>1
        <4> QED BY <1>5, <2>1, <2>2, <3>1, <4>1
      <3>2. CASE ~(j < i)
        <4>1. ~(j <= i - 1) /\ j - (i - 1) \in 1..(n - i) /\ (j - (i - 1)) + i = j + 1
          BY <1>2, <3>2
        <4> QED BY <1>6, <2>1, <2>2, <3>2, <4>1
      <3> QED BY <3>1, <3>2
    <2> QED BY <2>1, <2>2, <2>3
  <1>8. PartTypes'
    BY <1>1, <1>4, <1>7, SameRoom DEF PartInv, PartTypes
  <1>9. ListIsDue => ListIsDue'
    <2>1. ASSUME ~held[n].old, Fresh(held[n]), i = n PROVE ListIsDue'
      <3>1. ~list'.old /\ Fresh(list)'
        BY <1>1, <1>4, <2>1, SameRoom DEF Fresh
      <3>2. \A j \in 1..Len(held') : held'[j].old
        <4>1. \A j \in 1..(n - 1) : j < i
          BY <1>2, <2>1
        <4> QED BY <1>7, <4>1
      <3> QED BY <3>1, <3>2 DEF ListIsDue
    <2>2. ASSUME ~held[n].old, Fresh(held[n]), i # n PROVE ListIsDue'
      <3>1. n - 1 \in 1..(n - 1) /\ ~(n - 1 < i) /\ (n - 1) + 1 = n
        BY <1>2, <2>2
      <3>2. held'[Len(held')] = held[n] /\ held' # <<>>
        BY <1>7, <3>1, EmptySeq
      <3> QED BY <1>1, <2>2, <3>2, SameRoom DEF ListIsDue, Fresh
    <2>3. ASSUME \A j \in 1..n : held[j].old PROVE ListIsDue'
      <3>1. list'.old
        BY <1>2, <1>4, <2>3
      <3>2. \A j \in 1..Len(held') : held'[j].old
        <4>1. \A j \in 1..(n - 1) : j + 1 \in 1..n
          BY <1>2
        <4> QED BY <1>7, <2>3, <4>1
      <3> QED BY <3>1, <3>2 DEF ListIsDue
    <2> QED BY <2>1, <2>2, <2>3 DEF ListIsDue
  <1>10. RoomFollowed => RoomFollowed'
    BY <1>1, <1>9, SameRoom DEF RoomFollowed, Connected
  <1> QED BY <1>1, <1>8, <1>10 DEF PartInv

LEMMA OneNewsQueue ==
  ASSUME NEW m \in RoomNews
  PROVE  /\ <<m>> \in Seq(RoomNews) /\ DOMAIN <<m>> = {1} /\ <<m>>[1] = m
         /\ \A S, T : /\ Lacks(<<m>>, S) <=> m \notin S
                      /\ m \in T => EndsIn(<<m>>, S, T)
  <1>1. <<m>> \in Seq(RoomNews) /\ DOMAIN <<m>> = {1} /\ <<m>>[1] = m
    OBVIOUS
  <1>2. ~(1 > 1)
    OBVIOUS
  <1> HIDE <1>1
  <1> QED BY <1>1, <1>2 DEF Lacks, EndsIn

LEMMA ConnectKeeps ==
  ASSUME PartInv, NEW joined \in SUBSET Person, Connect(joined)
  PROVE  PartInv'
  <1> DEFINE m == [type |-> "subscribed", who |-> joined]
  <1>1. /\ phase = "idle" /\ session < MaxCalls /\ session' = session + 1
        /\ phase' = "connected" /\ here' = joined /\ muted' \in {{}, joined}
        /\ news' = [news EXCEPT ![session'] = <<m>>]
        /\ UNCHANGED <<speaks, people, mine, late, held, list>>
    BY DEF Connect, mapVars, listVars
  <1>2. m \in RoomNews /\ m.type = "subscribed" /\ m.who = joined
    BY CommonNews
  <1> HIDE DEF m
  <1>3. session' \in Call /\ session' \in 0..MaxCalls
    BY <1>1, PersonAssumption DEF PartInv, PartTypes, Call
  <1>4. news' \in [Call -> Seq(RoomNews)] /\ news'[session'] = <<m>>
    BY <1>1, <1>2, <1>3, OneNewsQueue DEF PartInv, PartTypes
  <1>5. speaks' = {} /\ Known' = Known
    BY <1>1 DEF PartInv, PartTypes, Known
  <1>6. PartTypes'
    BY <1>1, <1>3, <1>4, <1>5 DEF PartInv, PartTypes
  <1> SUFFICES ASSUME ~late PROVE RoomFollowed'
    BY <1>1, <1>6 DEF PartInv
  <1>7. people' = <<>> /\ Known' = {}
    BY <1>1, <1>5, NobodyKnown DEF PartInv, RoomFollowed
  <1>8. ASSUME NEW x \in Person PROVE EventsTell(news[session], x)'
    <2>1. /\ m \in Comes(x) <=> x \in joined
          /\ m \notin Goes(x) /\ m \notin Mics(x) /\ m \notin Voices
      BY <1>2, NewsSets
    <2>2. PresenceDue(news[session], x)'
      <3>1. CASE x \in joined
        <4>1. EndsIn(<<m>>, Comes(x) \cup Goes(x), Comes(x))
          BY <1>2, <2>1, <3>1, OneNewsQueue
        <4> QED BY <1>1, <1>4, <3>1, <4>1 DEF PresenceDue
      <3>2. CASE x \notin joined
        <4>1. Lacks(<<m>>, Comes(x) \cup Goes(x))
          BY <1>2, <2>1, <3>2, OneNewsQueue
        <4> QED BY <1>1, <1>4, <4>1 DEF PresenceDue
      <3> QED BY <3>1, <3>2
    <2>3. Lacks(<<m>>, Voices \cup Goes(x)) /\ Lacks(<<m>>, Mics(x) \cup Goes(x))
      BY <1>2, <2>1, OneNewsQueue
    <2> QED BY <1>4, <1>7, <2>2, <2>3 DEF EventsTell, SpeechDue, MicDue, NoMic, Due
  <1>9. TracksEntered'
    <2>1. DOMAIN <<m>> = {1} /\ <<m>>[1] = m
      BY <1>2, OneNewsQueue
    <2> QED BY <1>1, <1>2, <1>4, <2>1 DEF TracksEntered, InTurn, There
  <1> QED BY <1>1, <1>7, <1>8, <1>9 DEF RoomFollowed

LEMMA ClearKeeps ==
  ASSUME PartInv, Clear
  PROVE  PartInv'
  <1>1. /\ phase' = "idle" /\ here' = {} /\ muted' = {} /\ speaks' = {}
        /\ people' = <<>> /\ mine' = "absent"
        /\ UNCHANGED <<session, news, late, held, list>>
    BY DEF Clear, Forget, listVars
  <1>2. Known' = {} /\ people' \in [Known' -> Info0]
    BY <1>1, NoPerson DEF Known
  <1>3. PartTypes'
    BY <1>1, <1>2 DEF PartInv, PartTypes
  <1>4. RoomFollowed'
    BY <1>1 DEF RoomFollowed, Connected
  <1> QED BY <1>3, <1>4 DEF PartInv

LEMMA InfoType ==
  ASSUME NEW p \in Person
  PROVE  /\ Info(p) \in Info0
         /\ Info(p).muted <=> p \in muted
         /\ Info(p).speaks <=> p \in speaks
  <1>1. Info(p) \in Info0
    BY DEF Info, Info0
  <1>2. Info(p).muted = (p \in muted) /\ Info(p).speaks = (p \in speaks)
    BY DEF Info
  <1> QED BY <1>1, <1>2, Zenon

LEMMA SetUpKeeps ==
  ASSUME PartInv, SetUp
  PROVE  PartInv'
  <1>1. /\ phase = "connected" /\ phase' = "on" /\ people' = Populated
        /\ mine' \in {"open", "muted"} /\ Build(QueuedResult)
        /\ UNCHANGED <<here, muted, speaks, session, news, late, list>>
    BY DEF SetUp, roomVars
  <1>2. /\ Known' = Known \cup here /\ Known' \subseteq Person
        /\ people' \in [Known' -> Info0]
    <2>1. here \subseteq Person /\ Known \subseteq Person /\ people \in [Known -> Info0]
      BY DEF PartInv, PartTypes
    <2>2. \A p \in Known \cup here :
            (IF p \in Known THEN people[p] ELSE Info(p)) \in Info0
      BY <2>1, InfoType
    <2>3. Known' = Known \cup here
      BY <1>1 DEF Known, Populated
    <2> QED BY <1>1, <2>1, <2>2, <2>3 DEF Populated
  <1>3. held' \in Seq(Snapshots) /\ ListIsDue'
    BY <1>1, <1>2, BuildIsDue DEF PartInv, Sender
  <1>4. PartTypes'
    BY <1>1, <1>2, <1>3 DEF PartInv, PartTypes
  <1> SUFFICES ASSUME ~late PROVE RoomFollowed'
    BY <1>1, <1>4 DEF PartInv
  <1>5. /\ people = <<>> /\ Known = {} /\ Known' = here
        /\ \A x \in Person : EventsTell(news[session], x)
        /\ TracksEntered
    BY <1>1, <1>2, NobodyKnown DEF PartInv, RoomFollowed, Connected
  <1>6. ASSUME NEW x \in here
        PROVE  (IsMuted(x)' <=> x \in muted) /\ (IsSpeaking(x)' <=> x \in speaks)
    <2>1. x \in Person /\ people'[x] = Info(x)
      BY <1>1, <1>5 DEF Populated, PartInv, PartTypes
    <2>2. (Info(x).muted <=> x \in muted) /\ (Info(x).speaks <=> x \in speaks)
      BY <2>1, InfoType
    <2> QED BY <2>1, <2>2, Zenon DEF IsMuted, IsSpeaking
  <1>7. ASSUME NEW x \in Person PROVE EventsTell(news[session], x)'
    <2>1. PresenceDue(news[session], x)'
      BY <1>1, <1>5 DEF EventsTell, PresenceDue
    <2>2. SpeechDue(news[session], x)'
      BY <1>1, <1>5, <1>6 DEF EventsTell, SpeechDue, Due
    <2>3. x \in here => MicDue(news[session], x)'
      BY <1>1, <1>5, <1>6 DEF EventsTell, MicDue, Due
    <2>4. x \notin here => NoMic(news[session], x)'
      BY <1>1, <1>5 DEF EventsTell, NoMic
    <2> QED BY <1>1, <2>1, <2>2, <2>3, <2>4 DEF EventsTell
  <1>8. TracksEntered'
    <2>1. There' = There /\ (Excused' <=> Excused)
      BY <1>1, <1>5 DEF There, Excused
    <2> QED BY <1>1, <1>5, <2>1 DEF TracksEntered, InTurn
  <1> QED BY <1>1, <1>3, <1>7, <1>8 DEF RoomFollowed

--------------------------------------------------------------------------------
(* Participants: the events handled. *)

\* The first event of the call, and what its handler makes of the people.
First == Head(news[session])
HandlerEffect(m) ==
    \A p \in Person :
      /\ m \in Comes(p) => p \in Known'
      /\ m \in Goes(p) => p \notin Known'
      /\ m \notin Comes(p) \cup Goes(p) => (p \in Known' <=> p \in Known)
      /\ p \in Known' /\ m \in Mics(p) => (IsMuted(p)' <=> m.type = "muted")
      /\ p \in Known' /\ m \notin Mics(p) =>
           IF p \in Known THEN IsMuted(p)' <=> IsMuted(p)
                          ELSE p \in here => (IsMuted(p)' <=> p \in muted)
      /\ p \in Known' /\ m \in Voices => (IsSpeaking(p)' <=> p \in m.who)
      /\ p \in Known' /\ m \notin Voices =>
           IF p \in Known THEN IsSpeaking(p)' <=> IsSpeaking(p)
                          ELSE IsSpeaking(p)' <=> p \in speaks

LEMMA EventHandled ==
  ASSUME PartInv, ~late, phase = "on", news[session] # <<>>,
         news'[session] = Tail(news[session]),
         UNCHANGED <<here, muted, speaks, session, phase, mine, list>>,
         HandlerEffect(First),
         \/ ListIsDue'
         \/ /\ UNCHANGED held /\ First.type # "disconnected"
            /\ Excused \/ (Known' = Known /\ MutedNow' = MutedNow)
  PROVE  RoomFollowed'
  <1> DEFINE q == news[session]
  <1> DEFINE m == First
  <1> DEFINE r == Tail(q)
  <1>1. q \in Seq(RoomNews) /\ q # <<>> /\ m = Head(q) /\ news'[session'] = r
    BY DEF PartInv, PartTypes, First
  <1>2. /\ \A x \in Person : EventsTell(q, x)
        /\ InTurn(q, Excused, There)
        /\ Excused \/ ListIsDue
    BY DEF PartInv, RoomFollowed, Connected, TracksEntered
  <1> HIDE DEF q, m
  <1>3. /\ m \in RoomNews
        /\ \A S, T :
             /\ Lacks(q, S) <=> m \notin S /\ Lacks(r, S)
             /\ EndsIn(q, S, T) => EndsIn(r, S, T) \/ (m \in T /\ Lacks(r, S))
    BY <1>1, TailQueue
  <1> HIDE DEF r
  <1>e. HandlerEffect(m)
    BY DEF m
  <1>4. ASSUME NEW x \in Person PROVE EventsTell(news[session], x)'
    <2>0. /\ PresenceDue(q, x) /\ SpeechDue(q, x)
          /\ x \in here => MicDue(q, x)
          /\ x \notin here => NoMic(q, x)
      BY <1>2 DEF EventsTell
    <2>1. PresenceDue(news[session], x)'
      <3> DEFINE moving == Comes(x) \cup Goes(x)
      <3> DEFINE so == IF x \in here THEN Comes(x) ELSE Goes(x)
      <3>1. EndsIn(q, moving, so) => EndsIn(r, moving, so) \/ (m \in so /\ Lacks(r, moving))
        BY <1>3
      <3>2. Lacks(q, moving) => m \notin moving /\ Lacks(r, moving)
        BY <1>3
      <3>3. m \in so => (x \in Known' <=> x \in here)
        BY <1>e DEF HandlerEffect
      <3>4. m \notin moving => (x \in Known' <=> x \in Known)
        BY <1>e DEF HandlerEffect
      <3>5. EndsIn(q, moving, so) \/ (Lacks(q, moving) /\ (x \in Known <=> x \in here))
        BY <2>0 DEF PresenceDue
      <3>6. EndsIn(r, moving, so) \/ (Lacks(r, moving) /\ (x \in Known' <=> x \in here))
        BY <3>1, <3>2, <3>3, <3>4, <3>5
      <3> QED BY <1>1, <3>6 DEF PresenceDue
    <2>2. SpeechDue(news[session], x)'
      <3> DEFINE S == Voices \cup Goes(x)
      <3> DEFINE T == VoicesTo(x, x \in speaks)
      <3>1. /\ EndsIn(q, S, T) => EndsIn(r, S, T) \/ (m \in T /\ Lacks(r, S))
            /\ EndsIn(q, S, Goes(x)) => EndsIn(r, S, Goes(x)) \/ (m \in Goes(x) /\ Lacks(r, S))
            /\ Lacks(q, S) => m \notin S /\ Lacks(r, S)
        BY <1>3
      <3>2. m \in T /\ x \in Known' => (IsSpeaking(x)' <=> x \in speaks)
        BY <1>e DEF HandlerEffect, VoicesTo
      <3>3. m \in Goes(x) => x \notin Known'
        BY <1>e DEF HandlerEffect
      <3>4. m \notin S /\ x \in Known' =>
              IF x \in Known THEN IsSpeaking(x)' <=> IsSpeaking(x)
                             ELSE IsSpeaking(x)' <=> x \in speaks
        BY <1>e DEF HandlerEffect
      <3>5. \/ EndsIn(q, S, T) \/ EndsIn(q, S, Goes(x))
            \/ Lacks(q, S) /\ (x \in Known => (IsSpeaking(x) <=> x \in speaks))
        BY <2>0 DEF SpeechDue, Due
      <3>6. \/ EndsIn(r, S, T) \/ EndsIn(r, S, Goes(x))
            \/ Lacks(r, S) /\ (x \in Known' => (IsSpeaking(x)' <=> x \in speaks))
        BY <3>1, <3>2, <3>3, <3>4, <3>5
      <3> QED BY <1>1, <3>6 DEF SpeechDue, Due
    <2>3. x \in here => MicDue(news[session], x)'
      <3> SUFFICES ASSUME x \in here PROVE MicDue(news[session], x)'
        OBVIOUS
      <3> DEFINE S == Mics(x) \cup Goes(x)
      <3> DEFINE T == MicsTo(x, x \in muted)
      <3>1. /\ EndsIn(q, S, T) => EndsIn(r, S, T) \/ (m \in T /\ Lacks(r, S))
            /\ EndsIn(q, S, Goes(x)) => EndsIn(r, S, Goes(x)) \/ (m \in Goes(x) /\ Lacks(r, S))
            /\ Lacks(q, S) => m \notin S /\ Lacks(r, S)
        BY <1>3
      <3>2. m \in T /\ x \in Known' => (IsMuted(x)' <=> x \in muted)
        BY <1>e DEF HandlerEffect, MicsTo
      <3>3. m \in Goes(x) => x \notin Known'
        BY <1>e DEF HandlerEffect
      <3>4. m \notin S /\ x \in Known' =>
              IF x \in Known THEN IsMuted(x)' <=> IsMuted(x)
                             ELSE IsMuted(x)' <=> x \in muted
        BY <1>e DEF HandlerEffect
      <3>5. \/ EndsIn(q, S, T) \/ EndsIn(q, S, Goes(x))
            \/ Lacks(q, S) /\ (x \in Known => (IsMuted(x) <=> x \in muted))
        BY <2>0 DEF MicDue, Due
      <3>6. \/ EndsIn(r, S, T) \/ EndsIn(r, S, Goes(x))
            \/ Lacks(r, S) /\ (x \in Known' => (IsMuted(x)' <=> x \in muted))
        BY <3>1, <3>2, <3>3, <3>4, <3>5
      <3> QED BY <1>1, <3>6 DEF MicDue, Due
    <2>4. x \notin here => NoMic(news[session], x)'
      <3> DEFINE S == Mics(x) \cup Goes(x)
      <3>1. /\ EndsIn(q, S, Goes(x)) => EndsIn(r, S, Goes(x)) \/ Lacks(r, S)
            /\ Lacks(q, S) => Lacks(r, S)
        BY <1>3
      <3> QED BY <1>1, <2>0, <3>1 DEF NoMic
    <2> QED BY <2>1, <2>2, <2>3, <2>4 DEF EventsTell
  <1>5. TracksEntered'
    <2>1. m.type = "connected" => m.who \subseteq Known'
      <3> SUFFICES ASSUME m.type = "connected", NEW x \in m.who PROVE x \in Known'
        OBVIOUS
      <3>1. m \in Comes(x) /\ x \in Person
        BY <1>3, NewsSets DEF RoomNews
      <3> QED BY <1>e, <3>1 DEF HandlerEffect
    <2>2. There' = Known'
      BY DEF There
    <2>3. InTurn(r, Excused', There')
      BY <1>1, <1>2, <2>1, <2>2, EnteredTail DEF Excused, r
    <2> QED BY <1>1, <2>3 DEF TracksEntered
  <1>6. Excused' \/ ListIsDue'
    <2>1. ASSUME Excused, m.type # "disconnected" PROVE Excused'
      <3>1. m \notin AnyoneGoes
        BY <1>3, <2>1, NewsSets
      <3> QED BY <1>1, <1>3, <2>1, <3>1 DEF Excused, q
    <2>2. ASSUME UNCHANGED held, Known' = Known, MutedNow' = MutedNow, ListIsDue
          PROVE  ListIsDue'
      BY <2>2 DEF ListIsDue, Fresh
    <2> QED BY <1>2, <2>1, <2>2 DEF m
  <1> QED BY <1>4, <1>5, <1>6 DEF RoomFollowed

\* A handler, of whichever call.
LEMMA HandlingKeeps ==
  ASSUME PartInv, NEW c \in Call, NEW type, Handling(c, type),
         late' = (late \/ (people' # people /\ (c # session \/ phase = "idle"))),
         Known' \subseteq Person, people' \in [Known' -> Info0], held' \in Seq(Snapshots),
         ListIsDue' \/ UNCHANGED held,
         c = session /\ phase = "on" /\ ~late =>
           /\ HandlerEffect(First)
           /\ \/ ListIsDue'
              \/ /\ UNCHANGED held /\ First.type # "disconnected"
                 /\ Excused \/ (Known' = Known /\ MutedNow' = MutedNow)
  PROVE  PartInv'
  <1>1. /\ news[c] # <<>> /\ news' = [news EXCEPT ![c] = Tail(@)]
        /\ c < session \/ phase \in {"on", "idle"}
        /\ UNCHANGED <<here, muted, speaks, session, phase, mine, list>>
    BY DEF Handling, roomVars
  <1>2. news \in [Call -> Seq(RoomNews)] /\ late \in BOOLEAN
    BY DEF PartInv, PartTypes
  <1>3. /\ news' \in [Call -> Seq(RoomNews)]
        /\ news'[c] = Tail(news[c])
        /\ c # session => news'[session] = news[session]
    <2>1. Tail(news[c]) \in Seq(RoomNews)
      BY <1>1, <1>2, HeadTailProperties
    <2> QED BY <1>1, <1>2, <2>1
  <1>4. PartTypes'
    BY <1>1, <1>2, <1>3 DEF PartInv, PartTypes
  <1> SUFFICES ASSUME ~late' PROVE RoomFollowed'
    BY <1>4 DEF PartInv
  <1>5. ~late /\ RoomFollowed
    BY <1>2 DEF PartInv
  <1>6. CASE c = session /\ phase = "on"
    BY <1>1, <1>3, <1>5, <1>6, EventHandled
  <1>7. CASE c = session /\ phase # "on"
    <2>0. phase = "idle"
      <3>1. c \in Int /\ ~(c < c)
        BY DEF Call
      <3> QED BY <1>1, <1>7, <3>1
    <2>1. people' = people
      BY <1>2, <2>0
    <2> QED BY <1>1, <1>5, <2>0, <2>1 DEF RoomFollowed, Connected
  <1>8. CASE c # session
    <2>1. people' = people /\ news'[session] = news[session]
      BY <1>2, <1>3, <1>8
    <2>2. ListIsDue => ListIsDue'
      BY <1>1, <2>1, SameRoom DEF ListIsDue, Fresh
    <2> QED BY <1>1, <1>5, <2>1, <2>2, SameRoom DEF RoomFollowed, Connected
  <1> QED BY <1>6, <1>7, <1>8

\* What a handler takes.
LEMMA HandlingTakes ==
  ASSUME PartTypes, NEW c \in Call, NEW type, Handling(c, type)
  PROVE  /\ Head(news[c]) \in RoomNews /\ Head(news[c]).type = type
         /\ Who(c) = Head(news[c]).who /\ Who(c) \subseteq Person
         /\ type \in PersonalType => \E p \in Person : Who(c) = {p}
         /\ UNCHANGED <<here, muted, speaks, session, phase, mine, list>>
         /\ EventTask(c) \in Sender
         /\ Known \subseteq Person /\ people \in [Known -> Info0]
         /\ mine' \in {"absent", "muted", "open"} /\ held \in Seq(Snapshots)
  <1>1. /\ news[c] # <<>> /\ Head(news[c]).type = type /\ news[c] \in Seq(RoomNews)
        /\ UNCHANGED <<here, muted, speaks, session, phase, mine, list>>
    BY DEF Handling, roomVars, PartTypes
  <1>2. Head(news[c]) \in RoomNews
    BY <1>1, HeadTailProperties
  <1> QED BY <1>1, <1>2 DEF Who, RoomNews, Sender, PartTypes

LEMMA DisconnectedKeeps ==
  ASSUME PartInv, NEW c \in Call, PersonDisconnected(c)
  PROVE  PartInv'
  <1>1. /\ Handling(c, "disconnected") /\ people' = Remaining(Known \ Who(c))
        /\ Changed(c) /\ Build(EventTask(c))
    BY DEF PersonDisconnected
  <1>2. Known' = Known \ Who(c) /\ Known' \subseteq Person /\ people' \in [Known' -> Info0]
    BY <1>1, HandlingTakes DEF Remaining, Known, PartInv
  <1>3. held' \in Seq(Snapshots) /\ ListIsDue'
    BY <1>1, <1>2, HandlingTakes, BuildIsDue DEF PartInv
  <1>4. ASSUME c = session PROVE HandlerEffect(First)
    <2>1. First \in RoomNews /\ First.type = "disconnected" /\ First.who = Who(c)
      BY <1>1, <1>4, HandlingTakes DEF PartInv, First
    <2>2. \A p \in Known' : /\ people'[p] = people[p] /\ p \in Known
                            /\ IsMuted(p)' <=> IsMuted(p)
                            /\ IsSpeaking(p)' <=> IsSpeaking(p)
      <3>1. \A p \in Known' : people'[p] = people[p] /\ p \in Known
        BY <1>1, <1>2 DEF Remaining
      <3> QED BY <3>1, Zenon DEF IsMuted, IsSpeaking
    <2> QED BY <1>2, <2>1, <2>2, NewsSets DEF HandlerEffect
  <1> QED BY <1>1, <1>2, <1>3, <1>4, HandlingKeeps DEF Changed

LEMMA ConnectedKeeps ==
  ASSUME PartInv, NEW c \in Call, PersonConnected(c)
  PROVE  PartInv'
  <1>0. Handling(c, "connected")
    BY DEF PersonConnected
  <1>2. PICK p \in Person : Who(c) = {p}
    BY <1>0, HandlingTakes DEF PartInv, PersonalType
  <1>p. Only(c) = p
    BY <1>2 DEF Only
  <1>1. /\ Handling(c, "connected")
        /\ IF p \in Known
           THEN UNCHANGED <<people, late, held>>
           ELSE /\ \E info \in LiveInfo(p) :
                     people' = [q \in Known \cup {p} |-> IF q = p THEN info ELSE people[q]]
                /\ Changed(c)
                /\ Build(EventTask(c))
    BY <1>p DEF PersonConnected
  <1>3. c = session => First \in RoomNews /\ First.type = "connected" /\ First.who = {p}
    BY <1>1, <1>2, HandlingTakes DEF PartInv, First
  <1>4. CASE p \in Known
    <2>1. UNCHANGED <<people, late, held>> /\ Known' = Known /\ MutedNow' = MutedNow
      BY <1>1, <1>4 DEF Known, MutedNow
    <2>2. \A x : (IsMuted(x)' <=> IsMuted(x)) /\ (IsSpeaking(x)' <=> IsSpeaking(x))
      BY <2>1 DEF IsMuted, IsSpeaking
    <2>3. c = session => HandlerEffect(First)
      BY <1>3, <1>4, <2>1, <2>2, NewsSets DEF HandlerEffect
    <2>4. late' = (late \/ (people' # people /\ (c # session \/ phase = "idle")))
      BY <2>1 DEF PartInv, PartTypes
    <2>5. Known' \subseteq Person /\ people' \in [Known' -> Info0] /\ held' \in Seq(Snapshots)
      BY <2>1 DEF PartInv, PartTypes
    <2> QED BY <1>1, <1>3, <2>1, <2>3, <2>4, <2>5, HandlingKeeps
  <1>5. CASE p \notin Known
    <2>1. PICK info \in LiveInfo(p) :
            people' = [q \in Known \cup {p} |-> IF q = p THEN info ELSE people[q]]
      BY <1>1, <1>5
    <2>2. Changed(c) /\ Build(EventTask(c))
      BY <1>1, <1>5
    <2>3. /\ info \in Info0
          /\ p \in here => info = Info(p)
          /\ p \notin here => info.speaks = FALSE
      BY <1>2, InfoType DEF LiveInfo, Info0
    <2>4. /\ Known' = Known \cup {p} /\ Known' \subseteq Person
          /\ people' \in [Known' -> Info0] /\ people'[p] = info
          /\ \A x \in Known : people'[x] = people[x]
      <3>1. Known' = Known \cup {p}
        BY <2>1 DEF Known
      <3>2. Known \subseteq Person /\ people \in [Known -> Info0]
        BY DEF PartInv, PartTypes
      <3> QED BY <1>2, <1>5, <2>1, <2>3, <3>1, <3>2
    <2>5. held' \in Seq(Snapshots) /\ ListIsDue'
      BY <1>1, <2>2, <2>4, HandlingTakes, BuildIsDue DEF PartInv
    <2>6. ASSUME c = session PROVE HandlerEffect(First)
      <3>1. \A x \in Known : /\ IsMuted(x)' <=> IsMuted(x)
                             /\ IsSpeaking(x)' <=> IsSpeaking(x)
        BY <2>4, Zenon DEF IsMuted, IsSpeaking
      <3>2. p \in here => (IsMuted(p)' <=> p \in muted)
        <4>1. Info(p).muted <=> p \in muted
          BY <1>2, InfoType
        <4> QED BY <2>3, <2>4, <4>1, Zenon DEF IsMuted
      <3>3. IsSpeaking(p)' <=> p \in speaks
        <4>1. Info(p).speaks <=> p \in speaks
          BY <1>2, InfoType
        <4>2. p \notin here => p \notin speaks
          BY DEF PartInv, PartTypes
        <4> QED BY <2>3, <2>4, <4>1, <4>2, Zenon DEF IsSpeaking
      <3> QED BY <1>3, <1>5, <2>4, <2>6, <3>1, <3>2, <3>3, NewsSets DEF HandlerEffect
    <2> QED BY <1>1, <2>2, <2>4, <2>5, <2>6, HandlingKeeps DEF Changed
  <1> QED BY <1>4, <1>5

LEMMA MicChangedKeeps ==
  ASSUME PartInv, NEW c \in Call, NEW type \in {"muted", "unmuted"}, MicChanged(c, type)
  PROVE  PartInv'
  <1>1. /\ Handling(c, type) /\ Changed(c) /\ Build(EventTask(c))
        /\ people' = [p \in Known |->
                        IF p \in Who(c) THEN [people[p] EXCEPT !.muted = (type = "muted")]
                                        ELSE people[p]]
    BY DEF MicChanged
  <1>2. Known \subseteq Person /\ people \in [Known -> Info0]
    BY DEF PartInv, PartTypes
  <1>3. \A p \in Known :
          /\ [people[p] EXCEPT !.muted = (type = "muted")] \in Info0
          /\ [people[p] EXCEPT !.muted = (type = "muted")].muted = (type = "muted")
          /\ [people[p] EXCEPT !.muted = (type = "muted")].speaks = people[p].speaks
    BY <1>2 DEF Info0
  <1>4. Known' = Known /\ people' \in [Known' -> Info0]
    <2>1. Known' = Known
      BY <1>1 DEF Known
    <2> QED BY <1>1, <1>2, <1>3, <2>1
  <1>5. held' \in Seq(Snapshots) /\ ListIsDue'
    BY <1>1, <1>2, <1>4, HandlingTakes, BuildIsDue DEF PartInv
  <1>6. ASSUME c = session PROVE HandlerEffect(First)
    <2>1. First \in RoomNews /\ First.type = type /\ First.who = Who(c)
      BY <1>1, <1>6, HandlingTakes DEF PartInv, First
    <2>2. ASSUME NEW x \in Known
          PROVE  /\ IsSpeaking(x)' <=> IsSpeaking(x)
                 /\ x \in Who(c) => (IsMuted(x)' <=> type = "muted")
                 /\ x \notin Who(c) => (IsMuted(x)' <=> IsMuted(x))
      <3>1. /\ people'[x].speaks = people[x].speaks
            /\ x \in Who(c) => people'[x].muted = (type = "muted")
            /\ x \notin Who(c) => people'[x].muted = people[x].muted
        BY <1>1, <1>3
      <3> QED BY <3>1, Zenon DEF IsMuted, IsSpeaking
    <2> QED BY <1>4, <2>1, <2>2, NewsSets DEF HandlerEffect
  <1> QED BY <1>1, <1>2, <1>4, <1>5, <1>6, HandlingKeeps DEF Changed

LEMMA SpeakersChangedKeeps ==
  ASSUME PartInv, NEW c \in Call, SpeakersChanged(c)
  PROVE  PartInv'
  <1>1. /\ Handling(c, "speakers") /\ Changed(c) /\ UNCHANGED held
        /\ people' = [p \in Known |-> [people[p] EXCEPT !.speaks = (p \in Who(c))]]
    BY DEF SpeakersChanged
  <1>2. Known \subseteq Person /\ people \in [Known -> Info0] /\ held' \in Seq(Snapshots)
    BY <1>1 DEF PartInv, PartTypes
  <1>3. \A p \in Known :
          /\ [people[p] EXCEPT !.speaks = (p \in Who(c))] \in Info0
          /\ [people[p] EXCEPT !.speaks = (p \in Who(c))].speaks = (p \in Who(c))
          /\ [people[p] EXCEPT !.speaks = (p \in Who(c))].muted = people[p].muted
    <2> TAKE p \in Known
    <2>1. people[p] \in Info0 /\ (p \in Who(c)) \in BOOLEAN
      BY <1>2
    <2>2. \A loud \in BOOLEAN : /\ [people[p] EXCEPT !.speaks = loud] \in Info0
                             /\ [people[p] EXCEPT !.speaks = loud].speaks = loud
                             /\ [people[p] EXCEPT !.speaks = loud].muted = people[p].muted
      BY <2>1 DEF Info0
    <2> QED BY <2>1, <2>2, Zenon
  <1>4. Known' = Known /\ people' \in [Known' -> Info0]
    <2>1. Known' = Known
      BY <1>1 DEF Known
    <2> QED BY <1>1, <1>2, <1>3, <2>1
  <1>5. \A x \in Known : people'[x].muted = people[x].muted /\ people'[x].speaks = (x \in Who(c))
    BY <1>1, <1>3
  <1>6. MutedNow' = MutedNow
    BY <1>4, <1>5 DEF MutedNow
  <1>7. ASSUME c = session PROVE HandlerEffect(First) /\ First.type # "disconnected"
    <2>1. First \in RoomNews /\ First.type = "speakers" /\ First.who = Who(c)
      BY <1>1, <1>7, HandlingTakes DEF PartInv, First
    <2>2. \A x \in Known : /\ IsMuted(x)' <=> IsMuted(x)
                           /\ IsSpeaking(x)' <=> x \in Who(c)
      BY <1>5, Zenon DEF IsMuted, IsSpeaking
    <2> QED BY <1>4, <2>1, <2>2, NewsSets DEF HandlerEffect
  <1> QED BY <1>1, <1>2, <1>4, <1>6, <1>7, HandlingKeeps DEF Changed

LEMMA SubscribedKeeps ==
  ASSUME PartInv, NEW c \in Call, Subscribed(c)
  PROVE  PartInv'
  <1>1. /\ Handling(c, "subscribed") /\ Changed(c) /\ UNCHANGED held
        /\ people' = [p \in Known \cup Who(c) |-> IF p \in Known THEN people[p] ELSE Info(p)]
    BY DEF Subscribed
  <1>2. /\ Known \subseteq Person /\ people \in [Known -> Info0] /\ held' \in Seq(Snapshots)
        /\ Who(c) \subseteq Person
    BY <1>1, HandlingTakes DEF PartInv
  <1>3. Known' = Known \cup Who(c) /\ people' \in [Known' -> Info0]
    <2>1. Known' = Known \cup Who(c)
      BY <1>1 DEF Known
    <2>2. \A p \in Known \cup Who(c) : (IF p \in Known THEN people[p] ELSE Info(p)) \in Info0
      BY <1>2, InfoType
    <2> QED BY <1>1, <2>1, <2>2
  <1>4. /\ \A x \in Known : people'[x] = people[x]
        /\ \A x \in Known' \ Known : people'[x] = Info(x) /\ x \in Person
    BY <1>1, <1>2, <1>3
  <1>5. ASSUME c = session PROVE HandlerEffect(First) /\ First.type # "disconnected"
    <2>1. First \in RoomNews /\ First.type = "subscribed" /\ First.who = Who(c)
      BY <1>1, <1>5, HandlingTakes DEF PartInv, First
    <2>2. \A x \in Known : /\ IsMuted(x)' <=> IsMuted(x)
                           /\ IsSpeaking(x)' <=> IsSpeaking(x)
      BY <1>4, Zenon DEF IsMuted, IsSpeaking
    <2>3. ASSUME NEW x \in Known' \ Known
          PROVE  (IsMuted(x)' <=> x \in muted) /\ (IsSpeaking(x)' <=> x \in speaks)
      <3>1. (Info(x).muted <=> x \in muted) /\ (Info(x).speaks <=> x \in speaks)
        BY <1>4, InfoType
      <3> QED BY <1>4, <3>1, Zenon DEF IsMuted, IsSpeaking
    <2> QED BY <1>3, <2>1, <2>2, <2>3, NewsSets DEF HandlerEffect
  <1>6. ASSUME c = session, phase = "on", ~late
        PROVE  Excused \/ (Known' = Known /\ MutedNow' = MutedNow)
    <2>1. InTurn(news[session], Excused, Known) /\ news[session] \in Seq(RoomNews)
      BY <1>6 DEF PartInv, RoomFollowed, Connected, TracksEntered, There, PartTypes
    <2>2. news[session] # <<>> /\ First.type = "subscribed" /\ First.who = Who(c)
      BY <1>1, <1>6 DEF Handling, First, Who
    <2>3. 1 \in DOMAIN news[session] /\ news[session][1] = First
      BY <2>1, <2>2, LenProperties, EmptySeq DEF First
    <2>4. Excused \/ Who(c) \subseteq Known
      BY <2>1, <2>2, <2>3 DEF InTurn
    <2>5. Who(c) \subseteq Known => Known' = Known /\ MutedNow' = MutedNow
      <3> SUFFICES ASSUME Who(c) \subseteq Known PROVE Known' = Known /\ MutedNow' = MutedNow
        OBVIOUS
      <3>1. Known' = Known
        BY <1>3
      <3> QED BY <1>4, <3>1 DEF MutedNow
    <2> QED BY <2>4, <2>5
  <1> QED BY <1>1, <1>2, <1>3, <1>5, <1>6, HandlingKeeps DEF Changed

--------------------------------------------------------------------------------
(* Participants: the theorem. *)

LEMMA PartNextKeeps == PartInv /\ [PartNext]_partVars => PartInv'
  <1> SUFFICES ASSUME PartInv, [PartNext]_partVars PROVE PartInv'
    OBVIOUS
  <1>1. CASE UNCHANGED partVars
    <2>1. UNCHANGED <<here, muted, speaks, session, phase, news, people, mine, late, held, list>>
      BY <1>1 DEF partVars, roomVars, mapVars, listVars
    <2>2. PartTypes'
      BY <2>1, SameRoom DEF PartInv, PartTypes
    <2>3. ListIsDue => ListIsDue'
      BY <2>1, SameRoom DEF ListIsDue, Fresh
    <2>4. RoomFollowed => RoomFollowed'
      BY <2>1, <2>3, SameRoom DEF RoomFollowed, Connected
    <2> QED BY <2>1, <2>2, <2>4 DEF PartInv
  <1>2. CASE \E p \in Person : Joins(p) \/ Leaves(p) \/ TogglesMic(p)
    BY <1>2, JoinsKeep, LeavesKeep, TogglesMicKeeps
  <1>3. CASE \E set \in SUBSET Person : Speaks(set) \/ Connect(set)
    BY <1>3, SpeaksKeep, ConnectKeeps
  <1>4. CASE SetUp \/ ToggleMic \/ Clear \/ LoopSnapshot
    BY <1>4, SetUpKeeps, SnapshotKeeps, ClearKeeps
  <1>5. CASE \E i \in 1..Len(held) : Sends(i)
    BY <1>5, SendsKeeps
  <1>6. CASE \E c \in Call :
               \/ PersonConnected(c) \/ PersonDisconnected(c) \/ Subscribed(c)
               \/ SpeakersChanged(c) \/ MicChanged(c, "muted") \/ MicChanged(c, "unmuted")
    BY <1>6, ConnectedKeeps, DisconnectedKeeps, SubscribedKeeps, SpeakersChangedKeeps,
       MicChangedKeeps
  <1> QED BY <1>1, <1>2, <1>3, <1>4, <1>5, <1>6 DEF PartNext

LEMMA PartInvSuffices == PartInv => ListFollowsRoom
  <1> SUFFICES ASSUME PartInv, Handled, ~late
               PROVE  /\ people = Infos(here)
                      /\ ~list.old /\ held = <<>> =>
                           /\ list.present = Known
                           /\ list.muted = {p \in Known : people[p].muted}
                           /\ list.mine = mine
    BY DEF ListFollowsRoom
  <1>1. phase = "on" /\ news[session] = <<>> /\ RoomFollowed /\ here \subseteq Person
    BY DEF Handled, PartInv, PartTypes
  <1>2. \A p \in Person : p \in Known <=> p \in here
    BY <1>1, EmptyQueue DEF RoomFollowed, Connected, EventsTell, PresenceDue
  <1>3. ASSUME NEW p \in here
        PROVE  (IsMuted(p) <=> p \in muted) /\ (IsSpeaking(p) <=> p \in speaks)
    <2>1. p \in Person /\ p \in Known /\ MicDue(<<>>, p) /\ SpeechDue(<<>>, p)
      BY <1>1, <1>2 DEF RoomFollowed, Connected, EventsTell
    <2> QED BY <2>1, EmptyQueue DEF MicDue, SpeechDue, Due
  <1>4. Known = here /\ people \in [here -> Info0]
    BY <1>1, <1>2 DEF PartInv, PartTypes
  <1>5. ASSUME NEW p \in here PROVE people[p] = Info(p)
    <2>1. people[p] \in Info0 /\ Info(p) \in Info0
      BY <1>1, <1>4, InfoType
    <2>2. people[p].muted \in BOOLEAN /\ people[p].speaks \in BOOLEAN
      BY <2>1 DEF Info0
    <2>3. (people[p].muted <=> p \in muted) /\ (people[p].speaks <=> p \in speaks)
      BY <1>3, Zenon DEF IsMuted, IsSpeaking
    <2>4. people[p].muted = (p \in muted) /\ people[p].speaks = (p \in speaks)
      <3>1. (p \in muted) \in BOOLEAN /\ (p \in speaks) \in BOOLEAN
        OBVIOUS
      <3>2. \A rest, other \in BOOLEAN : (rest <=> other) => rest = other
        OBVIOUS
      <3> QED BY <2>2, <2>3, <3>1, <3>2
    <2>5. people[p] = [muted |-> people[p].muted, speaks |-> people[p].speaks]
      BY <2>1 DEF Info0
    <2> QED BY <2>4, <2>5, Zenon DEF Info
  <1>6. people = Infos(here)
    BY <1>4, <1>5 DEF Infos
  <1>7. ~list.old /\ held = <<>> => Fresh(list)
    <2>1. ~Excused
      BY <1>1, EmptyQueue DEF Excused
    <2> QED BY <1>1, <2>1 DEF RoomFollowed, ListIsDue
  <1> QED BY <1>6, <1>7 DEF Fresh, MutedNow

\* In whatever order people come, go, mute themselves and speak, while the room is being
\* set up and after, and however snapshots are built and sent by three tasks: once the
\* events are handled the core knows exactly who is there, and so does the application,
\* unless a snapshot has been overtaken or a closed room has spoken (handle_room_events,
\* populate_participants_from_room and send_participants_snapshot of room_service.rs).
THEOREM TheListFollows == PartSpec => []ListFollowsRoom
  <1>1. PartSpec => []PartInv
    BY PartInitInv, PartNextKeeps, PTL DEF PartSpec
  <1> QED BY <1>1, PartInvSuffices, PTL

--------------------------------------------------------------------------------
(* Participants: who builds the list. *)

\* Each task has at most one snapshot that is built and not sent, and none shows as muted
\* whom it does not show.
HeldOnce == \A i, j \in DOMAIN held : held[i].by = held[j].by => i = j
ShowsItsOwn(s) == s.muted \subseteq s.present
Builders ==
    /\ moves \in 0..MaxMoves /\ HeldOnce
    /\ ShowsItsOwn(list) /\ \A i \in DOMAIN held : ShowsItsOwn(held[i])

\* A step builds one snapshot, when its task has sent the last; or sends one; or neither.
LEMMA BuildsOne ==
  ASSUME PartNext
  PROVE  \/ held' = held /\ list' = list
         \/ \E s \in Sender : Idle(s) /\ Build(s) /\ list' = list
         \/ \E i \in 1..Len(held) : Sends(i)
  <1> DEFINE same == held' = held /\ list' = list
             builds(s) == Idle(s) /\ Build(s) /\ list' = list
  <1>1. ASSUME NEW p \in Person, Joins(p) \/ Leaves(p) \/ TogglesMic(p) PROVE same
    BY <1>1 DEF Joins, Leaves, TogglesMic, AtLiveKit, listVars
  <1>2. ASSUME NEW set, Speaks(set) \/ Connect(set) PROVE same
    BY <1>2 DEF Speaks, Connect, AtLiveKit, listVars
  <1>3. SetUp => builds(QueuedResult)
    BY DEF SetUp
  <1>4. ToggleMic => builds(Commands)
    BY DEF ToggleMic
  <1>5. LoopSnapshot => builds(Loop)
    BY DEF LoopSnapshot
  <1>6. Clear => same
    BY DEF Clear, listVars
  <1>7. ASSUME NEW c \in Call, PersonConnected(c) \/ PersonDisconnected(c)
               \/ MicChanged(c, "muted") \/ MicChanged(c, "unmuted")
        PROVE  same \/ builds(EventTask(c))
    <2>1. Idle(EventTask(c)) /\ list' = list
      BY <1>7 DEF PersonConnected, PersonDisconnected, MicChanged, Handling
    <2>2. held' = held \/ Build(EventTask(c))
      BY <1>7 DEF PersonConnected, PersonDisconnected, MicChanged
    <2> QED BY <2>1, <2>2
  <1>8. ASSUME NEW c \in Call, Subscribed(c) \/ SpeakersChanged(c) PROVE same
    BY <1>8 DEF Subscribed, SpeakersChanged, Handling
  <1>9. QueuedResult \in Sender /\ Commands \in Sender /\ Loop \in Sender
        /\ \A c \in Call : EventTask(c) \in Sender
    BY DEF Sender
  <1> HIDE DEF same, builds
  <1>10. same \/ (\E s \in Sender : builds(s)) \/ \E i \in 1..Len(held) : Sends(i)
    BY <1>1, <1>2, <1>3, <1>4, <1>5, <1>6, <1>7, <1>8, <1>9 DEF PartNext
  <1> QED BY <1>10 DEF same, builds

LEMMA MovesCount ==
  ASSUME PartNext, moves \in 0..MaxMoves
  PROVE  moves' \in 0..MaxMoves
  <1>1. moves' = moves \/ Move
    BY DEF PartNext, Joins, Leaves, TogglesMic, Speaks, Connect, AtLiveKit, SetUp, ToggleMic, Clear,
       LoopSnapshot, Sends, PersonConnected, PersonDisconnected, MicChanged, Subscribed,
       SpeakersChanged, Handling
  <1> QED BY <1>1, PersonAssumption DEF Move

\* What is left of the queue when the i-th is sent: those before it are old now.
AfterSending(q, i) == [j \in 1..(i - 1) |-> [q[j] EXCEPT !.old = TRUE]] \o SubSeq(q, i + 1, Len(q))

\* It is shorter by one, and the others move up as they were.
LEMMA SentIsOut ==
  ASSUME NEW q \in Seq(Snapshots), NEW i \in 1..Len(q)
  PROVE  /\ Len(AfterSending(q, i)) = Len(q) - 1
         /\ \A j \in 1..(Len(q) - 1) :
              LET k == IF j < i THEN j ELSE j + 1
                  s == AfterSending(q, i)[j] IN
              k \in 1..Len(q) /\ s.by = q[k].by /\ s.present = q[k].present /\ s.muted = q[k].muted
  <1> DEFINE r == AfterSending(q, i)
             n == Len(q)
             old(s) == [s EXCEPT !.old = TRUE]
             first == [j \in 1..(i - 1) |-> old(q[j])]
             rest == SubSeq(q, i + 1, n)
  <1>1. n \in Nat /\ i \in 1..n /\ DOMAIN q = 1..n /\ \A j \in 1..n : q[j] \in Snapshots
    BY LenProperties, ElementOfSeq
  <1>2. \A s \in Snapshots : /\ old(s) \in Snapshots /\ old(s).by = s.by
                             /\ old(s).present = s.present /\ old(s).muted = s.muted
    BY DEF Snapshots
  <1> HIDE DEF n, old
  <1>3. first \in Seq(Snapshots) /\ Len(first) = i - 1 /\ \A j \in 1..(i - 1) : first[j] = old(q[j])
    <2> DEFINE m == i - 1
    <2>1. m \in Nat /\ \A j \in 1..m : old(q[j]) \in Snapshots
      BY <1>1, <1>2
    <2>2. first = [j \in 1..m |-> old(q[j])]
      OBVIOUS
    <2> HIDE DEF m, first
    <2>3. first \in [1..m -> Snapshots]
      BY <2>1, <2>2
    <2>4. first \in Seq(Snapshots)
      BY <2>1, <2>3, SeqDef
    <2>5. Len(first) = m
      BY <2>1, <2>3, <2>4, LenProperties
    <2>6. \A j \in 1..m : first[j] = old(q[j])
      BY <2>2
    <2> QED BY <2>4, <2>5, <2>6 DEF m
  <1> HIDE DEF first
  <1>4. rest \in Seq(Snapshots) /\ Len(rest) = n - i /\ \A j \in 1..(n - i) : rest[j] = q[i + j]
    <2>1. /\ rest \in Seq(Snapshots)
          /\ Len(rest) = IF i + 1 <= n THEN n - (i + 1) + 1 ELSE 0
          /\ \A j \in 1..(n - (i + 1) + 1) : rest[j] = q[(i + 1) + j - 1]
      BY <1>1, SubSeqProperties DEF n
    <2> HIDE DEF rest
    <2>2. n - (i + 1) + 1 = n - i /\ Len(rest) = n - i
      BY <1>1, <2>1
    <2>3. \A j \in 1..(n - i) : (i + 1) + j - 1 = i + j
      BY <1>1
    <2> QED BY <2>1, <2>2, <2>3
  <1> HIDE DEF rest
  <1>5. /\ Len(r) = Len(first) + Len(rest)
        /\ \A j \in 1..(Len(first) + Len(rest)) :
             r[j] = IF j <= Len(first) THEN first[j] ELSE rest[j - Len(first)]
    <2>1. r = first \o rest
      BY DEF AfterSending, first, rest, old, n
    <2>2. first \in Seq(Snapshots) /\ rest \in Seq(Snapshots)
      BY <1>3, <1>4
    <2> DEFINE both == first \o rest
    <2>3. /\ Len(both) = Len(first) + Len(rest)
          /\ \A j \in 1..(Len(first) + Len(rest)) :
               both[j] = IF j <= Len(first) THEN first[j] ELSE rest[j - Len(first)]
      BY <2>2, ConcatProperties
    <2>4. r = both
      BY <2>1
    <2> HIDE DEF both
    <2> QED BY <2>3, <2>4
  <1> HIDE DEF r
  <1>6. Len(r) = n - 1
    BY <1>1, <1>3, <1>4, <1>5
  <1>7. ASSUME NEW j \in 1..(n - 1), j < i
        PROVE  j \in 1..n /\ r[j] = old(q[j])
    BY <1>1, <1>3, <1>4, <1>5, <1>7
  <1>8. ASSUME NEW j \in 1..(n - 1), ~(j < i)
        PROVE  j + 1 \in 1..n /\ r[j] = q[j + 1]
    <2>1. j - (i - 1) \in 1..(n - i) /\ i + (j - (i - 1)) = j + 1 /\ ~(j <= i - 1) /\ j + 1 \in 1..n
      BY <1>1, <1>8
    <2>2. r[j] = rest[j - (i - 1)]
      BY <1>1, <1>3, <1>4, <1>5, <2>1
    <2> QED BY <1>4, <2>1, <2>2
  <1>9. \A j \in 1..(n - 1) :
          LET k == IF j < i THEN j ELSE j + 1 IN
          k \in 1..n /\ r[j].by = q[k].by /\ r[j].present = q[k].present /\ r[j].muted = q[k].muted
    BY <1>1, <1>2, <1>7, <1>8
  <1> QED BY <1>6, <1>9 DEF n, r

LEMMA BuildersKeep ==
  ASSUME PartTypes, Builders, PartNext, PartTypes'
  PROVE  Builders'
  <1>1. moves' \in 0..MaxMoves
    BY MovesCount DEF Builders
  <1>2. held \in Seq(Snapshots) /\ DOMAIN held = 1..Len(held) /\ Len(held) \in Nat
    BY LenProperties DEF PartTypes
  <1>3. CASE held' = held /\ list' = list
    BY <1>1, <1>3 DEF Builders, HeldOnce
  <1>4. ASSUME NEW s \in Sender, Idle(s), Build(s), list' = list PROVE Builders'
    <2> DEFINE new == Snapshot(s)'
    <2>1. new.by = s /\ ShowsItsOwn(new)
      BY DEF Snapshot, ShowsItsOwn
    <2>2. held' = Append(held, new)
      BY <1>4 DEF Build
    <2> HIDE DEF new
    <2>3. /\ DOMAIN held' = 1..(Len(held) + 1) /\ held'[Len(held) + 1] = new
          /\ \A i \in 1..Len(held) : held'[i] = held[i]
      BY <1>2, <2>2
    <2>4. \A i \in DOMAIN held' : i = Len(held) + 1 \/ i \in DOMAIN held
      BY <1>2, <2>3
    <2>5. \A i \in DOMAIN held : held[i].by # s
      BY <1>2, <1>4 DEF Idle
    <2>6. HeldOnce'
      BY <1>2, <2>1, <2>3, <2>4, <2>5 DEF Builders, HeldOnce
    <2>7. \A i \in DOMAIN held' : ShowsItsOwn(held'[i])
      BY <1>2, <2>1, <2>3, <2>4 DEF Builders
    <2> QED BY <1>1, <1>4, <2>6, <2>7 DEF Builders, ShowsItsOwn
  <1>5. ASSUME NEW i \in 1..Len(held), Sends(i) PROVE Builders'
    <2> DEFINE at(j) == IF j < i THEN j ELSE j + 1
    <2>1. /\ Len(held') = Len(held) - 1
          /\ \A j \in 1..(Len(held) - 1) :
               at(j) \in 1..Len(held) /\ held'[j].by = held[at(j)].by
               /\ held'[j].present = held[at(j)].present /\ held'[j].muted = held[at(j)].muted
      <3>1. held' = AfterSending(held, i)
        BY <1>5 DEF Sends, AfterSending
      <3> DEFINE sent == AfterSending(held, i)
      <3>2. /\ Len(sent) = Len(held) - 1
            /\ \A j \in 1..(Len(held) - 1) :
                 at(j) \in 1..Len(held) /\ sent[j].by = held[at(j)].by
                 /\ sent[j].present = held[at(j)].present /\ sent[j].muted = held[at(j)].muted
        BY <1>2, SentIsOut
      <3> QED BY <3>1, <3>2
    <2>2. DOMAIN held' = 1..(Len(held) - 1)
      <3>1. held' \in Seq(Snapshots)
        BY DEF PartTypes
      <3> QED BY <2>1, <3>1, LenProperties
    <2>3. \A j, k \in DOMAIN held' : at(j) = at(k) => j = k
      BY <1>2, <2>2
    <2> HIDE DEF at
    <2>4. HeldOnce'
      <3>1. ASSUME NEW j \in DOMAIN held', NEW k \in DOMAIN held', held'[j].by = held'[k].by
            PROVE  j = k
        <4>1. /\ at(j) \in DOMAIN held /\ held'[j].by = held[at(j)].by
              /\ at(k) \in DOMAIN held /\ held'[k].by = held[at(k)].by
          BY <1>2, <2>1, <2>2
        <4>2. at(j) = at(k)
          BY <3>1, <4>1 DEF Builders, HeldOnce
        <4> QED BY <2>3, <4>2
      <3> QED BY <3>1 DEF HeldOnce
    <2>5. \A j \in DOMAIN held' : ShowsItsOwn(held'[j])
      BY <1>2, <2>1, <2>2 DEF Builders, ShowsItsOwn
    <2>6. ShowsItsOwn(list')
      <3>1. list' = [held[i] EXCEPT !.by = QueuedResult] /\ held[i] \in Snapshots
        BY <1>2, <1>5, ElementOfSeq DEF Sends
      <3>2. list'.muted = held[i].muted /\ list'.present = held[i].present
        BY <3>1 DEF Snapshots
      <3> QED BY <1>2, <3>2 DEF Builders, ShowsItsOwn
    <2> QED BY <1>1, <2>4, <2>5, <2>6 DEF Builders, ShowsItsOwn
  <1> QED BY <1>3, <1>4, <1>5, BuildsOne

LEMMA PartTypesShown ==
  ASSUME PartTypes, Builders
  PROVE  PartTypeOK
  <1>1. muted \subseteq Person
    BY DEF PartTypes
  <1>2. ASSUME NEW c \in Call, NEW i \in 1..Len(news[c]) PROVE news[c][i].who \subseteq Person
    <2>1. news[c] \in Seq(RoomNews)
      BY DEF PartTypes
    <2>2. news[c][i] \in RoomNews
      BY <2>1, ElementOfSeq
    <2> QED BY <2>2 DEF RoomNews
  <1>3. \A i, j \in 1..Len(held) : held[i].by = held[j].by => i = j
    BY LenProperties DEF PartTypes, Builders, HeldOnce
  <1> QED BY <1>1, <1>2, <1>3 DEF PartTypes, Builders, PartTypeOK, ShowsItsOwn, Info0

LEMMA BuildersStart == PartInit => Builders
  BY PersonAssumption DEF PartInit, Builders, HeldOnce, ShowsItsOwn, NoSnapshot

--------------------------------------------------------------------------------
(* The window's size (ViewerSize). *)

SizeTypes ==
    /\ streamShape \in Dimensions \cup {NoDimensions} /\ userResized \in BOOLEAN
    /\ size \in Sizes /\ surface \in Sizes /\ resized \in Seq(Sizes)
    /\ target = <<>> \/ \E s \in Sizes : target = <<s>>
    /\ system \in {"macos", "windows"}
    /\ reshapes \in 0..MaxReshapes /\ resizes \in 0..MaxResizes

\* The events that are on their way end with the size the window has; the size that is
\* awaited has the picture's aspect; and macOS lets the window have no other.
LastToldIsSize == IF resized = <<>> THEN surface = size ELSE resized[Len(resized)] = size
AwaitsAspect == target # <<>> => streamShape # NoDimensions /\ target[1].aspect = CurrentAspect
HasAspect ==
    streamShape # NoDimensions =>
        /\ system = "macos" => size.aspect = CurrentAspect
        /\ target = <<>> /\ resized = <<>> => size.aspect = CurrentAspect

SizeInv == SizeTypes /\ LastToldIsSize /\ AwaitsAspect /\ HasAspect

LEMMA WidthsFacts ==
  /\ \A w \in Widths : w \in Nat \ {0} /\ 1..w \subseteq Widths
  /\ \A aspect \in DOMAIN Widest : Widest[aspect] \in Widths
  /\ 1 \in Widths
  <1>1. \A aspect \in DOMAIN Widest : Widest[aspect] \in Nat \ {0}
    BY ViewerSizeAssumption
  <1>2. ASSUME NEW w \in Widths PROVE w \in Nat \ {0} /\ 1..w \subseteq Widths
    <2>1. PICK aspect \in DOMAIN Widest : w \in 1..Widest[aspect]
      BY DEF Widths
    <2>2. 1..w \subseteq 1..Widest[aspect] /\ w \in Nat \ {0}
      BY <1>1, <2>1
    <2> QED BY <2>2 DEF Widths
  <1>3. ASSUME NEW aspect \in DOMAIN Widest, NEW w \in 1..Widest[aspect] PROVE w \in Widths
    BY <1>3 DEF Widths
  <1>4. \A aspect \in DOMAIN Widest :
          Widest[aspect] \in 1..Widest[aspect] /\ 1 \in 1..Widest[aspect]
    BY <1>1
  <1>5. FirstAspect \in DOMAIN Widest
    BY ViewerSizeAssumption
  <1> QED BY <1>2, <1>3, <1>4, <1>5

LEMMA RequestedSize ==
  ASSUME SizeTypes, NEW wanted \in Sizes, NEW events \in Seq(Sizes),
         RequestInnerSize(wanted, events)
  PROVE  /\ size' \in Sizes /\ size'.aspect = wanted.aspect
         /\ resized' \in Seq(Sizes)
         /\ \/ size' = size /\ resized' = events
            \/ size' # size /\ resized' # <<>> /\ resized'[Len(resized')] = size'
  <1>1. PICK w \in 1..wanted.width : size' = [width |-> w, aspect |-> wanted.aspect]
    BY DEF RequestInnerSize
  <1>2. size' \in Sizes /\ size'.aspect = wanted.aspect
    BY <1>1, WidthsFacts DEF Sizes
  <1>3. resized' = IF size' = size THEN events ELSE Append(events, size')
    BY DEF RequestInnerSize
  <1>4. /\ Append(events, size') \in Seq(Sizes)
        /\ Append(events, size') # <<>>
        /\ Append(events, size')[Len(Append(events, size'))] = size'
    BY <1>2, AppendOne
  <1> QED BY <1>2, <1>3, <1>4

LEMMA AspectTypes ==
  ASSUME SizeTypes
  PROVE  /\ CurrentAspect \in DOMAIN Widest
         /\ \A aspect \in DOMAIN Widest :
              /\ SizeFor(aspect) \in Sizes /\ SizeFor(aspect).aspect = aspect
              /\ CalculateMaxWindowSize(aspect) \in Sizes
              /\ CalculateMaxWindowSize(aspect).aspect = aspect
  BY ViewerSizeAssumption, WidthsFacts
     DEF SizeTypes, Sizes, CurrentAspect, SizeFor, CalculateMaxWindowSize

\* What the handler of an event would make of the size.
LEMMA Corrected ==
  ASSUME SizeTypes, NEW s \in Sizes
  PROVE  /\ Corrects(s) = <<>> =>
               ~ByUser \/ system = "macos" \/ s.aspect = CurrentAspect
         /\ Corrects(s) # <<>> =>
               /\ ByUser /\ system # "macos" /\ s.aspect # CurrentAspect
               /\ \E c \in Sizes : Corrects(s) = <<c>> /\ c.aspect = CurrentAspect
  <1>1. /\ [width |-> s.width, aspect |-> CurrentAspect] \in Sizes
        /\ [width |-> s.width, aspect |-> CurrentAspect].aspect = CurrentAspect
    BY AspectTypes DEF Sizes
  <1> QED BY <1>1, AspectTypes DEF Corrects, CorrectAspectAfterResize

LEMMA SizeInit == ViewSizeInit => SizeInv
  <1> SUFFICES ASSUME ViewSizeInit PROVE SizeInv
    OBVIOUS
  <1>1. size \in Sizes /\ 0 \in 0..MaxReshapes /\ 0 \in 0..MaxResizes
    BY ViewerSizeAssumption, WidthsFacts DEF ViewSizeInit, Sizes
  <1>2. <<>> \in Seq(Sizes)
    BY EmptySeq
  <1> QED BY <1>1, <1>2
          DEF ViewSizeInit, SizeInv, SizeTypes, LastToldIsSize, AwaitsAspect, HasAspect

LEMMA SizeStep == SizeInv /\ [ViewSizeNext]_viewSizeVars => SizeInv'
  <1> SUFFICES ASSUME SizeInv, [ViewSizeNext]_viewSizeVars PROVE SizeInv'
    OBVIOUS
  <1> USE DEF SizeInv
  <1>0. reshapes' \in 0..MaxReshapes /\ resizes' \in 0..MaxResizes
    <2>1. /\ reshapes' = reshapes \/ (reshapes < MaxReshapes /\ reshapes' = reshapes + 1)
          /\ resizes' = resizes \/ (resizes < MaxResizes /\ resizes' = resizes + 1)
      BY DEF ViewSizeNext, StreamReshapes, ForgetsSizes, UserResizes, ResizedAndCorrected, Resized,
         Reshape, viewSizeVars
    <2> QED BY <2>1, ViewerSizeAssumption DEF SizeTypes
  <1>1. ASSUME NEW d \in Dimensions, StreamReshapes(d) PROVE SizeInv'
    <2>1. /\ streamShape' = d /\ d # NoDimensions /\ Aspect[d] \in DOMAIN Widest
          /\ UNCHANGED <<userResized, surface, system>>
          /\ target' = <<SizeFor(Aspect[d])>> /\ RequestInnerSize(SizeFor(Aspect[d]), resized)
      BY <1>1, ViewerSizeAssumption DEF StreamReshapes
    <2> DEFINE wanted == SizeFor(Aspect[d])
    <2>2. wanted \in Sizes /\ wanted.aspect = Aspect[d]
      BY <2>1, AspectTypes
    <2> HIDE DEF wanted
    <2>3. /\ size' \in Sizes /\ size'.aspect = Aspect[d] /\ resized' \in Seq(Sizes)
          /\ \/ size' = size /\ resized' = resized
             \/ resized' # <<>> /\ resized'[Len(resized')] = size'
      BY <2>1, <2>2, RequestedSize DEF SizeTypes, wanted
    <2>4. CurrentAspect' = Aspect[d]
      BY <2>1 DEF CurrentAspect
    <2>5. target' = <<wanted>> /\ target'[1] = wanted /\ target' # <<>>
      BY <2>1 DEF wanted
    <2>6. SizeTypes'
      BY <1>0, <2>1, <2>2, <2>3, <2>5 DEF SizeTypes
    <2>7. LastToldIsSize'
      BY <2>1, <2>3 DEF LastToldIsSize
    <2> QED BY <2>1, <2>2, <2>3, <2>4, <2>5, <2>6, <2>7 DEF AwaitsAspect, HasAspect
  <1>2. CASE ForgetsSizes
    BY <1>0, <1>2 DEF ForgetsSizes, SizeTypes, LastToldIsSize, AwaitsAspect, HasAspect
  <1>3. ASSUME NEW s \in Sizes, UserResizes(s) PROVE SizeInv'
    <2>1. s \in Sizes
      OBVIOUS
    <2>2. /\ resized' \in Seq(Sizes) /\ resized' # <<>> /\ resized'[Len(resized')] = s
          /\ size' = s /\ (system = "macos" => s.aspect = size.aspect)
          /\ UNCHANGED <<streamShape, userResized, target, system, surface, CurrentAspect>>
      BY <1>3, <2>1, AppendOne DEF UserResizes, SizeTypes, CurrentAspect
    <2>3. SizeTypes'
      BY <1>0, <2>1, <2>2 DEF SizeTypes
    <2> QED BY <2>2, <2>3 DEF LastToldIsSize, AwaitsAspect, HasAspect
  <1>4. CASE ResizedAndCorrected
    <2> DEFINE s == resized[1]
    <2>1. /\ s \in Sizes /\ Tail(resized) \in Seq(Sizes)
          /\ Tail(resized) = <<>> <=> Len(resized) = 1
          /\ Corrects(s) # <<>>
      BY <1>4, HeadTail DEF ResizedAndCorrected, SizeTypes
    <2> HIDE DEF s
    <2>2. ByUser /\ system # "macos" /\ s.aspect # CurrentAspect
      BY <2>1, Corrected
    <2>3. PICK c \in Sizes : Corrects(s) = <<c>> /\ c.aspect = CurrentAspect
      BY <2>1, Corrected
    <2>4. /\ target' = <<c>> /\ target'[1] = c /\ target' # <<>> /\ userResized' = TRUE
          /\ RequestInnerSize(c, Tail(resized))
          /\ UNCHANGED <<streamShape, system, surface, CurrentAspect>>
      BY <1>4, <2>3 DEF ResizedAndCorrected, s, CurrentAspect
    <2>5. /\ size' \in Sizes /\ size'.aspect = CurrentAspect /\ resized' \in Seq(Sizes)
          /\ \/ size' = size /\ resized' = Tail(resized)
             \/ resized' # <<>> /\ resized'[Len(resized')] = size'
      BY <2>1, <2>3, <2>4, RequestedSize
    <2>6. SizeTypes'
      BY <1>0, <2>4, <2>5 DEF SizeTypes
    <2>7. LastToldIsSize'
      <3>1. CASE size' = size /\ resized' = Tail(resized)
        <4>1. Len(resized) # 1
          <5> SUFFICES ASSUME Len(resized) = 1 PROVE FALSE
            OBVIOUS
          <5>1. size = s
            BY <1>4 DEF LastToldIsSize, ResizedAndCorrected, s
          <5> QED BY <2>2, <2>5, <3>1, <5>1
        <4>2. resized[Len(resized)] = size /\ resized # <<>> /\ resized \in Seq(Sizes)
          BY <1>4 DEF LastToldIsSize, ResizedAndCorrected, SizeTypes
        <4>3. /\ Len(resized) - 1 \in 1..Len(resized) - 1 /\ Len(Tail(resized)) = Len(resized) - 1
              /\ Tail(resized)[Len(resized) - 1] = resized[Len(resized) - 1 + 1]
              /\ Len(resized) - 1 + 1 = Len(resized)
          BY <4>1, <4>2, HeadTail
        <4> QED BY <2>1, <3>1, <4>1, <4>2, <4>3 DEF LastToldIsSize
      <3> QED BY <2>5, <3>1 DEF LastToldIsSize
    <2> QED BY <2>2, <2>3, <2>4, <2>5, <2>6, <2>7 DEF AwaitsAspect, HasAspect, ByUser
  <1>5. CASE Resized
    <2> DEFINE s == resized[1]
    <2>1. /\ s \in Sizes /\ Tail(resized) \in Seq(Sizes)
          /\ resized # <<>> /\ resized \in Seq(Sizes)
          /\ Tail(resized) = <<>> <=> Len(resized) = 1
          /\ Len(resized) \in Nat \ {0} /\ Len(Tail(resized)) = Len(resized) - 1
          /\ \A i \in 1..Len(resized) - 1 : Tail(resized)[i] = resized[i + 1]
          /\ Corrects(s) = <<>>
      BY <1>5, HeadTail DEF Resized, SizeTypes
    <2>2. /\ target' = (IF target = <<s>> THEN <<>> ELSE target) /\ surface' = s
          /\ resized' = Tail(resized) /\ userResized' \in BOOLEAN
          /\ UNCHANGED <<streamShape, system, size, CurrentAspect>>
      BY <1>5 DEF Resized, DrawnSize, s, CurrentAspect, ByUser, IsZoomed, SizeTypes
    <2>3. SizeTypes'
      BY <1>0, <2>1, <2>2 DEF SizeTypes
    <2>4. resized[Len(resized)] = size /\ (Len(resized) = 1 => size = s)
      BY <2>1 DEF LastToldIsSize, s
    <2> HIDE DEF s
    <2>5. LastToldIsSize'
      <3>1. CASE Len(resized) = 1
        BY <2>1, <2>2, <2>4, <3>1 DEF LastToldIsSize
      <3>2. CASE Len(resized) # 1
        <4>1. Len(resized) - 1 \in 1..Len(resized) - 1 /\ Len(resized) - 1 + 1 = Len(resized)
          BY <2>1, <3>2
        <4> QED BY <2>1, <2>2, <2>4, <3>2, <4>1 DEF LastToldIsSize
      <3> QED BY <3>1, <3>2
    <2>6. AwaitsAspect'
      BY <2>2 DEF AwaitsAspect
    <2>7. ASSUME streamShape # NoDimensions, target' = <<>>, resized' = <<>>
          PROVE  size.aspect = CurrentAspect
      <3>1. size = s
        BY <2>1, <2>2, <2>4, <2>7
      <3>2. CASE target = <<s>>
        BY <3>1, <3>2 DEF AwaitsAspect
      <3>3. CASE target # <<s>>
        <4>1. ByUser
          BY <2>2, <2>7, <3>3 DEF ByUser
        <4>2. system = "macos" \/ s.aspect = CurrentAspect
          BY <2>1, <4>1, Corrected
        <4> QED BY <2>7, <3>1, <4>2 DEF HasAspect
      <3> QED BY <3>2, <3>3
    <2> QED BY <2>2, <2>3, <2>5, <2>6, <2>7 DEF HasAspect
  <1>6. CASE UNCHANGED viewSizeVars
    BY <1>0, <1>6 DEF viewSizeVars, SizeTypes, LastToldIsSize, AwaitsAspect, HasAspect, CurrentAspect
  <1> QED BY <1>1, <1>2, <1>3, <1>4, <1>5, <1>6 DEF ViewSizeNext

LEMMA SizesShown == SizeInv => ViewSizeTypeOK
  <1> SUFFICES ASSUME SizeInv PROVE Len(target) <= 1
    BY DEF SizeInv, SizeTypes, ViewSizeTypeOK
  <1>1. CASE target = <<>>
    BY <1>1
  <1>2. ASSUME NEW s \in Sizes, target = <<s>> PROVE Len(target) <= 1
    BY <1>2
  <1> QED BY <1>1, <1>2 DEF SizeInv, SizeTypes

LEMMA SizeIsDrawn == SizeInv => DrawnToSize
  BY DEF SizeInv, LastToldIsSize, HasAspect, DrawnToSize, CurrentAspect

--------------------------------------------------------------------------------
(* The pictures (Viewer). *)

AnyPicture == [stream : Nat, no : Nat, shape : Shapes \cup {NoShape}]
AnyNumber == [id : Nat, stream : Nat]
TaskPc == {"idle", "aimed", "written", "numbered", "loaded", "ended"}
AnyTask == [pc : TaskPc, shape : Shapes \cup {NoShape}, at : {1, 2}, counter : Nat,
            told : BOOLEAN]
RedrawPc == {"none", "begun", "aimed", "looked"}
AnyRedraw == [pc : RedrawPc, id : AnyNumber, skip : BOOLEAN, at : {1, 2}]

PictureTypes ==
    /\ slots \in [{1, 2} -> AnyPicture] /\ writeIndex \in {1, 2}
    /\ frameId \in AnyNumber /\ lastId \in AnyNumber /\ texture \in AnyPicture
    /\ tasks \in Seq(AnyTask) /\ redraw \in AnyRedraw

\* A number that was given is one of a stream that there is, which counts on from it.
Given(number) ==
    number.id > 0 =>
        /\ number.stream \in 1..Len(tasks)
        /\ number.id < tasks[number.stream].counter

\* The picture is at most one behind the number, or a later stream's.
Recent(picture, number) ==
    number.id > 0 =>
        \/ picture.stream > number.stream
        \/ picture.stream = number.stream /\ picture.no + 1 >= number.id

\* The slot holds the latest picture that the stream has written and counted.
Holds(k, s) ==
    tasks[s].counter > 0 =>
        slots[k].stream = s /\ slots[k].no + 1 = tasks[s].counter

\* What the last stream, which alone writes, has done of its picture: it writes where it
\* does not leave its last one.
TaskStands(s) ==
    /\ tasks[s].pc \in {"aimed", "written", "numbered", "loaded"} => tasks[s].at = writeIndex
    /\ tasks[s].pc \in {"idle", "aimed", "written"} => Holds(OtherSlot(writeIndex), s)
    /\ tasks[s].pc = "written" =>
         slots[writeIndex].stream = s /\ slots[writeIndex].no = tasks[s].counter
    /\ tasks[s].pc \in {"numbered", "loaded"} => Holds(writeIndex, s)

ViewInv ==
    /\ PictureTypes
    /\ Given(frameId) /\ Given(redraw.id) /\ Given(lastId)
    /\ ~crossed =>
        /\ \A k \in {1, 2} : Recent(slots[k], frameId)
        /\ redraw.pc # "none" => \A k \in {1, 2} : Recent(slots[k], redraw.id)
        /\ Recent(texture, lastId)
        /\ tasks # <<>> => TaskStands(Len(tasks))

LEMMA ViewInit == ViewerInit => ViewInv
  <1> SUFFICES ASSUME ViewerInit PROVE ViewInv
    OBVIOUS
  <1>1. NoPicture \in AnyPicture /\ [id |-> 0, stream |-> 0] \in AnyNumber
    BY DEF NoPicture, AnyPicture, AnyNumber
  <1>2. NoRedraw \in AnyRedraw /\ NoRedraw.id.id = 0 /\ NoRedraw.pc = "none"
    BY DEF NoRedraw, AnyRedraw, RedrawPc, AnyNumber
  <1>3. <<NoPicture, NoPicture>> \in [{1, 2} -> AnyPicture]
    BY <1>1
  <1>4. <<>> \in Seq(AnyTask)
    BY EmptySeq
  <1>5. PictureTypes
    BY <1>1, <1>2, <1>3, <1>4 DEF ViewerInit, PictureTypes
  <1>6. frameId.id = 0 /\ lastId.id = 0 /\ redraw.id.id = 0 /\ redraw.pc = "none"
    BY <1>2 DEF ViewerInit
  <1> QED BY <1>5, <1>6 DEF ViewerInit, ViewInv, Given, Recent

\* Numbers stay those of streams that there are, as long as no stream goes or counts back.
LEMMA GivenStays ==
  ASSUME PictureTypes, PictureTypes', NEW n \in AnyNumber, Given(n), Len(tasks') >= Len(tasks),
         \A s \in 1..Len(tasks) : tasks'[s].counter >= tasks[s].counter
  PROVE  Given(n)'
  <1>1. ASSUME n.id > 0 PROVE n.stream \in 1..Len(tasks') /\ n.id < tasks'[n.stream].counter
    <2>1. n.stream \in 1..Len(tasks) /\ n.id < tasks[n.stream].counter
      BY <1>1 DEF Given
    <2>2. Len(tasks) \in Nat /\ Len(tasks') \in Nat /\ n.stream \in 1..Len(tasks')
      BY <2>1, LenProperties DEF PictureTypes
    <2>3. tasks[n.stream] \in AnyTask /\ tasks'[n.stream] \in AnyTask
      BY <2>1, <2>2, ElementOfSeq DEF PictureTypes
    <2> QED BY <2>1, <2>2, <2>3 DEF AnyTask, AnyNumber
  <1> QED BY <1>1 DEF Given

\* What a step of a task leaves as it was.
LEMMA TaskChanges ==
  ASSUME ViewInv, NEW i \in DOMAIN tasks, NEW t \in AnyTask, Task(i, t)
  PROVE  /\ i \in 1..Len(tasks) /\ Len(tasks') = Len(tasks) /\ Len(tasks) \in Nat
         /\ tasks \in Seq(AnyTask) /\ tasks[i] \in AnyTask
         /\ tasks' \in Seq(AnyTask) /\ tasks'[i] = t
         /\ \A s \in 1..Len(tasks) : tasks[s] \in AnyTask /\ (s # i => tasks'[s] = tasks[s])
         /\ ~crossed' => ~crossed /\ (i = Len(tasks) \/ t.pc = "ended")
  <1>1. tasks \in Seq(AnyTask) /\ i \in 1..Len(tasks) /\ Len(tasks) \in Nat
    BY LenProperties DEF ViewInv, PictureTypes
  <1>2. tasks' = [tasks EXCEPT ![i] = t]
    BY DEF Task
  <1>3. \A s \in 1..Len(tasks) : tasks[s] \in AnyTask
    BY <1>1, ElementOfSeq
  <1>4. tasks' \in Seq(AnyTask) /\ Len(tasks') = Len(tasks)
    BY <1>1, <1>2, ExceptSeq
  <1>5. tasks'[i] = t /\ \A s \in 1..Len(tasks) : s # i => tasks'[s] = tasks[s]
    BY <1>1, <1>2
  <1>6. ~crossed' => ~crossed /\ (i = Len(tasks) \/ t.pc = "ended")
    <2>1. i = Len(tasks) \/ i < Len(tasks)
      BY <1>1
    <2>2. ~crossed' => ~crossed /\ ~(i < Len(tasks) /\ t.pc # "ended")
      BY Zenon DEF Task
    <2> QED BY <2>1, <2>2
  <1> QED BY <1>1, <1>3, <1>4, <1>5, <1>6

LEMMA TasksKeep ==
  ASSUME ViewInv, NEW i \in DOMAIN tasks, TaskSteps(i)
  PROVE  ViewInv'
  <1>1. tasks[i] \in AnyTask
    BY ElementOfSeq, LenProperties DEF ViewInv, PictureTypes
  <1>2. UNCHANGED <<redraw, lastId, texture>>
    BY DEF TaskSteps, TaskTakes, TaskWrites, TaskNumbers, TaskLoads, TaskSwaps, TaskEnds, drawVars
  <1>3. ASSUME NEW t \in AnyTask, Task(i, t), t.counter >= tasks[i].counter,
               slots' \in [{1, 2} -> AnyPicture], writeIndex' \in {1, 2},
               UNCHANGED frameId \/ (frameId'.stream = i /\ frameId'.id < t.counter
                                      /\ frameId' \in AnyNumber),
               ~crossed /\ i = Len(tasks) =>
                 /\ \A k \in {1, 2} : Recent(slots'[k], frameId')
                 /\ redraw.pc # "none" => \A k \in {1, 2} : Recent(slots'[k], redraw.id)
                 /\ TaskStands(i)',
               t.pc = "ended" => UNCHANGED <<slots, writeIndex, frameId>>
        PROVE  ViewInv'
    <2>1. /\ i \in 1..Len(tasks) /\ Len(tasks') = Len(tasks) /\ Len(tasks) \in Nat
          /\ tasks' \in Seq(AnyTask) /\ tasks'[i] = t
          /\ \A s \in 1..Len(tasks) : tasks[s] \in AnyTask /\ (s # i => tasks'[s] = tasks[s])
          /\ ~crossed' => ~crossed /\ (i = Len(tasks) \/ t.pc = "ended")
      BY <1>3, TaskChanges
    <2>2. PictureTypes'
      BY <1>2, <1>3, <2>1 DEF ViewInv, PictureTypes
    <2>3. /\ Len(tasks') >= Len(tasks)
          /\ \A s \in 1..Len(tasks) : tasks'[s].counter >= tasks[s].counter
      <3>1. ASSUME NEW s \in 1..Len(tasks), s # i PROVE tasks'[s].counter >= tasks[s].counter
        <4>1. tasks[s].counter \in Nat /\ tasks'[s] = tasks[s]
          BY <2>1, <3>1 DEF AnyTask
        <4> QED BY <4>1
      <3>2. tasks'[i].counter >= tasks[i].counter /\ Len(tasks') >= Len(tasks)
        BY <1>3, <2>1
      <3> QED BY <3>1, <3>2
    <2>4. Given(redraw.id)' /\ Given(lastId)' /\ (UNCHANGED frameId => Given(frameId)')
      <3>1. PictureTypes /\ redraw.id \in AnyNumber /\ lastId \in AnyNumber /\ frameId \in AnyNumber
        BY DEF ViewInv, PictureTypes, AnyRedraw
      <3>2. \A n \in AnyNumber : Given(n) => Given(n)'
        BY <2>2, <2>3, <3>1, GivenStays
      <3> QED BY <1>2, <3>1, <3>2 DEF ViewInv, Given
    <2>5. Given(frameId)'
      BY <1>3, <2>1, <2>4 DEF Given
    <2>6. ASSUME ~crossed', i = Len(tasks) PROVE ViewInv'
      <3>1. Recent(texture, lastId)'
        BY <1>2, <2>1, <2>6 DEF ViewInv, Recent
      <3>2. TaskStands(Len(tasks))'
        BY <1>3, <2>1, <2>6 DEF TaskStands, Holds
      <3> QED BY <1>2, <1>3, <2>1, <2>2, <2>4, <2>5, <2>6, <3>1, <3>2 DEF ViewInv, Recent
    <2>7. ASSUME ~crossed', i # Len(tasks) PROVE ViewInv'
      <3>1. ~crossed /\ UNCHANGED <<slots, writeIndex, frameId>> /\ Len(tasks) # i
            /\ Len(tasks) \in 1..Len(tasks) /\ tasks # <<>>
        BY <1>3, <2>1, <2>7
      <3>2. TaskStands(Len(tasks)) /\ tasks'[Len(tasks)] = tasks[Len(tasks)]
        BY <2>1, <3>1 DEF ViewInv
      <3>3. TaskStands(Len(tasks))'
        BY <2>1, <3>1, <3>2 DEF TaskStands, Holds
      <3> QED BY <1>2, <2>1, <2>2, <2>4, <2>5, <3>1, <3>3 DEF ViewInv, Recent
    <2> QED BY <2>2, <2>4, <2>5, <2>6, <2>7 DEF ViewInv
  <1> DEFINE t == tasks[i]
  <1>4. /\ slots \in [{1, 2} -> AnyPicture] /\ writeIndex \in {1, 2} /\ frameId \in AnyNumber
        /\ redraw.id \in AnyNumber
        /\ OtherSlot(writeIndex) \in {1, 2} /\ OtherSlot(writeIndex) # writeIndex
        /\ OtherSlot(OtherSlot(writeIndex)) = writeIndex
        /\ \A k \in {1, 2} : k = writeIndex \/ k = OtherSlot(writeIndex)
    BY DEF ViewInv, PictureTypes, OtherSlot, AnyRedraw
  <1>5. i \in Nat \ {0} /\ tasks # <<>> /\ Len(tasks) \in Nat /\ i \in 1..Len(tasks)
    BY LenProperties DEF ViewInv, PictureTypes
  <1>6. ASSUME ~crossed, i = Len(tasks)
        PROVE  TaskStands(i) /\ (\A k \in {1, 2} : Recent(slots[k], frameId))
               /\ (redraw.pc # "none" => \A k \in {1, 2} : Recent(slots[k], redraw.id))
    BY <1>5, <1>6 DEF ViewInv
  <1>7. CASE \E shape \in Shapes : TaskTakes(i, shape)
    <2> PICK shape \in Shapes : TaskTakes(i, shape)
      BY <1>7
    <2> DEFINE n == [tasks[i] EXCEPT !.pc = "aimed", !.shape = shape, !.at = writeIndex]
    <2>1. n \in AnyTask /\ n.counter = tasks[i].counter /\ n.pc = "aimed" /\ n.at = writeIndex
      BY <1>1, <1>4 DEF AnyTask, TaskPc
    <2>2. Task(i, n) /\ UNCHANGED <<slots, writeIndex, frameId>> /\ tasks[i].pc = "idle"
      BY DEF TaskTakes, bufferVars
    <2> HIDE DEF n
    <2>3. tasks'[i] = n
      BY <2>1, <2>2, TaskChanges
    <2>4. ~crossed /\ i = Len(tasks) => TaskStands(i)'
      BY <1>6, <2>1, <2>2, <2>3 DEF TaskStands, Holds
    <2> QED BY <1>1, <1>3, <1>4, <1>6, <2>1, <2>2, <2>4 DEF AnyTask
  <1>8. CASE TaskWrites(i)
    <2> DEFINE n == [tasks[i] EXCEPT !.pc = "written"]
               new == [stream |-> i, no |-> tasks[i].counter, shape |-> tasks[i].shape]
    <2>1. /\ n \in AnyTask /\ n.counter = tasks[i].counter /\ n.pc = "written"
          /\ n.at = tasks[i].at /\ tasks[i].at \in {1, 2} /\ tasks[i].counter \in Nat
      BY <1>1 DEF AnyTask, TaskPc
    <2>2. new \in AnyPicture /\ new.stream = i /\ new.no = tasks[i].counter
      BY <1>1, <1>5 DEF AnyTask, AnyPicture
    <2>3. /\ Task(i, n) /\ UNCHANGED <<writeIndex, frameId>> /\ tasks[i].pc = "aimed"
          /\ slots' = [slots EXCEPT ![tasks[i].at] = new]
      BY <1>8 DEF TaskWrites
    <2> HIDE DEF n, new
    <2>4. tasks'[i] = n
      BY <2>1, <2>3, TaskChanges
    <2>5. /\ slots' \in [{1, 2} -> AnyPicture] /\ slots'[tasks[i].at] = new
          /\ \A k \in {1, 2} : k # tasks[i].at => slots'[k] = slots[k]
      BY <1>4, <2>1, <2>2, <2>3
    <2>6. \A id \in AnyNumber : i = Len(tasks) /\ Given(id) => Recent(new, id)
      BY <1>1, <1>5, <2>2 DEF AnyNumber, AnyTask, Given, Recent
    <2>7. ASSUME ~crossed, i = Len(tasks)
          PROVE  /\ \A k \in {1, 2} : Recent(slots'[k], frameId')
                 /\ redraw.pc # "none" => \A k \in {1, 2} : Recent(slots'[k], redraw.id)
                 /\ TaskStands(i)'
      <3>1. Recent(new, frameId) /\ Recent(new, redraw.id)
        BY <1>4, <2>6, <2>7 DEF ViewInv
      <3>2. tasks[i].at = writeIndex
        BY <1>6, <2>3, <2>7 DEF TaskStands
      <3>3. TaskStands(i)'
        BY <1>4, <1>6, <2>1, <2>2, <2>3, <2>4, <2>5, <2>7, <3>2 DEF TaskStands, Holds
      <3> QED BY <1>6, <2>3, <2>5, <2>7, <3>1, <3>3
    <2> QED BY <1>3, <1>4, <2>1, <2>3, <2>5, <2>7
  <1>9. CASE TaskNumbers(i)
    <2> DEFINE n == [tasks[i] EXCEPT !.pc = "numbered", !.counter = tasks[i].counter + 1]
    <2>0. tasks[i].counter \in Nat /\ tasks[i].counter + 1 \in Nat
      BY <1>1 DEF AnyTask
    <2>1. /\ n \in AnyTask /\ n.counter = tasks[i].counter + 1 /\ n.pc = "numbered"
          /\ n.at = tasks[i].at /\ tasks[i].counter \in Nat
      BY <1>1, <2>0 DEF AnyTask, TaskPc
    <2>2. /\ Task(i, n) /\ UNCHANGED <<writeIndex, slots>> /\ tasks[i].pc = "written"
          /\ frameId' = [id |-> tasks[i].counter, stream |-> i]
      BY <1>9 DEF TaskNumbers
    <2> HIDE DEF n
    <2>3. tasks'[i] = n
      BY <2>1, <2>2, TaskChanges
    <2>4. frameId' \in AnyNumber /\ frameId'.stream = i /\ frameId'.id = tasks[i].counter
      BY <1>5, <2>1, <2>2 DEF AnyNumber
    <2>5. ASSUME ~crossed, i = Len(tasks)
          PROVE  /\ \A k \in {1, 2} : Recent(slots'[k], frameId')
                 /\ TaskStands(i)'
      <3>1. /\ slots[writeIndex].stream = i /\ slots[writeIndex].no = tasks[i].counter
            /\ Holds(OtherSlot(writeIndex), i) /\ tasks[i].at = writeIndex
        BY <1>6, <2>2, <2>5 DEF TaskStands
      <3>2. TaskStands(i)'
        BY <2>1, <2>2, <2>3, <3>1 DEF TaskStands, Holds
      <3>3. Recent(slots[writeIndex], frameId') /\ Recent(slots[OtherSlot(writeIndex)], frameId')
        BY <2>1, <2>4, <3>1 DEF Recent, Holds
      <3> QED BY <1>4, <2>2, <3>2, <3>3
    <2> QED BY <1>3, <1>4, <1>6, <2>1, <2>2, <2>4, <2>5
  <1>10. CASE TaskLoads(i)
    <2> DEFINE n == [tasks[i] EXCEPT !.pc = "loaded", !.at = writeIndex]
    <2>1. n \in AnyTask /\ n.counter = tasks[i].counter /\ n.pc = "loaded" /\ n.at = writeIndex
      BY <1>1, <1>4 DEF AnyTask, TaskPc
    <2>2. Task(i, n) /\ UNCHANGED <<slots, writeIndex, frameId>> /\ tasks[i].pc = "numbered"
      BY <1>10 DEF TaskLoads, bufferVars
    <2> HIDE DEF n
    <2>3. tasks'[i] = n
      BY <2>1, <2>2, TaskChanges
    <2>4. ~crossed /\ i = Len(tasks) => TaskStands(i)'
      BY <1>6, <2>1, <2>2, <2>3 DEF TaskStands, Holds
    <2> QED BY <1>1, <1>3, <1>4, <1>6, <2>1, <2>2, <2>4 DEF AnyTask
  <1>11. CASE TaskSwaps(i)
    <2> DEFINE n == [tasks[i] EXCEPT !.pc = "idle"]
    <2>1. /\ n \in AnyTask /\ n.counter = tasks[i].counter /\ n.pc = "idle"
          /\ tasks[i].at \in {1, 2}
      BY <1>1 DEF AnyTask, TaskPc
    <2>2. /\ Task(i, n) /\ UNCHANGED <<slots, frameId>> /\ tasks[i].pc = "loaded"
          /\ writeIndex' = OtherSlot(tasks[i].at)
      BY <1>11 DEF TaskSwaps, Swapped
    <2> HIDE DEF n
    <2>3. tasks'[i] = n /\ writeIndex' \in {1, 2}
      BY <2>1, <2>2, TaskChanges DEF OtherSlot
    <2>4. ASSUME ~crossed, i = Len(tasks) PROVE TaskStands(i)'
      <3>1. tasks[i].at = writeIndex /\ Holds(writeIndex, i)
        BY <1>6, <2>2, <2>4 DEF TaskStands
      <3>2. OtherSlot(writeIndex') = writeIndex
        BY <1>4, <2>2, <3>1
      <3>3. Holds(OtherSlot(writeIndex), i)'
        BY <2>1, <2>2, <2>3, <3>1, <3>2 DEF Holds
      <3> QED BY <2>1, <2>3, <3>3 DEF TaskStands
    <2> QED BY <1>1, <1>3, <1>4, <1>6, <2>1, <2>2, <2>3, <2>4 DEF AnyTask
  <1>12. CASE TaskEnds(i)
    <2> DEFINE n == [tasks[i] EXCEPT !.pc = "ended"]
    <2>1. n \in AnyTask /\ n.counter = tasks[i].counter /\ n.pc = "ended"
      BY <1>1 DEF AnyTask, TaskPc
    <2>2. Task(i, n) /\ UNCHANGED <<slots, writeIndex, frameId>>
      BY <1>12 DEF TaskEnds, bufferVars
    <2> HIDE DEF n
    <2>3. tasks'[i] = n
      BY <2>1, <2>2, TaskChanges
    <2>4. TaskStands(i)'
      BY <2>1, <2>3 DEF TaskStands
    <2> QED BY <1>1, <1>3, <1>4, <1>6, <2>1, <2>2, <2>4 DEF AnyTask
  <1> QED BY <1>7, <1>8, <1>9, <1>10, <1>11, <1>12 DEF TaskSteps

\* A redraw that goes on with the number it has, and a texture no older than its number.
LEMMA RedrawKeeps ==
  ASSUME ViewInv, redraw' \in AnyRedraw, lastId' \in AnyNumber, texture' \in AnyPicture,
         UNCHANGED <<bufferVars, tasks, crossed>>,
         \/ redraw'.pc = "none" /\ redraw'.id.id = 0
         \/ redraw'.id = frameId
         \/ redraw'.id = redraw.id /\ redraw.pc # "none",
         lastId'.id = 0 \/ lastId' \in {lastId, redraw.id},
         ~crossed => Recent(texture', lastId')
  PROVE  ViewInv'
  <1>1. PictureTypes'
    BY DEF ViewInv, PictureTypes, bufferVars
  <1>2. Given(frameId)' /\ Given(redraw.id)' /\ Given(lastId)'
    BY DEF ViewInv, Given, bufferVars
  <1>3. ASSUME ~crossed, redraw'.pc # "none" PROVE \A k \in {1, 2} : Recent(slots[k], redraw'.id)
    BY <1>3 DEF ViewInv
  <1> QED BY <1>1, <1>2, <1>3 DEF ViewInv, bufferVars, Recent, TaskStands, Holds

LEMMA ViewStep == ViewInv /\ [ViewerNext]_viewerVars => ViewInv'
  <1> SUFFICES ASSUME ViewInv, [ViewerNext]_viewerVars PROVE ViewInv'
    OBVIOUS
  <1>0. PictureTypes
    BY DEF ViewInv
  <1>1. ASSUME NEW i \in DOMAIN tasks, TaskSteps(i) PROVE ViewInv'
    BY <1>1, TasksKeep
  <1>2. CASE StopStream
    <2>1. UNCHANGED <<bufferVars, redraw, lastId, texture, crossed>>
      BY <1>2 DEF StopStream, drawVars
    <2>2. PICK s \in 1..Len(tasks) : tasks' = [tasks EXCEPT ![s] = [tasks[s] EXCEPT !.told = TRUE]]
      <3>1. Len(tasks) \in 1..Len(tasks)
        BY <1>0, <1>2, EmptySeq DEF StopStream, PictureTypes
      <3> QED BY <1>2, <3>1 DEF StopStream
    <2>3. \A j \in 1..Len(tasks) : tasks[j] \in AnyTask
      BY <1>0, ElementOfSeq DEF PictureTypes
    <2>4. tasks' \in Seq(AnyTask) /\ Len(tasks') = Len(tasks) /\ Len(tasks) \in Nat
      <3>1. [tasks[s] EXCEPT !.told = TRUE] \in AnyTask
        BY <2>3 DEF AnyTask
      <3> QED BY <1>0, <2>2, <3>1, ExceptSeq, LenProperties DEF PictureTypes
    <2>5. \A j \in 1..Len(tasks) :
            /\ tasks'[j].pc = tasks[j].pc /\ tasks'[j].counter = tasks[j].counter
            /\ tasks'[j].at = tasks[j].at
      BY <1>0, <2>2, <2>3 DEF PictureTypes, AnyTask
    <2>6. PictureTypes'
      BY <1>0, <2>1, <2>4 DEF PictureTypes, bufferVars
    <2>7. Given(frameId)' /\ Given(redraw.id)' /\ Given(lastId)'
      BY <2>1, <2>4, <2>5 DEF ViewInv, Given, bufferVars
    <2>8. tasks # <<>> /\ Len(tasks) \in 1..Len(tasks)
      BY <1>0, <1>2, EmptySeq DEF StopStream, PictureTypes
    <2>9. TaskStands(Len(tasks)) => TaskStands(Len(tasks))'
      BY <2>1, <2>4, <2>5, <2>8 DEF TaskStands, Holds, bufferVars
    <2> QED BY <2>1, <2>6, <2>7, <2>8, <2>9 DEF ViewInv, bufferVars, Recent
  <1>3. CASE StartStream
    <2> DEFINE new == [pc |-> "idle", shape |-> NoShape, at |-> 1, counter |-> 0, told |-> FALSE]
               told == [i \in DOMAIN tasks |-> [tasks[i] EXCEPT !.told = TRUE]]
    <2>1. UNCHANGED <<bufferVars, redraw, lastId, texture, crossed>> /\ tasks' = Append(told, new)
      BY <1>3 DEF StartStream, drawVars
    <2>2. /\ Len(tasks) \in Nat /\ DOMAIN tasks = 1..Len(tasks)
          /\ \A j \in 1..Len(tasks) : tasks[j] \in AnyTask
      BY <1>0, LenProperties, ElementOfSeq DEF PictureTypes
    <2>3. told \in Seq(AnyTask) /\ Len(told) = Len(tasks)
      <3>1. \A j \in 1..Len(tasks) : [tasks[j] EXCEPT !.told = TRUE] \in AnyTask
        BY <2>2 DEF AnyTask
      <3>2. told \in [1..Len(tasks) -> AnyTask]
        BY <2>2, <3>1
      <3> QED BY <2>2, <3>2, SeqDef, LenProperties
    <2>4. new \in AnyTask /\ new.pc = "idle" /\ new.counter = 0
      BY DEF AnyTask, TaskPc
    <2>5. \A j \in 1..Len(tasks) : told[j].counter = tasks[j].counter
      BY <2>2 DEF AnyTask
    <2> HIDE DEF new, told
    <2>6. /\ tasks' \in Seq(AnyTask) /\ tasks' # <<>> /\ Len(tasks') = Len(tasks) + 1
          /\ tasks'[Len(tasks) + 1] = new
          /\ \A j \in 1..Len(tasks) : tasks'[j].counter = tasks[j].counter
      BY <2>1, <2>3, <2>4, <2>5, AppendOne
    <2>7. PictureTypes'
      BY <1>0, <2>1, <2>6 DEF PictureTypes, bufferVars
    <2>8. Given(frameId)' /\ Given(redraw.id)' /\ Given(lastId)'
      BY <2>1, <2>2, <2>6 DEF ViewInv, Given, bufferVars
    <2>9. TaskStands(Len(tasks))'
      BY <2>4, <2>6 DEF TaskStands, Holds
    <2> QED BY <2>1, <2>7, <2>8, <2>9 DEF ViewInv, bufferVars, Recent
  <1> DEFINE zero == [id |-> 0, stream |-> 0]
  <1>4. zero \in AnyNumber /\ zero.id = 0
    BY DEF AnyNumber
  <1>5. NoRedraw \in AnyRedraw /\ NoRedraw.id.id = 0 /\ NoRedraw.pc = "none"
    BY DEF NoRedraw, AnyRedraw, RedrawPc, AnyNumber
  <1>6. /\ redraw \in AnyRedraw /\ lastId \in AnyNumber /\ texture \in AnyPicture
        /\ frameId \in AnyNumber /\ redraw.id \in AnyNumber
        /\ slots \in [{1, 2} -> AnyPicture] /\ writeIndex \in {1, 2} /\ LatestFrame \in {1, 2}
    BY <1>0 DEF PictureTypes, AnyRedraw, LatestFrame, OtherSlot
  <1>7. ~crossed => Recent(texture, lastId)
    BY DEF ViewInv
  <1>8. CASE NewSharer
    <2>1. /\ UNCHANGED <<bufferVars, tasks, crossed, redraw, texture>> /\ lastId' = zero
          /\ redraw.pc = "none"
      BY <1>8 DEF NewSharer, AtRest
    <2> HIDE DEF zero
    <2> QED BY <1>4, <1>6, <2>1
            DEF ViewInv, PictureTypes, Given, Recent, bufferVars, TaskStands, Holds
  <1>9. CASE RedrawThread \/ UNCHANGED viewerVars
    <2>1. UNCHANGED <<bufferVars, tasks, crossed, redraw, lastId, texture>>
      BY <1>9 DEF RedrawThread, viewerVars, feedVars, drawVars
    <2> QED BY <2>1 DEF ViewInv, PictureTypes, Given, Recent, bufferVars, TaskStands, Holds
  <1>10. CASE RedrawBegins
    <2>1. /\ UNCHANGED <<bufferVars, tasks, crossed, texture>>
          /\ lastId' = (IF Restarted(frameId.id, lastId.id) THEN zero ELSE lastId)
          /\ redraw' = [redraw EXCEPT !.pc = "begun", !.id = frameId,
                                      !.skip = Seen(frameId.id, lastId'.id)]
      BY <1>10 DEF RedrawBegins, feedVars
    <2>2. redraw' \in AnyRedraw /\ redraw'.id = frameId
      <3>1. Seen(frameId.id, lastId'.id) \in BOOLEAN
        BY DEF Seen
      <3> QED BY <1>6, <2>1, <3>1 DEF AnyRedraw, RedrawPc
    <2> HIDE DEF zero
    <2>3. lastId' \in AnyNumber /\ (lastId'.id = 0 \/ lastId' = lastId)
      BY <1>4, <1>6, <2>1
    <2>4. ~crossed => Recent(texture', lastId')
      BY <1>7, <2>1, <2>3 DEF Recent
    <2> QED BY <1>6, <2>1, <2>2, <2>3, <2>4, RedrawKeeps
  <1>11. CASE RedrawAims
    <2>1. /\ UNCHANGED <<bufferVars, tasks, crossed, texture, lastId>> /\ redraw.pc = "begun"
          /\ redraw' = [redraw EXCEPT !.pc = "aimed", !.at = LatestFrame]
      BY <1>11 DEF RedrawAims, feedVars
    <2>2. redraw' \in AnyRedraw /\ redraw'.id = redraw.id
      BY <1>6, <2>1 DEF AnyRedraw, RedrawPc
    <2> QED BY <1>6, <1>7, <2>1, <2>2, RedrawKeeps
  <1>12. CASE RedrawReshapes
    <2>1. UNCHANGED <<bufferVars, tasks, crossed, texture, lastId>> /\ redraw' = NoRedraw
      BY <1>12 DEF RedrawReshapes, feedVars
    <2>2. /\ redraw' \in AnyRedraw /\ redraw'.pc = "none" /\ redraw'.id.id = 0
          /\ lastId' \in AnyNumber /\ texture' \in AnyPicture
          /\ ~crossed => Recent(texture', lastId')
      BY <1>5, <1>6, <1>7, <2>1
    <2> QED BY <2>1, <2>2, RedrawKeeps
  <1>13. CASE RedrawLooks
    <2>1. /\ UNCHANGED <<bufferVars, tasks, crossed, texture, lastId>> /\ redraw.pc = "aimed"
          /\ redraw' \in {NoRedraw, [redraw EXCEPT !.pc = "looked", !.at = LatestFrame]}
      BY <1>13 DEF RedrawLooks, feedVars
    <2>2. [redraw EXCEPT !.pc = "looked", !.at = LatestFrame] \in AnyRedraw
          /\ [redraw EXCEPT !.pc = "looked", !.at = LatestFrame].id = redraw.id
      BY <1>6 DEF AnyRedraw, RedrawPc
    <2> QED BY <1>5, <1>6, <1>7, <2>1, <2>2, RedrawKeeps
  <1>14. CASE RedrawUploads
    <2> DEFINE seen == slots[redraw.at]
    <2>1. /\ UNCHANGED <<bufferVars, tasks, crossed>> /\ redraw' = NoRedraw
          /\ redraw.pc = "looked"
          /\ texture' = Prepared(redraw.skip, seen)
          /\ lastId' = (IF redraw.skip THEN lastId ELSE redraw.id)
      BY <1>14 DEF RedrawUploads, feedVars
    <2>2. seen \in AnyPicture /\ redraw.at \in {1, 2}
      BY <1>6 DEF AnyRedraw
    <2>3. /\ ~crossed => Recent(seen, redraw.id)
          /\ Given(lastId) /\ Given(redraw.id)
      BY <2>1, <2>2 DEF ViewInv
    <2> HIDE DEF seen
    <2>4. lastId' \in AnyNumber /\ texture' \in AnyPicture
      BY <1>6, <2>1, <2>2 DEF Prepared
    <2>5. ASSUME NEW n \in AnyNumber, Given(n), Recent(NoPicture, n) PROVE n.id = 0
      BY <2>5, LenProperties, <1>0 DEF Given, Recent, NoPicture, AnyNumber, PictureTypes
    <2>6. ASSUME ~crossed PROVE Recent(texture', lastId')
      <3>1. CASE ~redraw.skip /\ seen # NoPicture
        BY <2>1, <2>3, <2>6, <3>1 DEF Prepared
      <3>2. CASE ~redraw.skip /\ seen = NoPicture
        <4>1. redraw.id.id = 0
          BY <1>6, <2>3, <2>5, <2>6, <3>2
        <4> QED BY <2>1, <3>2, <4>1 DEF Recent
      <3>3. CASE redraw.skip /\ texture = NoPicture
        <4>1. lastId.id = 0
          BY <1>6, <1>7, <2>3, <2>5, <2>6, <3>3
        <4> QED BY <2>1, <3>3, <4>1 DEF Recent
      <3>4. CASE redraw.skip /\ texture # NoPicture
        BY <1>7, <2>1, <2>6, <3>4 DEF Prepared
      <3> QED BY <3>1, <3>2, <3>3, <3>4
    <2> QED BY <1>5, <2>1, <2>4, <2>6, RedrawKeeps
  <1> QED BY <1>1, <1>2, <1>3, <1>8, <1>9, <1>10, <1>11, <1>12, <1>13, <1>14 DEF ViewerNext

\* A redraw that skips its upload has read a number that is not far below the last one, and
\* at its end what is on the screen is as recent as that number.
DrawInv ==
    /\ drawn.id \in AnyNumber /\ drawn.over \in AnyNumber
    /\ redraw.pc # "none" /\ redraw.skip =>
         /\ redraw.id.id > 0 /\ redraw.id.id <= lastId.id
         /\ lastId.id <= redraw.id.id + RestartGap
    /\ PictureIsRecent

LEMMA DrawInit == ViewerInit => DrawInv
  BY DEF ViewerInit, DrawInv, NoRedraw, AnyNumber, PictureIsRecent

LEMMA DrawStep ==
  ASSUME ViewInv, DrawInv, [ViewerNext]_viewerVars
  PROVE  DrawInv'
  <1>1. /\ redraw \in AnyRedraw /\ redraw.id \in AnyNumber /\ lastId \in AnyNumber
        /\ frameId \in AnyNumber /\ texture \in AnyPicture /\ RestartGap \in Nat
    BY ViewerAssumption DEF ViewInv, PictureTypes, AnyRedraw
  <1>2. ASSUME UNCHANGED <<texture, drawn>>, ~crossed' => ~crossed,
               \/ redraw'.pc = "none"
               \/ ~redraw'.skip
               \/ UNCHANGED lastId /\ redraw.pc # "none"
                  /\ redraw'.skip = redraw.skip /\ redraw'.id = redraw.id
               \/ /\ redraw'.id.id > 0 /\ redraw'.id.id <= lastId'.id
                  /\ lastId'.id <= redraw'.id.id + RestartGap
        PROVE  DrawInv'
    BY <1>2 DEF DrawInv, PictureIsRecent, RestartMissed
  <1>3. NoRedraw.pc = "none"
    BY DEF NoRedraw
  <1>4. ASSUME NEW i \in DOMAIN tasks, TaskSteps(i) PROVE DrawInv'
    <2>1. UNCHANGED <<texture, drawn, redraw, lastId>> /\ (~crossed' => ~crossed)
      <3>1. \A task : Task(i, task) => (~crossed' => ~crossed)
        BY DEF Task
      <3> QED BY <1>4, <3>1
           DEF TaskSteps, TaskTakes, TaskWrites, TaskNumbers, TaskLoads, TaskSwaps, TaskEnds, drawVars
    <2> QED BY <1>2, <2>1 DEF DrawInv
  <1>5. CASE StopStream \/ StartStream \/ RedrawThread \/ UNCHANGED viewerVars
    <2>1. UNCHANGED <<texture, drawn, redraw, lastId, crossed>>
      BY <1>5 DEF StopStream, StartStream, RedrawThread, viewerVars, drawVars, feedVars
    <2> QED BY <1>2, <2>1 DEF DrawInv
  <1>6. CASE NewSharer
    <2>1. UNCHANGED <<texture, drawn, redraw, crossed>> /\ redraw.pc = "none"
      BY <1>6 DEF NewSharer, AtRest
    <2> QED BY <1>2, <2>1
  <1>7. CASE RedrawBegins
    <2>1. /\ UNCHANGED <<texture, drawn, crossed>>
          /\ lastId' = IF Restarted(frameId.id, lastId.id) THEN [id |-> 0, stream |-> 0] ELSE lastId
          /\ redraw'.id = frameId /\ redraw'.skip = Seen(frameId.id, lastId'.id)
      BY <1>1, <1>7 DEF RedrawBegins, feedVars, AnyRedraw
    <2>2. frameId.id \in Nat /\ lastId.id \in Nat
      BY <1>1 DEF AnyNumber
    <2>3. redraw'.skip => Seen(frameId.id, lastId'.id)
      BY <2>1, Zenon
    <2>4. CASE Restarted(frameId.id, lastId.id)
      <3>1. lastId'.id = 0
        BY <2>1, <2>4
      <3>2. ~Seen(frameId.id, lastId'.id)
        BY <2>2, <3>1 DEF Seen
      <3> QED BY <1>2, <2>1, <2>3, <3>2
    <2>5. CASE ~Restarted(frameId.id, lastId.id)
      <3>1. lastId' = lastId
        BY <2>1, <2>5
      <3>2. Seen(frameId.id, lastId.id) => /\ frameId.id > 0 /\ frameId.id <= lastId.id
                                           /\ lastId.id <= frameId.id + RestartGap
        BY <1>1, <2>2, <2>5 DEF Seen, Restarted
      <3> QED BY <1>2, <2>1, <2>3, <3>1, <3>2
    <2> QED BY <2>4, <2>5
  <1>8. CASE RedrawAims \/ RedrawReshapes \/ RedrawLooks
    <2>1. /\ UNCHANGED <<texture, drawn, crossed, lastId>> /\ redraw.pc # "none"
          /\ \/ redraw' = NoRedraw
             \/ redraw'.skip = redraw.skip /\ redraw'.id = redraw.id
      BY <1>1, <1>8 DEF RedrawAims, RedrawReshapes, RedrawLooks, feedVars, AnyRedraw
    <2> QED BY <1>2, <1>3, <2>1
  <1>9. CASE RedrawUploads
    <2> DEFINE seen == slots[redraw.at]
    <2>1. /\ UNCHANGED crossed /\ redraw' = NoRedraw /\ redraw.pc = "looked"
          /\ texture' = Prepared(redraw.skip, seen)
          /\ lastId' = (IF redraw.skip THEN lastId ELSE redraw.id)
          /\ drawn' = [id |-> redraw.id, over |-> lastId']
      BY <1>9 DEF RedrawUploads, feedVars
    <2>2. redraw.at \in {1, 2}
      BY <1>1 DEF AnyRedraw
    <2>3. ~crossed => Recent(seen, redraw.id) /\ Recent(texture, lastId)
      BY <2>1, <2>2 DEF ViewInv
    <2>4. \A n \in AnyNumber : Given(n) /\ Recent(NoPicture, n) => n.id = 0
      BY LenProperties DEF Given, Recent, NoPicture, AnyNumber, ViewInv, PictureTypes
    <2>5. Given(lastId) /\ Given(redraw.id)
      BY DEF ViewInv
    <2> HIDE DEF seen
    <2>6. drawn'.id = redraw.id /\ drawn'.over = lastId' /\ lastId' \in AnyNumber
      BY <1>1, <2>1
    <2>7. CASE ~redraw.skip
      <3>1. ~crossed => Recent(texture', redraw.id)
        <4>1. CASE seen = NoPicture
          <5>1. ~crossed => redraw.id.id = 0
            BY <1>1, <2>3, <2>4, <2>5, <4>1
          <5> QED BY <5>1 DEF Recent
        <4>2. CASE seen # NoPicture
          BY <2>1, <2>3, <2>7, <4>2 DEF Prepared
        <4> QED BY <4>1, <4>2
      <3> QED BY <1>3, <2>1, <2>6, <3>1, <1>1 DEF DrawInv, PictureIsRecent, Recent
    <2>8. CASE redraw.skip
      <3>1. /\ redraw.id.id > 0 /\ redraw.id.id <= lastId.id
            /\ lastId.id <= redraw.id.id + RestartGap
        BY <2>1, <2>8 DEF DrawInv
      <3>2. ~crossed => texture' = texture
        <4>1. ~crossed => texture # NoPicture
          BY <1>1, <2>3, <2>4, <2>5, <3>1 DEF AnyNumber
        <4> QED BY <2>1, <2>8, <4>1 DEF Prepared
      <3>3. lastId' = lastId
        BY <2>1, <2>8
      <3>4. ASSUME ~crossed
            PROVE  \/ texture.stream > redraw.id.stream
                   \/ texture.stream = redraw.id.stream /\ texture.no + 1 >= redraw.id.id
                   \/ RestartMissed(redraw.id, lastId)
        <4>1. lastId.id > 0
          BY <1>1, <3>1 DEF AnyNumber
        <4>2. \/ texture.stream > lastId.stream
              \/ texture.stream = lastId.stream /\ texture.no + 1 >= lastId.id
          BY <2>3, <3>4, <4>1 DEF Recent
        <4> QED BY <1>1, <3>1, <4>2 DEF RestartMissed, AnyNumber, AnyPicture
      <3> QED BY <1>1, <1>3, <2>1, <2>6, <3>2, <3>3, <3>4 DEF DrawInv, PictureIsRecent
    <2> QED BY <2>7, <2>8
  <1> QED BY <1>4, <1>5, <1>6, <1>7, <1>8, <1>9 DEF ViewerNext

--------------------------------------------------------------------------------
(* The watcher's window: what is not of a picture. *)

StreamThere(number) == number.stream \in 0..Len(tasks)
ViewTypes ==
    /\ Len(tasks) <= MaxStreams /\ received \in 0..MaxPictures /\ openings \in 0..Len(tasks)
    /\ viewing \in BOOLEAN /\ redrawAsked \in BOOLEAN /\ crossed \in BOOLEAN
    /\ lastShape \in Shapes \cup {NoShape}
    /\ StreamThere(slots[1]) /\ StreamThere(slots[2])
    /\ StreamThere(frameId) /\ StreamThere(redraw.id) /\ StreamThere(lastId)
    /\ StreamThere(drawn.id) /\ StreamThere(drawn.over)

LEMMA ViewTypesStart == ViewerInit => ViewTypes
  <1> SUFFICES ASSUME ViewerInit PROVE ViewTypes
    OBVIOUS
  <1>1. /\ Len(tasks) = 0 /\ slots[1].stream = 0 /\ slots[2].stream = 0 /\ redraw.id.stream = 0
        /\ frameId.stream = 0 /\ lastId.stream = 0 /\ drawn.id.stream = 0 /\ drawn.over.stream = 0
    BY DEF ViewerInit, NoPicture, NoRedraw
  <1>2. /\ received = 0 /\ openings = 0 /\ viewing = FALSE /\ redrawAsked = FALSE
        /\ crossed = FALSE /\ lastShape = NoShape
    BY DEF ViewerInit
  <1>3. /\ Len(tasks) <= MaxStreams /\ received \in 0..MaxPictures /\ openings \in 0..Len(tasks)
        /\ 0 \in 0..Len(tasks)
    BY <1>1, <1>2, ViewerAssumption
  <1> QED BY <1>1, <1>2, <1>3 DEF ViewTypes, StreamThere

LEMMA ViewTypesKeep ==
  ASSUME PictureTypes, ViewTypes, [ViewerNext]_viewerVars, PictureTypes'
  PROVE  ViewTypes'
  <1>0. tasks' \in Seq(AnyTask)
    BY DEF PictureTypes
  <1>1. /\ tasks \in Seq(AnyTask) /\ Len(tasks) \in Nat /\ DOMAIN tasks = 1..Len(tasks)
        /\ \A i \in 1..Len(tasks) : tasks[i] \in AnyTask
        /\ \A k \in {1, 2} : slots[k] \in AnyPicture
        /\ DOMAIN slots = {1, 2}
    BY LenProperties, ElementOfSeq DEF PictureTypes
  <1>2. ASSUME NEW i \in DOMAIN tasks, TaskSteps(i) PROVE ViewTypes'
    <2>1. /\ crossed' \in BOOLEAN
          /\ UNCHANGED <<openings, viewing, redrawAsked, redraw, lastId, drawn, lastShape>>
          /\ received' = received \/ (received < MaxPictures /\ received' = received + 1)
          /\ \E task : tasks' = [tasks EXCEPT ![i] = task]
          /\ frameId' = frameId \/ frameId'.stream = i
          /\ \/ slots' = slots
             \/ \E picture : picture.stream = i /\ slots' = [slots EXCEPT ![tasks[i].at] = picture]
      <3>1. ASSUME NEW task, Task(i, task)
            PROVE  crossed' \in BOOLEAN /\ tasks' = [tasks EXCEPT ![i] = task]
        BY <3>1 DEF Task, ViewTypes
      <3>2. ASSUME NEW shape \in Shapes, TaskTakes(i, shape) PROVE <2>1!:
        BY <3>1, <3>2 DEF TaskTakes, bufferVars, drawVars
      <3>3. CASE TaskWrites(i)
        <4> DEFINE picture == [stream |-> i, no |-> tasks[i].counter, shape |-> tasks[i].shape]
        <4>1. picture.stream = i /\ slots' = [slots EXCEPT ![tasks[i].at] = picture]
          BY <3>3 DEF TaskWrites
        <4> HIDE DEF picture
        <4> QED BY <3>1, <3>3, <4>1 DEF TaskWrites, drawVars
      <3>4. CASE TaskNumbers(i)
        BY <3>1, <3>4 DEF TaskNumbers, drawVars
      <3>5. CASE TaskLoads(i) \/ TaskSwaps(i) \/ TaskEnds(i)
        BY <3>1, <3>5 DEF TaskLoads, TaskSwaps, TaskEnds, drawVars, bufferVars
      <3> QED BY <1>2, <3>2, <3>3, <3>4, <3>5 DEF TaskSteps
    <2>2. Len(tasks') = Len(tasks)
      <3>1. PICK task : tasks' = [tasks EXCEPT ![i] = task]
        BY <2>1
      <3> QED BY <1>0, <1>1, <3>1, ExceptLen
    <2>3. received' \in 0..MaxPictures
      BY <2>1, ViewerAssumption DEF ViewTypes
    <2>4. i \in 0..Len(tasks)
      BY <1>1
    <2>5. slots'[1].stream \in 0..Len(tasks) /\ slots'[2].stream \in 0..Len(tasks)
      BY <1>1, <2>1, <2>4 DEF ViewTypes, StreamThere
    <2>6. frameId'.stream \in 0..Len(tasks)
      BY <2>1, <2>4 DEF ViewTypes, StreamThere
    <2> QED BY <2>1, <2>2, <2>3, <2>5, <2>6 DEF ViewTypes, StreamThere
  <1>3. CASE StopStream
    <2>1. /\ UNCHANGED <<bufferVars, received, openings, crossed, viewing, drawVars>>
          /\ \E task : tasks' = [tasks EXCEPT ![Len(tasks)] = task]
      BY <1>3 DEF StopStream
    <2>2. Len(tasks') = Len(tasks)
      <3>1. PICK task : tasks' = [tasks EXCEPT ![Len(tasks)] = task]
        BY <2>1
      <3> QED BY <1>0, <1>1, <3>1, ExceptLen
    <2> QED BY <2>1, <2>2 DEF ViewTypes, StreamThere, bufferVars, drawVars
  <1>4. CASE StartStream
    <2> DEFINE told == [i \in DOMAIN tasks |-> [tasks[i] EXCEPT !.told = TRUE]]
               new == [pc |-> "idle", shape |-> NoShape, at |-> 1, counter |-> 0, told |-> FALSE]
    <2>1. /\ UNCHANGED <<bufferVars, received, crossed, viewing, drawVars>>
          /\ tasks' = Append(told, new) /\ openings' = openings + 1 /\ Len(tasks) < MaxStreams
      BY <1>4 DEF StartStream
    <2>2. told \in Seq(AnyTask) /\ Len(told) = Len(tasks)
      <3>0. \A task \in AnyTask : [task EXCEPT !.told = TRUE] \in AnyTask
        BY DEF AnyTask
      <3>1. \A j \in 1..Len(tasks) : [tasks[j] EXCEPT !.told = TRUE] \in AnyTask
        BY <1>1, <3>0
      <3>2. told \in [1..Len(tasks) -> AnyTask]
        BY <1>1, <3>1
      <3> QED BY <1>1, <3>2, SeqDef, LenProperties
    <2>3. new \in AnyTask
      BY DEF AnyTask, TaskPc
    <2> HIDE DEF told, new
    <2>4. Len(tasks') = Len(tasks) + 1
      BY <2>1, <2>2, <2>3, AppendOne
    <2>5. /\ 0..Len(tasks) \subseteq 0..Len(tasks') /\ Len(tasks') <= MaxStreams
          /\ openings' \in 0..Len(tasks')
      BY <1>1, <2>1, <2>4, ViewerAssumption DEF ViewTypes
    <2> QED BY <2>1, <2>5 DEF ViewTypes, StreamThere, bufferVars, drawVars
  <1>5. CASE NewSharer
    <2>1. openings' \in 0..Len(tasks)
      BY <1>1, <1>5 DEF NewSharer, ViewTypes
    <2>2. lastId'.stream = 0 /\ lastShape' = NoShape /\ viewing' = TRUE
          /\ UNCHANGED <<bufferVars, tasks, received, crossed, redrawAsked, redraw, texture, drawn>>
      BY <1>5 DEF NewSharer
    <2> QED BY <1>1, <2>1, <2>2 DEF ViewTypes, StreamThere, bufferVars
  <1>6. CASE RedrawThread \/ UNCHANGED viewerVars
    <2>1. /\ UNCHANGED <<slots, frameId, tasks, received, openings, crossed, viewing, redraw, lastId, drawn,
                         lastShape>>
          /\ redrawAsked' \in BOOLEAN
      BY <1>6 DEF RedrawThread, ViewTypes, viewerVars, bufferVars, feedVars, drawVars
    <2> QED BY <2>1 DEF ViewTypes, StreamThere
  <1>7. CASE RedrawBegins \/ RedrawAims \/ RedrawReshapes \/ RedrawLooks \/ RedrawUploads
    <2>1. /\ UNCHANGED <<slots, frameId, tasks, received, openings, crossed, viewing>>
          /\ redrawAsked' \in BOOLEAN
      BY <1>7 DEF RedrawBegins, RedrawAims, RedrawReshapes, RedrawLooks, RedrawUploads, ViewTypes,
         bufferVars, feedVars
    <2>2. lastShape' \in Shapes \cup {NoShape}
      <3>1. CASE RedrawReshapes
        <4>1. redraw.at \in {1, 2}
          BY DEF PictureTypes, AnyRedraw
        <4>2. slots[redraw.at] \in AnyPicture
          BY <1>1, <4>1
        <4> QED BY <3>1, <4>2 DEF RedrawReshapes, AnyPicture
      <3>2. CASE ~RedrawReshapes
        BY <1>7, <3>2 DEF RedrawBegins, RedrawAims, RedrawLooks, RedrawUploads, ViewTypes
      <3> QED BY <3>1, <3>2
    <2>3. redraw \in AnyRedraw
      BY DEF PictureTypes
    <2>4. redraw'.id.stream \in {frameId.stream, redraw.id.stream, 0}
      <3>1. NoRedraw.id.stream = 0
        BY DEF NoRedraw
      <3>2. CASE RedrawBegins
        BY <2>3, <3>2 DEF RedrawBegins, AnyRedraw
      <3>3. CASE RedrawAims
        BY <2>3, <3>3 DEF RedrawAims, AnyRedraw
      <3>4. CASE RedrawReshapes \/ RedrawUploads
        BY <3>1, <3>4 DEF RedrawReshapes, RedrawUploads
      <3>5. CASE RedrawLooks
        BY <2>3, <3>1, <3>5 DEF RedrawLooks, AnyRedraw
      <3> QED BY <1>7, <3>2, <3>3, <3>4, <3>5
    <2>5. lastId'.stream \in {0, lastId.stream, redraw.id.stream}
      BY <1>7 DEF RedrawBegins, RedrawAims, RedrawReshapes, RedrawLooks, RedrawUploads
    <2>a. /\ drawn'.id.stream \in {drawn.id.stream, redraw.id.stream}
          /\ drawn'.over.stream \in {drawn.over.stream, lastId.stream, redraw.id.stream}
      BY <1>7 DEF RedrawBegins, RedrawAims, RedrawReshapes, RedrawLooks, RedrawUploads
    <2>6. Len(tasks') = Len(tasks) /\ slots' = slots /\ frameId' = frameId
      BY <2>1
    <2>7. /\ redraw'.id.stream \in 0..Len(tasks) /\ lastId'.stream \in 0..Len(tasks)
          /\ drawn'.id.stream \in 0..Len(tasks) /\ drawn'.over.stream \in 0..Len(tasks)
      <3> DEFINE S == 0..Len(tasks)
      <3>1. /\ frameId.stream \in S /\ redraw.id.stream \in S /\ lastId.stream \in S
            /\ drawn.id.stream \in S /\ drawn.over.stream \in S
        BY DEF ViewTypes, StreamThere
      <3>2. 0 \in S
        BY <1>1
      <3> HIDE DEF S
      <3>3. /\ redraw'.id.stream \in S /\ lastId'.stream \in S
            /\ drawn'.id.stream \in S /\ drawn'.over.stream \in S
        BY <2>4, <2>5, <2>a, <3>1, <3>2
      <3> QED BY <3>3 DEF S
    <2>8. /\ StreamThere(slots[1])' /\ StreamThere(slots[2])' /\ StreamThere(frameId)'
          /\ StreamThere(redraw.id)' /\ StreamThere(lastId)'
          /\ StreamThere(drawn.id)' /\ StreamThere(drawn.over)'
      BY <2>6, <2>7 DEF ViewTypes, StreamThere
    <2> QED BY <2>1, <2>2, <2>6, <2>8 DEF ViewTypes
  <1> QED BY <1>2, <1>3, <1>4, <1>5, <1>6, <1>7 DEF ViewerNext

LEMMA ViewerShown == PictureTypes /\ ViewTypes => ViewerTypeOK
  <1> SUFFICES ASSUME PictureTypes, ViewTypes PROVE ViewerTypeOK
    OBVIOUS
  <1> DEFINE Slot == [stream : 0..MaxStreams, no : Nat, shape : Shapes \cup {NoShape}]
  <1>1. Len(tasks) \in Nat /\ MaxStreams \in Nat /\ Len(tasks) <= MaxStreams
    BY LenProperties, ViewerAssumption DEF PictureTypes, ViewTypes
  <1>2. \A k \in {1, 2} : slots[k] \in Slot
    <2>1. \A k \in {1, 2} : slots[k] \in AnyPicture /\ slots[k].stream \in 0..MaxStreams
      BY <1>1 DEF PictureTypes, ViewTypes, StreamThere
    <2> QED BY <2>1 DEF AnyPicture
  <1>3. slots \in [1..2 -> Slot]
    <2>1. 1..2 = {1, 2}
      OBVIOUS
    <2>2. slots \in [{1, 2} -> AnyPicture]
      BY DEF PictureTypes
    <2> HIDE DEF Slot
    <2>3. slots \in [{1, 2} -> Slot]
      BY <1>2, <2>2
    <2> QED BY <2>1, <2>3
  <1> HIDE DEF Slot
  <1>4. slots \in Seq(Slot) /\ Len(slots) = 2
    <2>1. slots \in Seq(Slot)
      BY <1>3, SeqDef
    <2>2. DOMAIN slots = 1..2
      BY <1>3
    <2>3. Len(slots) \in Nat /\ 1..2 = 1..Len(slots)
      BY <2>1, <2>2, LenProperties
    <2>4. ASSUME NEW n \in Nat, 1..2 = 1..n PROVE n = 2
      <3>1. 2 \in 1..n /\ 3 \notin 1..n
        BY <2>4
      <3> QED BY <3>1
    <2> QED BY <2>1, <2>3, <2>4
  <1>5. openings \in 0..MaxStreams
    BY <1>1 DEF ViewTypes
  <1> QED BY <1>4, <1>5 DEF Slot, ViewerTypeOK, PictureTypes, ViewTypes, StreamThere

--------------------------------------------------------------------------------
(* The watcher's window. *)

\* While one part of the room takes its steps the others rest.
WatchInv == SizeInv /\ ViewInv /\ DrawInv

\* What a watcher's window shows is the share: as long as its streams follow one another,
\* the picture is at most one behind the number that was read, and never an older
\* stream's, unless that number is within RestartGap of the last one of the older stream,
\* for which the redraw missed the restart; and when no resize is on its way the window
\* draws as large as it is, in the picture's shape, whoever resized it in between
\* (screensharing_window.rs).
THEOREM TheShareIsShown == RoomSpec => []ViewerShowsTheShare
  <1>1. RoomInit => WatchInv
    BY ViewInit, SizeInit, DrawInit DEF RoomInit, WatchInv
  <1>2. WatchInv /\ [RoomNext]_allVars => WatchInv'
    <2> SUFFICES ASSUME WatchInv, [RoomNext]_allVars PROVE WatchInv'
      OBVIOUS
    <2>1. [ViewerNext]_viewerVars /\ [ViewSizeNext]_viewSizeVars
      BY DEF RoomNext, PeopleNext, OverNext, WatchNext, allVars, watchVars
    <2> QED BY <2>1, ViewStep, SizeStep, DrawStep DEF WatchInv
  <1>3. WatchInv => ViewerShowsTheShare
    BY SizeIsDrawn DEF WatchInv, DrawInv, ViewerShowsTheShare
  <1> QED BY <1>1, <1>2, <1>3, PTL DEF RoomSpec

--------------------------------------------------------------------------------
(* The cameras (Cameras). *)

CameraNews == {"connected", "subscribed", "unmuted", "muted", "unsubscribed", "disconnected"}
AnyCameraEvent == [type : CameraNews, who : Others]
AnyStream == [who : Others, state : {"running", "told", "ended"}]
AnyUserEvent == {"open", "close", "start", "stop", "end"}

CameraTypes ==
    /\ there \subseteq came /\ came \subseteq Others /\ on \subseteq there
    /\ inbox \in Seq(AnyCameraEvent) /\ starting \in Others \cup {Nobody}
    /\ inRoom \in BOOLEAN /\ known \subseteq Others
    /\ pictures \in Seq(AnyStream) /\ stopper \in [Others -> 0..Len(pictures)]
    /\ uiQueue \in Seq(AnyUserEvent)

\* q has nothing about p; its event j is the last about whoever that one is about.
NoNewsOf(q, p) == \A j \in DOMAIN q : q[j].who # p
IsLast(q, j) == \A k \in DOMAIN q : k > j => q[k].who # q[j].who

Has(q, e) == \E j \in DOMAIN q : q[j] = e

\* Who has not come yet, or not been subscribed to.
Unheard(q, c, p) == p \notin c \/ Has(q, RoomEvent("subscribed", p))

\* An event among those that wait, in the order LiveKit gave them: one comes and is
\* subscribed to before all else and goes after all else, and the last change of a camera
\* is how it is now.  c have come, t are there, and the cameras of o are on.
EventInOrder(q, j, c, t, o) ==
    /\ q[j].who \in c
    /\ q[j].type = "subscribed" =>
         \A k \in DOMAIN q : k < j /\ q[k].who = q[j].who => q[k].type = "connected"
    /\ q[j].type = "disconnected" => q[j].who \notin t /\ IsLast(q, j)
    /\ IsLast(q, j) =>
         /\ q[j].type \notin {"connected", "unsubscribed"}
         /\ q[j].type = "unmuted" => q[j].who \in o
         /\ q[j].type = "muted" => q[j].who \notin o
EventsInOrder(q, c, t, o) == \A j \in DOMAIN q : EventInOrder(q, j, c, t, o)

\* Whoever is there is in the map or about to enter it, and is before anything else is
\* heard of him.
Entering(q, who, t) ==
    /\ \A p \in t : p \in who \/ Has(q, RoomEvent("connected", p))
    /\ \A j \in DOMAIN q :
         \/ q[j].type = "connected" \/ q[j].who \in who
         \/ \E k \in DOMAIN q : k < j /\ q[k] = RoomEvent("connected", q[j].who)

Streams(p) == stopper[p] # 0 /\ Streaming(stopper[p])

\* What has been heard of p's camera has been done: it has a stream, or one is starting.
Heard(p) == IF starting = p THEN p \in on ELSE p \in on <=> Streams(p)

StreamsFollow ==
    /\ \A i \in DOMAIN pictures : Streaming(i) => stopper[pictures[i].who] = i
    /\ \A p \in Others :
        /\ stopper[p] # 0 => pictures[stopper[p]].who = p
        /\ NoNewsOf(inbox, p) => Heard(p)
        /\ Unheard(inbox, came, p) => stopper[p] = 0 /\ starting # p
        /\ p \in flags => \E i \in DOMAIN pictures : pictures[i].who = p /\ Live(i)

\* The window as it was last opened: what its user has done to it since does not count.
AsOpened == IF dismissed THEN "shown" ELSE shown

WindowFollows ==
    ~misread /\ ~leaving =>
        \A p \in on : NoNewsOf(inbox, p) => WillShow(uiQueue, AsOpened)

NewsFollow == EventsInOrder(inbox, came, there, on) /\ Entering(inbox, known, there)
StartsKnown == starting # Nobody => starting \in known

CamerasFollowed == StartsKnown /\ NewsFollow /\ StreamsFollow /\ WindowFollows
CameraInv == CameraTypes /\ (inRoom => CamerasFollowed)

LEMMA TailNews ==
  ASSUME NEW q, NEW r, IsTail(q, r), NEW c, NEW t, NEW o, EventsInOrder(q, c, t, o)
  PROVE  /\ EventsInOrder(r, c, t, o)
         /\ \A p : NoNewsOf(q, p) <=> q[1].who # p /\ NoNewsOf(r, p)
         /\ \A e : Has(r, e) => Has(q, e)
         /\ EventInOrder(q, 1, c, t, o)
         /\ NoNewsOf(r, q[1].who) => IsLast(q, 1)
         /\ q[1].type = "disconnected" => NoNewsOf(r, q[1].who)
         /\ q[1].type # "connected" => ~Unheard(r, c, q[1].who)
  <1>1. \A j \in DOMAIN r : IsLast(r, j) => IsLast(q, j + 1)
    <2> SUFFICES ASSUME NEW j \in DOMAIN r, IsLast(r, j), NEW k \in DOMAIN q, k > j + 1
                 PROVE  q[k].who # q[j + 1].who
      BY DEF IsLast
    <2>1. k - 1 \in DOMAIN r /\ k - 1 > j /\ r[k - 1] = q[k] /\ r[j] = q[j + 1]
      BY DEF IsTail
    <2> QED BY <2>1 DEF IsLast
  <1>2. \A j \in DOMAIN r : IsLast(q, j + 1) => IsLast(r, j)
    <2> SUFFICES ASSUME NEW j \in DOMAIN r, IsLast(q, j + 1), NEW k \in DOMAIN r, k > j
                 PROVE  r[k].who # r[j].who
      BY DEF IsLast
    <2>1. k + 1 \in DOMAIN q /\ k + 1 > j + 1 /\ r[k] = q[k + 1] /\ r[j] = q[j + 1]
      BY DEF IsTail
    <2> QED BY <2>1 DEF IsLast
  <1>3. EventsInOrder(r, c, t, o)
    <2> SUFFICES ASSUME NEW j \in DOMAIN r PROVE EventInOrder(r, j, c, t, o)
      BY DEF EventsInOrder
    <2>1. j + 1 \in DOMAIN q /\ r[j] = q[j + 1] /\ EventInOrder(q, j + 1, c, t, o)
      BY DEF IsTail, EventsInOrder
    <2>2. ASSUME NEW k \in DOMAIN r, k < j
          PROVE  k + 1 \in DOMAIN q /\ k + 1 < j + 1 /\ r[k] = q[k + 1]
      BY <2>2 DEF IsTail
    <2> QED BY <1>1, <1>2, <2>1, <2>2 DEF EventInOrder
  <1>4. \A p : NoNewsOf(q, p) <=> q[1].who # p /\ NoNewsOf(r, p)
    BY DEF NoNewsOf, IsTail
  <1>5. \A e : Has(r, e) => Has(q, e)
    BY DEF Has, IsTail
  <1>6. EventInOrder(q, 1, c, t, o)
    BY DEF IsTail, EventsInOrder
  <1>7. NoNewsOf(r, q[1].who) <=> IsLast(q, 1)
    <2>1. ASSUME NoNewsOf(r, q[1].who), NEW k \in DOMAIN q, k > 1 PROVE q[k].who # q[1].who
      <3>1. k - 1 \in DOMAIN r /\ r[k - 1] = q[k]
        BY <2>1 DEF IsTail
      <3> QED BY <2>1, <3>1 DEF NoNewsOf
    <2>2. ASSUME IsLast(q, 1), NEW j \in DOMAIN r PROVE r[j].who # q[1].who
      <3>1. j + 1 \in DOMAIN q /\ j + 1 > 1 /\ r[j] = q[j + 1]
        BY DEF IsTail
      <3> QED BY <2>2, <3>1 DEF IsLast
    <2> QED BY <2>1, <2>2 DEF NoNewsOf, IsLast
  <1>8. ASSUME q[1].type # "connected", Unheard(r, c, q[1].who) PROVE FALSE
    <2>1. PICK j \in DOMAIN r : r[j] = RoomEvent("subscribed", q[1].who)
      BY <1>6, <1>8 DEF Unheard, EventInOrder, Has
    <2>2. /\ j + 1 \in DOMAIN q /\ 1 < j + 1 /\ 1 \in DOMAIN q
          /\ q[j + 1] = RoomEvent("subscribed", q[1].who)
      BY <2>1 DEF IsTail
    <2>3. q[j + 1].type = "subscribed" /\ q[j + 1].who = q[1].who /\ EventInOrder(q, j + 1, c, t, o)
      BY <2>2 DEF RoomEvent, EventsInOrder
    <2> QED BY <1>8, <2>2, <2>3 DEF EventInOrder
  <1> QED BY <1>3, <1>4, <1>5, <1>6, <1>7, <1>8 DEF EventInOrder

\* The one that the head is about enters the map, or has been in it, or leaves it with
\* nothing more to hear of him.
LEMMA TailEntering ==
  ASSUME NEW q, NEW r, IsTail(q, r), NEW who, NEW t, Entering(q, who, t)
  PROVE  /\ Entering(r, who \cup {q[1].who}, t)
         /\ q[1].type # "connected" => Entering(r, who, t) /\ q[1].who \in who
         /\ q[1].type # "connected" /\ q[1].who \notin t /\ NoNewsOf(r, q[1].who)
              => Entering(r, who \ {q[1].who}, t)
  <1>1. ASSUME NEW p, Has(q, RoomEvent("connected", p))
        PROVE  (q[1].type = "connected" /\ q[1].who = p) \/ Has(r, RoomEvent("connected", p))
    BY <1>1 DEF Has, IsTail, RoomEvent
  <1>2. ASSUME NEW j \in DOMAIN r, r[j].type # "connected", r[j].who \notin who
        PROVE  \/ q[1].type = "connected" /\ q[1].who = r[j].who
               \/ \E k \in DOMAIN r : k < j /\ r[k] = RoomEvent("connected", r[j].who)
    <2>1. j + 1 \in DOMAIN q /\ r[j] = q[j + 1]
      BY DEF IsTail
    <2>2. PICK k \in DOMAIN q : k < j + 1 /\ q[k] = RoomEvent("connected", r[j].who)
      BY <1>2, <2>1 DEF Entering
    <2>3. CASE k = 1
      BY <2>2, <2>3 DEF RoomEvent
    <2>4. CASE k # 1
      <3>1. k - 1 \in DOMAIN r /\ k - 1 < j /\ r[k - 1] = q[k]
        BY <2>2, <2>4 DEF IsTail
      <3> QED BY <2>2, <3>1
    <2> QED BY <2>3, <2>4
  <1>3. q[1].type # "connected" => q[1].who \in who
    <2>1. 1 \in DOMAIN q /\ ~(\E k \in DOMAIN q : k < 1)
      BY DEF IsTail
    <2> QED BY <2>1 DEF Entering
  <1>4. Entering(r, who \cup {q[1].who}, t)
    BY <1>1, <1>2 DEF Entering
  <1>5. q[1].type # "connected" => Entering(r, who, t)
    BY <1>1, <1>2 DEF Entering
  <1>6. ASSUME q[1].type # "connected", q[1].who \notin t, NoNewsOf(r, q[1].who)
        PROVE  Entering(r, who \ {q[1].who}, t)
    BY <1>5, <1>6 DEF Entering, NoNewsOf
  <1> QED BY <1>3, <1>4, <1>5, <1>6

\* LiveKit tells something more, of x: after q, r has waited.
MoreOf(q, r, x) ==
    /\ q \in Seq(AnyCameraEvent) /\ r \in Seq(AnyCameraEvent) /\ Len(r) > Len(q)
    /\ \A j \in 1..Len(q) : r[j] = q[j]
    /\ \A j \in 1..Len(r) : j > Len(q) => r[j].who = x
\* x alone comes, goes or has his camera changed.
OnlyOf(x, c, t, o, d, u, v) ==
    /\ c \subseteq d /\ (x \in t \/ x \notin c)
    /\ \A p : p # x => (p \in u <=> p \in t) /\ (p \in v <=> p \in o)
MoreInOrder(q, r, d, u, v) == \A j \in 1..Len(r) : j > Len(q) => EventInOrder(r, j, d, u, v)

LEMMA MoreNews ==
  ASSUME NEW q, NEW r, NEW x, MoreOf(q, r, x),
         NEW c, NEW t, NEW o, NEW d, NEW u, NEW v, OnlyOf(x, c, t, o, d, u, v),
         EventsInOrder(q, c, t, o), MoreInOrder(q, r, d, u, v)
  PROVE  /\ EventsInOrder(r, d, u, v)
         /\ \A p : NoNewsOf(r, p) <=> p # x /\ NoNewsOf(q, p)
  <1> USE DEF MoreOf, OnlyOf, MoreInOrder
  <1>1. /\ Len(q) \in Nat /\ Len(r) \in Nat /\ DOMAIN q = 1..Len(q) /\ DOMAIN r = 1..Len(r)
        /\ Len(r) \in 1..Len(r) /\ Len(r) > Len(q) /\ \A j \in 1..Len(q) : j \in 1..Len(r)
        /\ \A j \in 1..Len(r) : j \in Nat /\ (j > Len(q) \/ j \in 1..Len(q))
    BY LenProperties
  <1>2. ASSUME NEW j \in 1..Len(q) PROVE EventInOrder(r, j, d, u, v)
    <2>1. EventInOrder(q, j, c, t, o) /\ r[j] = q[j] /\ j < Len(r)
      BY <1>1 DEF EventsInOrder
    <2>2. IsLast(r, j) => q[j].who # x /\ IsLast(q, j)
      BY <1>1, <2>1 DEF IsLast
    <2>3. q[j].type = "disconnected" => q[j].who # x
      BY <2>1 DEF EventInOrder
    <2>4. q[j].who # x /\ IsLast(q, j) => IsLast(r, j)
      BY <1>1, <2>1 DEF IsLast
    <2>5. q[j].type = "subscribed" =>
            \A k \in DOMAIN r : k < j /\ r[k].who = r[j].who => r[k].type = "connected"
      <3> SUFFICES ASSUME q[j].type = "subscribed", NEW k \in DOMAIN r, k < j, r[k].who = r[j].who
                   PROVE  r[k].type = "connected"
        OBVIOUS
      <3>1. k \in DOMAIN q /\ r[k] = q[k]
        BY <1>1
      <3> QED BY <2>1, <3>1 DEF EventInOrder
    <2> QED BY <2>1, <2>2, <2>3, <2>4, <2>5 DEF EventInOrder
  <1>3. EventsInOrder(r, d, u, v)
    BY <1>1, <1>2 DEF EventsInOrder
  <1>4. ASSUME NEW p PROVE NoNewsOf(r, p) <=> p # x /\ NoNewsOf(q, p)
    BY <1>1 DEF NoNewsOf
  <1> QED BY <1>3, <1>4

LEMMA MoreEntering ==
  ASSUME NEW q \in Seq(AnyCameraEvent), NEW r \in Seq(AnyCameraEvent), Len(r) > Len(q),
         \A j \in 1..Len(q) : r[j] = q[j],
         NEW x, \A j \in 1..Len(r) : j > Len(q) => r[j].who = x,
         NEW who, NEW t, NEW u, Entering(q, who, t),
         \A p : p # x => (p \in u <=> p \in t),
         x \in t \/ (r[Len(q) + 1] = RoomEvent("connected", x))
  PROVE  Entering(r, who, u)
  <1>1. /\ Len(q) \in Nat /\ Len(r) \in Nat /\ DOMAIN q = 1..Len(q) /\ DOMAIN r = 1..Len(r)
        /\ \A j \in 1..Len(q) : j \in 1..Len(r)
        /\ \A j \in 1..Len(r) : j \in Nat /\ (j > Len(q) \/ j \in 1..Len(q))
        /\ Len(q) + 1 \in 1..Len(r)
        /\ \A j \in 1..Len(r) : j > Len(q) => j = Len(q) + 1 \/ Len(q) + 1 < j
    BY LenProperties
  <1>2. \A e : Has(q, e) => Has(r, e)
    BY <1>1 DEF Has
  <1>3. x \in who \/ Has(r, RoomEvent("connected", x))
    BY <1>1, <1>2 DEF Entering, Has
  <1>4. \A p \in u : p \in who \/ Has(r, RoomEvent("connected", p))
    BY <1>2, <1>3 DEF Entering
  <1>5. ASSUME NEW j \in DOMAIN r, r[j].type # "connected", r[j].who \notin who
        PROVE  \E k \in DOMAIN r : k < j /\ r[k] = RoomEvent("connected", r[j].who)
    <2>1. CASE j \in 1..Len(q)
      BY <1>1, <1>5, <2>1 DEF Entering
    <2>2. CASE j > Len(q)
      <3>1. r[j].who = x
        BY <1>1, <2>2
      <3>2. CASE x \in t
        <4>1. PICK k \in DOMAIN q : q[k] = RoomEvent("connected", x)
          BY <1>5, <3>1, <3>2 DEF Entering, Has
        <4>2. k \in DOMAIN r /\ k < j /\ r[k] = q[k]
          BY <1>1, <2>2
        <4> QED BY <3>1, <4>1, <4>2
      <3>3. CASE r[Len(q) + 1] = RoomEvent("connected", x)
        <4>1. j # Len(q) + 1
          BY <1>5, <3>3 DEF RoomEvent
        <4> QED BY <1>1, <2>2, <3>1, <3>3, <4>1
      <3> QED BY <3>2, <3>3
    <2> QED BY <1>1, <2>1, <2>2
  <1> QED BY <1>4, <1>5 DEF Entering

LEMMA EventTypes ==
  ASSUME NEW type \in CameraNews, NEW p \in Others
  PROVE  /\ RoomEvent(type, p) \in AnyCameraEvent
         /\ RoomEvent(type, p).type = type /\ RoomEvent(type, p).who = p
  BY DEF RoomEvent, AnyCameraEvent

\* A step of the others: LiveKit tells the core of it.
LEMMA ElsewhereKeeps ==
  ASSUME CameraInv, NEW p \in Others, NEW events \in Seq(AnyCameraEvent), Elsewhere(events),
         events # <<>>, \A j \in 1..Len(events) : events[j].who = p,
         there' \subseteq came', came' \subseteq Others, on' \subseteq there', came \subseteq came',
         \A x : x # p => /\ x \in there' <=> x \in there
                         /\ x \in on' <=> x \in on,
         \/ p \in there /\ \A j \in 1..Len(events) : events[j].type # "subscribed"
         \/ p \notin came /\ events[1] = RoomEvent("connected", p),
         \A j \in 1..Len(inbox \o events) :
             j > Len(inbox) => EventInOrder(inbox \o events, j, came', there', on')
  PROVE  CameraInv'
  <1>1. /\ inRoom /\ inbox' = inbox \o events
        /\ UNCHANGED <<starting, inRoom, leaving, known, flags, pictures, stopper, uiQueue, shown,
                       misread, dismissed>>
    BY DEF Elsewhere, streamVars, windowVars
  <1>2. /\ inbox \in Seq(AnyCameraEvent) /\ Len(inbox) \in Nat /\ Len(events) \in Nat \ {0}
    BY LenProperties, EmptySeq DEF CameraInv, CameraTypes
  <1>3. /\ inbox' \in Seq(AnyCameraEvent) /\ Len(inbox') = Len(inbox) + Len(events)
        /\ \A j \in 1..Len(inbox) : inbox'[j] = inbox[j]
        /\ \A j \in 1..Len(inbox') : j > Len(inbox) =>
             j - Len(inbox) \in 1..Len(events) /\ inbox'[j] = events[j - Len(inbox)]
    BY <1>1, <1>2, ConcatProperties
  <1>4. /\ Len(inbox') \in Nat /\ Len(inbox') > Len(inbox) /\ Len(inbox) + 1 \in 1..Len(inbox')
        /\ DOMAIN inbox = 1..Len(inbox) /\ DOMAIN inbox' = 1..Len(inbox')
    BY <1>2, <1>3, LenProperties
  <1>5. /\ inbox'[Len(inbox) + 1] = events[1]
        /\ \A j \in 1..Len(inbox') : j > Len(inbox) => inbox'[j].who = p
    <2>1. Len(inbox) + 1 > Len(inbox) /\ Len(inbox) + 1 - Len(inbox) = 1
      BY <1>2
    <2> QED BY <1>3, <1>4, <2>1
  <1>a. /\ EventsInOrder(inbox, came, there, on) /\ Entering(inbox, known, there)
        /\ came \subseteq came'
    BY <1>1 DEF CameraInv, CamerasFollowed, NewsFollow
  <1>b. p \in there \/ p \notin came
    OBVIOUS
  <1>c. p \in there \/ inbox'[Len(inbox) + 1] = RoomEvent("connected", p)
    BY <1>5
  <1>d. \A j \in 1..Len(inbox') : j > Len(inbox) => EventInOrder(inbox', j, came', there', on')
    BY <1>1
  <1>e. \A x : x # p => (x \in there' <=> x \in there) /\ (x \in on' <=> x \in on)
    OBVIOUS
  <1>6. /\ EventsInOrder(inbox', came', there', on')
        /\ \A x : NoNewsOf(inbox', x) <=> x # p /\ NoNewsOf(inbox, x)
    <2> DEFINE q == inbox
               r == inbox'
               d == came'
               u == there'
               v == on'
    <2>1. MoreOf(q, r, p)
      BY <1>2, <1>3, <1>4, <1>5 DEF MoreOf
    <2>2. OnlyOf(p, came, there, on, d, u, v) /\ EventsInOrder(q, came, there, on)
      BY <1>a, <1>b, <1>e DEF OnlyOf
    <2>3. MoreInOrder(q, r, d, u, v)
      BY <1>d DEF MoreInOrder
    <2> HIDE DEF q, r, d, u, v
    <2>4. EventsInOrder(r, d, u, v) /\ \A x : NoNewsOf(r, x) <=> x # p /\ NoNewsOf(q, x)
      BY <2>1, <2>2, <2>3, MoreNews
    <2> QED BY <2>4 DEF q, r, d, u, v
  <1>7. Entering(inbox', known', there')
    <2> DEFINE q == inbox
               r == inbox'
               u == there'
    <2>1. /\ q \in Seq(AnyCameraEvent) /\ r \in Seq(AnyCameraEvent) /\ Len(r) > Len(q)
          /\ \A j \in 1..Len(q) : r[j] = q[j]
          /\ \A j \in 1..Len(r) : j > Len(q) => r[j].who = p
          /\ \A x : x # p => (x \in u <=> x \in there)
          /\ Entering(q, known, there)
          /\ p \in there \/ r[Len(q) + 1] = RoomEvent("connected", p)
      BY <1>2, <1>3, <1>4, <1>5, <1>a, <1>c, <1>e
    <2> HIDE DEF q, r, u
    <2>2. Entering(r, known, u)
      BY <2>1, MoreEntering
    <2> QED BY <1>1, <2>2 DEF q, r, u
  <1>8. ASSUME NEW x, Unheard(inbox', came', x) PROVE Unheard(inbox, came, x)
    <2>1. CASE x \notin came'
      BY <2>1 DEF Unheard
    <2>2. CASE x \in came'
      <3>1. PICK j \in DOMAIN inbox' : inbox'[j] = RoomEvent("subscribed", x)
        BY <1>8, <2>2 DEF Unheard, Has
      <3>2. inbox'[j].type = "subscribed" /\ inbox'[j].who = x
        BY <3>1 DEF RoomEvent
      <3>3. CASE j > Len(inbox)
        <4>1. x = p /\ events[j - Len(inbox)].type = "subscribed"
          BY <1>3, <1>4, <3>2, <3>3
        <4> QED BY <1>3, <1>4, <3>3, <4>1 DEF Unheard
      <3>4. CASE ~(j > Len(inbox))
        <4>1. j \in DOMAIN inbox /\ inbox[j] = RoomEvent("subscribed", x)
          BY <1>2, <1>3, <1>4, <3>1, <3>4
        <4> QED BY <4>1 DEF Unheard, Has
      <3> QED BY <3>3, <3>4
    <2> QED BY <2>1, <2>2
  <1>9. StreamsFollow'
    BY <1>1, <1>6, <1>8
       DEF CameraInv, CamerasFollowed, StreamsFollow, Heard, Streams, Streaming, Live
  <1>10. WindowFollows'
    BY <1>1, <1>6 DEF CameraInv, CamerasFollowed, WindowFollows, AsOpened
  <1>11. CameraTypes'
    BY <1>1, <1>3 DEF CameraInv, CameraTypes
  <1> QED BY <1>1, <1>6, <1>7, <1>9, <1>10, <1>11
          DEF CameraInv, CamerasFollowed, NewsFollow, StartsKnown

LEMMA OneEvent ==
  ASSUME NEW e \in AnyCameraEvent
  PROVE  <<e>> \in Seq(AnyCameraEvent) /\ <<e>> # <<>> /\ Len(<<e>>) = 1 /\ <<e>>[1] = e
  OBVIOUS

LEMMA TwoEvents ==
  ASSUME NEW e \in AnyCameraEvent, NEW f \in AnyCameraEvent
  PROVE  /\ <<e, f>> \in Seq(AnyCameraEvent) /\ <<e, f>> # <<>>
         /\ Len(<<e, f>>) = 2 /\ <<e, f>>[1] = e /\ <<e, f>>[2] = f
  OBVIOUS

LEMMA OthersKeep ==
  ASSUME CameraInv, NEW p \in Others, Appears(p) \/ CameraOn(p) \/ CameraOff(p) \/ Vanishes(p)
  PROVE  CameraInv'
  <1>0. /\ inbox \in Seq(AnyCameraEvent) /\ Len(inbox) \in Nat /\ DOMAIN inbox = 1..Len(inbox)
        /\ there \subseteq came /\ came \subseteq Others /\ on \subseteq there
    BY LenProperties DEF CameraInv, CameraTypes
  <1>1. CASE Appears(p)
    <2> DEFINE e == RoomEvent("connected", p)
               f == RoomEvent("subscribed", p)
               r == inbox \o <<e, f>>
    <2>1. /\ p \notin came /\ there' = there \cup {p} /\ came' = came \cup {p}
          /\ on' \in {on, on \cup {p}} /\ Elsewhere(<<e, f>>)
      BY <1>1 DEF Appears
    <2>2. /\ e \in AnyCameraEvent /\ e.type = "connected" /\ e.who = p
          /\ f \in AnyCameraEvent /\ f.type = "subscribed" /\ f.who = p
      BY EventTypes DEF CameraNews
    <2>3. inRoom /\ \A j \in DOMAIN inbox : inbox[j].who \in came
      BY <2>1 DEF Elsewhere, CameraInv, CamerasFollowed, NewsFollow, EventsInOrder, EventInOrder
    <2>4. e = RoomEvent("connected", p)
      OBVIOUS
    <2> HIDE DEF e, f
    <2>5. /\ <<e, f>> \in Seq(AnyCameraEvent) /\ <<e, f>> # <<>>
          /\ Len(<<e, f>>) = 2 /\ <<e, f>>[1] = e /\ <<e, f>>[2] = f
      BY <2>2, TwoEvents
    <2>6. /\ r \in Seq(AnyCameraEvent) /\ Len(r) = Len(inbox) + 2
          /\ \A j \in 1..Len(inbox) : r[j] = inbox[j]
          /\ r[Len(inbox) + 1] = e /\ r[Len(inbox) + 2] = f
          /\ DOMAIN r = 1..(Len(inbox) + 2)
      BY <1>0, <2>5, ConcatProperties, LenProperties
    <2> HIDE DEF r
    <2>7. ~IsLast(r, Len(inbox) + 1)
      BY <1>0, <2>2, <2>6 DEF IsLast
    <2>8. EventInOrder(r, Len(inbox) + 1, came', there', on')
      BY <2>1, <2>2, <2>6, <2>7 DEF EventInOrder
    <2>9. ASSUME NEW k \in DOMAIN r, k < Len(inbox) + 2, r[k].who = p PROVE r[k].type = "connected"
      <3>1. k \in 1..Len(inbox) \/ k = Len(inbox) + 1
        BY <1>0, <2>6, <2>9
      <3> QED BY <1>0, <2>1, <2>2, <2>3, <2>6, <2>9, <3>1
    <2>10. EventInOrder(r, Len(inbox) + 2, came', there', on')
      BY <2>1, <2>2, <2>6, <2>9 DEF EventInOrder
    <2>11. \A j \in 1..Len(r) : j > Len(inbox) => EventInOrder(r, j, came', there', on')
      <3>1. \A j \in 1..Len(r) : j > Len(inbox) => j = Len(inbox) + 1 \/ j = Len(inbox) + 2
        BY <1>0, <2>6
      <3> QED BY <2>8, <2>10, <3>1
    <2>12. \A j \in 1..Len(<<e, f>>) : <<e, f>>[j].who = p
      BY <2>2, <2>5
    <2> QED BY <1>0, <2>1, <2>4, <2>5, <2>11, <2>12, ElsewhereKeeps DEF r
  <1>2. ASSUME NEW type \in {"unmuted", "muted"}, Elsewhere(<<RoomEvent(type, p)>>),
               p \in there, UNCHANGED <<there, came>>,
               on' = IF type = "unmuted" THEN on \cup {p} ELSE on \ {p}
        PROVE  CameraInv'
    <2> DEFINE e == RoomEvent(type, p)
               r == inbox \o <<e>>
    <2>1. e \in AnyCameraEvent /\ e.type = type /\ e.who = p
      BY EventTypes DEF CameraNews
    <2>2. Elsewhere(<<e>>)
      BY <1>2
    <2> HIDE DEF e
    <2>3. <<e>> \in Seq(AnyCameraEvent) /\ <<e>> # <<>> /\ Len(<<e>>) = 1 /\ <<e>>[1] = e
      BY <2>1, OneEvent
    <2>4. r \in Seq(AnyCameraEvent) /\ Len(r) = Len(inbox) + 1 /\ r[Len(inbox) + 1] = e
      BY <1>0, <2>3, ConcatProperties
    <2> HIDE DEF r
    <2>5. EventInOrder(r, Len(inbox) + 1, came', there', on')
      BY <1>0, <1>2, <2>1, <2>4 DEF EventInOrder
    <2>6. \A j \in 1..Len(r) : j > Len(inbox) => EventInOrder(r, j, came', there', on')
      <3>1. \A j \in 1..Len(r) : j > Len(inbox) => j = Len(inbox) + 1
        BY <1>0, <2>4
      <3> QED BY <2>5, <3>1
    <2>7. \A j \in 1..Len(<<e>>) : <<e>>[j].who = p /\ <<e>>[j].type # "subscribed"
      BY <2>1, <2>3
    <2> QED BY <1>0, <1>2, <2>2, <2>3, <2>6, <2>7, ElsewhereKeeps DEF r
  <1>3. CASE CameraOn(p)
    BY <1>2, <1>3 DEF CameraOn
  <1>4. CASE CameraOff(p)
    BY <1>0, <1>2, <1>4 DEF CameraOff
  <1>5. CASE Vanishes(p)
    <2> DEFINE e == RoomEvent("unsubscribed", p)
               f == RoomEvent("disconnected", p)
               r == inbox \o <<e, f>>
    <2>1. /\ p \in there /\ there' = there \ {p} /\ on' = on \ {p} /\ UNCHANGED came
          /\ Elsewhere(<<e, f>>)
      BY <1>5 DEF Vanishes
    <2>2. /\ e \in AnyCameraEvent /\ e.type = "unsubscribed" /\ e.who = p
          /\ f \in AnyCameraEvent /\ f.type = "disconnected" /\ f.who = p
      BY EventTypes DEF CameraNews
    <2> HIDE DEF e, f
    <2>5. /\ <<e, f>> \in Seq(AnyCameraEvent) /\ <<e, f>> # <<>>
          /\ Len(<<e, f>>) = 2 /\ <<e, f>>[1] = e /\ <<e, f>>[2] = f
      BY <2>2, TwoEvents
    <2>6. /\ r \in Seq(AnyCameraEvent) /\ Len(r) = Len(inbox) + 2
          /\ r[Len(inbox) + 1] = e /\ r[Len(inbox) + 2] = f
          /\ DOMAIN r = 1..(Len(inbox) + 2)
      BY <1>0, <2>5, ConcatProperties, LenProperties
    <2> HIDE DEF r
    <2>7. ~IsLast(r, Len(inbox) + 1) /\ IsLast(r, Len(inbox) + 2)
      BY <1>0, <2>2, <2>6 DEF IsLast
    <2>8. /\ EventInOrder(r, Len(inbox) + 1, came', there', on')
          /\ EventInOrder(r, Len(inbox) + 2, came', there', on')
      BY <1>0, <2>1, <2>2, <2>6, <2>7 DEF EventInOrder
    <2>11. \A j \in 1..Len(r) : j > Len(inbox) => EventInOrder(r, j, came', there', on')
      <3>1. \A j \in 1..Len(r) : j > Len(inbox) => j = Len(inbox) + 1 \/ j = Len(inbox) + 2
        BY <1>0, <2>6
      <3> QED BY <2>8, <3>1
    <2>12. \A j \in 1..Len(<<e, f>>) : <<e, f>>[j].who = p /\ <<e, f>>[j].type # "subscribed"
      BY <2>2, <2>5
    <2> QED BY <1>0, <2>1, <2>5, <2>11, <2>12, ElsewhereKeeps DEF r
  <1> QED BY <1>1, <1>3, <1>4, <1>5

--------------------------------------------------------------------------------
(* The streams. *)

LEMMA ToldStreams ==
  ASSUME CameraTypes, NEW i
  PROVE  /\ ToldStream(i) \in Seq(AnyStream) /\ Len(ToldStream(i)) = Len(pictures)
         /\ \A j \in 1..Len(pictures) :
              /\ ToldStream(i)[j].who = pictures[j].who
              /\ ToldStream(i)[j].state = "running" <=> j # i /\ pictures[j].state = "running"
              /\ ToldStream(i)[j].state = "ended" <=> pictures[j].state = "ended"
  <1> DEFINE n == Len(pictures)
             told == ToldStream(i)
  <1>1. n \in Nat /\ \A j \in 1..n : pictures[j] \in AnyStream
    BY LenProperties, ElementOfSeq DEF CameraTypes
  <1>2. ASSUME NEW j \in 1..n
        PROVE  /\ told[j] \in AnyStream /\ told[j].who = pictures[j].who
               /\ told[j].state = "running" <=> j # i /\ pictures[j].state = "running"
               /\ told[j].state = "ended" <=> pictures[j].state = "ended"
    <2>1. told[j] = IF j = i /\ Streaming(j) THEN [pictures[j] EXCEPT !.state = "told"]
                                             ELSE pictures[j]
      BY DEF ToldStream
    <2>2. pictures[j] \in AnyStream
      BY <1>1
    <2> QED BY <2>1, <2>2 DEF AnyStream, Streaming
  <1>3. told = [j \in 1..n |-> told[j]]
    BY DEF ToldStream
  <1> HIDE DEF told
  <1>4. told \in [1..n -> AnyStream]
    BY <1>2, <1>3
  <1>5. told \in Seq(AnyStream) /\ Len(told) = n
    BY <1>1, <1>4, SeqDef, LenProperties
  <1> QED BY <1>2, <1>5 DEF told

\* A step leaves what the streams of all but p depend on as it was.
ButOf(p) ==
    /\ DOMAIN pictures \subseteq DOMAIN pictures'
    /\ \A i \in DOMAIN pictures :
         /\ pictures'[i].who = pictures[i].who
         /\ pictures[i].who # p =>
              /\ Streaming(i)' <=> Streaming(i)
              /\ Live(i)' <=> Live(i)
    /\ \A i \in DOMAIN pictures' : i \notin DOMAIN pictures => pictures'[i].who = p
    /\ \A x \in Others : x # p =>
         /\ stopper'[x] = stopper[x]
         /\ starting = x <=> starting' = x
         /\ x \in on' <=> x \in on
         /\ x \in flags' => x \in flags
         /\ NoNewsOf(inbox', x) => NoNewsOf(inbox, x)
         /\ Unheard(inbox', came', x) => Unheard(inbox, came, x)

LEMMA StreamsKeep ==
  ASSUME CameraTypes, CameraTypes', StreamsFollow, NEW p \in Others, ButOf(p),
         \A i \in DOMAIN pictures' : Streaming(i)' /\ pictures'[i].who = p => stopper'[p] = i,
         stopper'[p] # 0 => pictures'[stopper'[p]].who = p,
         NoNewsOf(inbox', p) => Heard(p)',
         Unheard(inbox', came', p) => stopper'[p] = 0 /\ starting' # p,
         p \in flags' => \E i \in DOMAIN pictures' : pictures'[i].who = p /\ Live(i)'
  PROVE  StreamsFollow'
  <1>1. /\ DOMAIN pictures = 1..Len(pictures) /\ Len(pictures) \in Nat
        /\ \A i \in DOMAIN pictures : pictures[i].who \in Others
        /\ \A i \in DOMAIN pictures' : pictures'[i].who \in Others
        /\ \A x \in Others : stopper[x] # 0 => stopper[x] \in DOMAIN pictures
    <2>1. /\ pictures \in Seq(AnyStream) /\ pictures' \in Seq(AnyStream)
          /\ stopper \in [Others -> 0..Len(pictures)]
      BY DEF CameraTypes
    <2>2. ASSUME NEW q \in Seq(AnyStream)
          PROVE  /\ DOMAIN q = 1..Len(q) /\ Len(q) \in Nat
                 /\ \A i \in DOMAIN q : q[i].who \in Others
      <3>1. DOMAIN q = 1..Len(q) /\ Len(q) \in Nat /\ \A i \in 1..Len(q) : q[i] \in AnyStream
        BY LenProperties, ElementOfSeq
      <3>2. \A e \in AnyStream : e.who \in Others
        BY DEF AnyStream
      <3> QED BY <3>1, <3>2
    <2> QED BY <2>1, <2>2
  <1>2. ASSUME NEW i \in DOMAIN pictures', Streaming(i)', pictures'[i].who # p
        PROVE  stopper'[pictures'[i].who] = i
    <2>1. i \in DOMAIN pictures /\ pictures[i].who = pictures'[i].who /\ Streaming(i)
      BY <1>2 DEF ButOf
    <2> QED BY <1>1, <1>2, <2>1 DEF ButOf, StreamsFollow
  <1>3. ASSUME NEW x \in Others, x # p
        PROVE  /\ stopper'[x] # 0 => pictures'[stopper'[x]].who = x
               /\ Streams(x)' <=> Streams(x)
    <2>1. stopper[x] # 0 => stopper[x] \in DOMAIN pictures /\ pictures[stopper[x]].who = x
      BY <1>1 DEF StreamsFollow
    <2> QED BY <1>3, <2>1 DEF ButOf, Streams
  <1>4. ASSUME NEW x \in Others, x # p, NoNewsOf(inbox', x) PROVE Heard(x)'
    BY <1>3, <1>4 DEF ButOf, StreamsFollow, Heard
  <1>5. ASSUME NEW x \in Others, x # p, Unheard(inbox', came', x)
        PROVE  stopper'[x] = 0 /\ starting' # x
    BY <1>5 DEF ButOf, StreamsFollow
  <1>6. ASSUME NEW x \in Others, x # p, x \in flags'
        PROVE  \E i \in DOMAIN pictures' : pictures'[i].who = x /\ Live(i)'
    <2>1. PICK i \in DOMAIN pictures : pictures[i].who = x /\ Live(i)
      BY <1>6 DEF ButOf, StreamsFollow
    <2> QED BY <1>6, <2>1 DEF ButOf
  <1> QED BY <1>2, <1>3, <1>4, <1>5, <1>6 DEF StreamsFollow

--------------------------------------------------------------------------------
(* handle_room_events. *)

LEMMA TakenNews ==
  ASSUME CameraInv, NEW type \in CameraNews, NEW p \in Others, Takes(type, p)
  PROVE  /\ inbox' \in Seq(AnyCameraEvent) /\ starting = Nobody
         /\ UNCHANGED <<there, came, on, inRoom, leaving, shown, dismissed>>
         /\ inRoom =>
              /\ EventsInOrder(inbox', came, there, on)
              /\ \A x : NoNewsOf(inbox, x) <=> x # p /\ NoNewsOf(inbox', x)
              /\ \A x : Unheard(inbox', came, x) => Unheard(inbox, came, x)
              /\ type = "subscribed" => Unheard(inbox, came, p)
              /\ type # "connected" => ~Unheard(inbox', came, p)
              /\ Entering(inbox', known \cup {p}, there)
              /\ type # "connected" => Entering(inbox', known, there) /\ p \in known
              /\ type = "disconnected" =>
                   /\ p \notin there /\ NoNewsOf(inbox', p)
                   /\ Entering(inbox', known \ {p}, there)
              /\ NoNewsOf(inbox', p) =>
                   /\ type \notin {"connected", "unsubscribed"}
                   /\ type = "unmuted" => p \in on
                   /\ type = "muted" => p \notin on
  <1>1. /\ starting = Nobody /\ inbox # <<>> /\ Head(inbox) = RoomEvent(type, p)
        /\ inbox' = Tail(inbox) /\ UNCHANGED <<there, came, on, inRoom, leaving, shown, dismissed>>
    BY DEF Takes, livekitVars
  <1>2. /\ inbox \in Seq(AnyCameraEvent) /\ inbox' \in Seq(AnyCameraEvent)
        /\ IsTail(inbox, inbox') /\ inbox[1].type = type /\ inbox[1].who = p
        /\ inbox[1] = RoomEvent(type, p)
    <2>1. inbox \in Seq(AnyCameraEvent)
      BY DEF CameraInv, CameraTypes
    <2> QED BY <1>1, <2>1, TailOf, EventTypes
  <1>3. SUFFICES ASSUME inRoom PROVE
              /\ EventsInOrder(inbox', came, there, on)
              /\ \A x : NoNewsOf(inbox, x) <=> x # p /\ NoNewsOf(inbox', x)
              /\ \A x : Unheard(inbox', came, x) => Unheard(inbox, came, x)
              /\ type = "subscribed" => Unheard(inbox, came, p)
              /\ type # "connected" => ~Unheard(inbox', came, p)
              /\ Entering(inbox', known \cup {p}, there)
              /\ type # "connected" => Entering(inbox', known, there) /\ p \in known
              /\ type = "disconnected" =>
                   /\ p \notin there /\ NoNewsOf(inbox', p)
                   /\ Entering(inbox', known \ {p}, there)
              /\ NoNewsOf(inbox', p) =>
                   /\ type \notin {"connected", "unsubscribed"}
                   /\ type = "unmuted" => p \in on
                   /\ type = "muted" => p \notin on
    BY <1>1, <1>2
  <1>4. EventsInOrder(inbox, came, there, on) /\ Entering(inbox, known, there)
    BY <1>3 DEF CameraInv, CamerasFollowed, NewsFollow
  <1> DEFINE q == inbox
             r == inbox'
  <1>5. IsTail(q, r) /\ q[1].type = type /\ q[1].who = p /\ q[1] = RoomEvent(type, p)
    BY <1>2
  <1>6. EventsInOrder(q, came, there, on) /\ Entering(q, known, there)
    BY <1>4
  <1> HIDE DEF q, r
  <1>7. /\ EventsInOrder(r, came, there, on)
        /\ \A x : NoNewsOf(q, x) <=> q[1].who # x /\ NoNewsOf(r, x)
        /\ \A e : Has(r, e) => Has(q, e)
        /\ EventInOrder(q, 1, came, there, on)
        /\ NoNewsOf(r, q[1].who) => IsLast(q, 1)
        /\ q[1].type = "disconnected" => NoNewsOf(r, q[1].who)
        /\ q[1].type # "connected" => ~Unheard(r, came, q[1].who)
    BY <1>5, <1>6, TailNews
  <1>8. /\ Entering(r, known \cup {q[1].who}, there)
        /\ q[1].type # "connected" => Entering(r, known, there) /\ q[1].who \in known
        /\ q[1].type # "connected" /\ q[1].who \notin there /\ NoNewsOf(r, q[1].who)
              => Entering(r, known \ {q[1].who}, there)
    BY <1>5, <1>6, TailEntering
  <1>9. type = "subscribed" => Unheard(q, came, p)
    BY <1>5 DEF Unheard, Has, IsTail
  <1>10. \A x : Unheard(r, came, x) => Unheard(q, came, x)
    BY <1>7 DEF Unheard
  <1>11. /\ type = "disconnected" => p \notin there
         /\ IsLast(q, 1) => /\ type \notin {"connected", "unsubscribed"}
                            /\ type = "unmuted" => p \in on
                            /\ type = "muted" => p \notin on
    BY <1>5, <1>7 DEF EventInOrder
  <1>12. type = "disconnected" => type # "connected"
    OBVIOUS
  <1> QED BY <1>5, <1>7, <1>8, <1>9, <1>10, <1>11, <1>12 DEF q, r

\* Steps that leave the streams alone.
LEMMA NoStreamStep ==
  ASSUME CameraTypes, StreamsFollow, UNCHANGED <<pictures, stopper>>, NEW p \in Others,
         \A x \in Others : x # p =>
             /\ starting = x <=> starting' = x
             /\ x \in on' <=> x \in on
             /\ x \in flags' => x \in flags
             /\ NoNewsOf(inbox', x) => NoNewsOf(inbox, x)
             /\ Unheard(inbox', came', x) => Unheard(inbox, came, x),
         NoNewsOf(inbox', p) => Heard(p)',
         Unheard(inbox', came', p) => Unheard(inbox, came, p) /\ starting' # p,
         p \in flags' => p \in flags,
         CameraTypes'
  PROVE  StreamsFollow'
  <1>1. ButOf(p)
    BY DEF ButOf, Streaming, Live
  <1> QED BY <1>1, StreamsKeep DEF StreamsFollow, Streaming, Live

LEMMA CameraHeard ==
  ASSUME CameraInv, NEW p \in Others, Arrives(p) \/ CameraSubscribed(p) \/ CameraUnmuted(p)
  PROVE  CameraInv'
  <1>1. PICK type \in {"connected", "subscribed", "unmuted"}, opens \in BOOLEAN :
          /\ Takes(type, p)
          /\ UNCHANGED <<flags, pictures, stopper, misread>>
          /\ IF type = "unmuted" THEN known' = known ELSE known' = known \cup {p}
          /\ IF opens THEN uiQueue' = Append(uiQueue, "open") /\ starting' = p
                      ELSE UNCHANGED <<uiQueue, starting>>
          /\ type = "connected" => ~opens
          /\ type = "subscribed" => (opens <=> p \in on)
          /\ type = "unmuted" => (opens \/ p \notin there)
    <2>1. CASE Arrives(p)
      BY <2>1 DEF Arrives, streamVars
    <2>2. CASE CameraSubscribed(p)
      BY <2>2 DEF CameraSubscribed, streamVars, Entered, Opened, HasPictures
    <2>3. CASE CameraUnmuted(p)
      BY <2>3 DEF CameraUnmuted, streamVars, Opened
    <2> QED BY <2>1, <2>2, <2>3
  <1>2. type \in CameraNews /\ type # "disconnected"
    BY DEF CameraNews
  <1>3. /\ inbox' \in Seq(AnyCameraEvent) /\ starting = Nobody
        /\ UNCHANGED <<there, came, on, inRoom, leaving, shown, dismissed>>
    BY <1>1, <1>2, TakenNews
  <1>4. Nobody # p /\ CameraTypes
    BY CameraAssumption DEF CameraInv
  <1>5. /\ Append(uiQueue, "open") \in Seq(AnyUserEvent)
        /\ \A s : WillShow(Append(uiQueue, "open"), s)
    <2>1. uiQueue \in Seq(AnyUserEvent) /\ "open" \in AnyUserEvent
      BY <1>4 DEF CameraTypes, AnyUserEvent
    <2> QED BY <2>1, OpensLater
  <1>6. CameraTypes'
    <2>1. /\ there \subseteq came /\ came \subseteq Others /\ on \subseteq there
          /\ starting \in Others \cup {Nobody} /\ inRoom \in BOOLEAN /\ known \subseteq Others
          /\ pictures \in Seq(AnyStream) /\ stopper \in [Others -> 0..Len(pictures)]
          /\ uiQueue \in Seq(AnyUserEvent)
      BY <1>4 DEF CameraTypes
    <2>2. starting' \in Others \cup {Nobody} /\ known' \subseteq Others
      BY <1>1, <2>1
    <2>3. uiQueue' \in Seq(AnyUserEvent)
      BY <1>1, <1>5, <2>1
    <2> QED BY <1>1, <1>3, <2>1, <2>2, <2>3 DEF CameraTypes
  <1>7. SUFFICES ASSUME inRoom' PROVE CamerasFollowed'
    BY <1>6 DEF CameraInv
  <1>8. inRoom /\ CamerasFollowed
    BY <1>3, <1>7 DEF CameraInv
  <1>9. /\ EventsInOrder(inbox', came, there, on)
        /\ \A x : NoNewsOf(inbox, x) <=> x # p /\ NoNewsOf(inbox', x)
        /\ \A x : Unheard(inbox', came, x) => Unheard(inbox, came, x)
        /\ type = "subscribed" => Unheard(inbox, came, p)
        /\ type # "connected" => ~Unheard(inbox', came, p)
        /\ Entering(inbox', known \cup {p}, there)
        /\ type # "connected" => Entering(inbox', known, there) /\ p \in known
        /\ NoNewsOf(inbox', p) => type # "connected" /\ (type = "unmuted" => p \in on)
    BY <1>1, <1>2, <1>8, TakenNews
  <1>a. NoNewsOf(inbox', p) => (opens <=> p \in on)
    <2>1. on \subseteq there
      BY <1>4 DEF CameraTypes
    <2> QED BY <1>1, <1>9, <2>1
  <1>10. NewsFollow'
    BY <1>1, <1>3, <1>9 DEF NewsFollow
  <1>11. StartsKnown'
    BY <1>1, <1>3, <1>4, <1>9 DEF StartsKnown
  <1>12. StreamsFollow'
    <2>1. ASSUME NEW x \in Others, x # p
          PROVE  /\ starting = x <=> starting' = x
                 /\ x \in on' <=> x \in on
                 /\ x \in flags' => x \in flags
                 /\ NoNewsOf(inbox', x) => NoNewsOf(inbox, x)
                 /\ Unheard(inbox', came', x) => Unheard(inbox, came, x)
      BY <1>1, <1>3, <1>9, <2>1, CameraAssumption
    <2>2. ASSUME NoNewsOf(inbox', p) PROVE Heard(p)'
      <3>1. CASE opens
        BY <1>1, <1>3, <1>a, <2>2, <3>1 DEF Heard
      <3>2. CASE ~opens
        <4>0. type = "subscribed" /\ p \notin on
          BY <1>1, <1>9, <1>a, <2>2, <3>2
        <4>1. stopper[p] = 0
          BY <1>8, <1>9, <4>0 DEF CamerasFollowed, StreamsFollow
        <4>2. stopper'[p] = 0 /\ p \notin on' /\ starting' # p
          BY <1>1, <1>3, <1>4, <3>2, <4>0, <4>1
        <4> QED BY <4>2 DEF Heard, Streams
      <3> QED BY <3>1, <3>2
    <2>3. Unheard(inbox', came', p) => Unheard(inbox, came, p) /\ starting' # p
      BY <1>1, <1>3, <1>4, <1>9
    <2>4. StreamsFollow
      BY <1>8 DEF CamerasFollowed
    <2> QED BY <1>1, <1>4, <1>6, <2>1, <2>2, <2>3, <2>4, NoStreamStep
  <1>13. WindowFollows'
    <2> SUFFICES ASSUME ~misread', ~leaving', NEW x \in on', NoNewsOf(inbox', x)
                 PROVE  WillShow(uiQueue', AsOpened')
      BY DEF WindowFollows
    <2>1. CASE opens
      BY <1>1, <1>5, <2>1
    <2>2. CASE ~opens
      <3>1. x # p /\ x \in on
        BY <1>3, <1>a, <2>2
      <3>2. NoNewsOf(inbox, x)
        BY <1>9, <3>1
      <3> QED BY <1>1, <1>3, <1>8, <2>2, <3>1, <3>2 DEF CamerasFollowed, WindowFollows, AsOpened
    <2> QED BY <2>1, <2>2
  <1> QED BY <1>10, <1>11, <1>12, <1>13 DEF CamerasFollowed

LEMMA CameraGoneKeeps ==
  ASSUME CameraInv, NEW p \in Others,
         CameraGone("muted", p) \/ CameraGone("unsubscribed", p) \/ Departs(p)
  PROVE  CameraInv'
  <1>1. PICK type \in {"muted", "unsubscribed", "disconnected"} :
          /\ Takes(type, p) /\ StopsStream(p) /\ ClosesUnlessActive /\ UNCHANGED starting
          /\ known' = IF type = "disconnected" THEN known \ {p} ELSE known
    <2>1. CASE CameraGone("muted", p)
      BY <2>1 DEF CameraGone
    <2>2. CASE CameraGone("unsubscribed", p)
      BY <2>2 DEF CameraGone
    <2>3. CASE Departs(p)
      BY <2>3 DEF Departs
    <2> QED BY <2>1, <2>2, <2>3
  <1>2. type \in CameraNews /\ type # "connected"
    BY DEF CameraNews
  <1>3. /\ inbox' \in Seq(AnyCameraEvent) /\ starting = Nobody
        /\ UNCHANGED <<there, came, on, inRoom, leaving, shown, dismissed>>
    BY <1>1, <1>2, TakenNews
  <1>4. /\ Nobody \notin Others /\ CameraTypes
        /\ there \subseteq came /\ came \subseteq Others /\ on \subseteq there
        /\ starting \in Others \cup {Nobody} /\ inRoom \in BOOLEAN /\ known \subseteq Others
        /\ pictures \in Seq(AnyStream) /\ stopper \in [Others -> 0..Len(pictures)]
        /\ uiQueue \in Seq(AnyUserEvent)
        /\ DOMAIN pictures = 1..Len(pictures) /\ Len(pictures) \in Nat
    BY CameraAssumption, LenProperties DEF CameraInv, CameraTypes
  <1>5. /\ ToldStream(stopper[p]) \in Seq(AnyStream)
        /\ Len(ToldStream(stopper[p])) = Len(pictures)
        /\ \A j \in 1..Len(pictures) :
              /\ ToldStream(stopper[p])[j].who = pictures[j].who
              /\ ToldStream(stopper[p])[j].state = "running"
                   <=> j # stopper[p] /\ pictures[j].state = "running"
              /\ ToldStream(stopper[p])[j].state = "ended" <=> pictures[j].state = "ended"
    BY <1>4, ToldStreams
  <1>6. CameraTypes'
    <2>1. pictures' \in Seq(AnyStream) /\ Len(pictures') = Len(pictures)
      BY <1>1, <1>4, <1>5 DEF StopsStream, streamVars
    <2>2. stopper' \in [Others -> 0..Len(pictures)]
      BY <1>1, <1>4 DEF StopsStream, streamVars
    <2>3. uiQueue' \in Seq(AnyUserEvent)
      <3>1. "close" \in AnyUserEvent
        BY DEF AnyUserEvent
      <3>2. Append(uiQueue, "close") \in Seq(AnyUserEvent)
        BY <1>4, <3>1, OpensLater
      <3> QED BY <1>1, <1>4, <3>2 DEF ClosesUnlessActive
    <2>4. known' \subseteq Others
      BY <1>1, <1>4
    <2> QED BY <1>1, <1>3, <1>4, <2>1, <2>2, <2>3, <2>4 DEF CameraTypes
  <1>7. SUFFICES ASSUME inRoom' PROVE CamerasFollowed'
    BY <1>6 DEF CameraInv
  <1>8. inRoom /\ NewsFollow /\ StreamsFollow /\ WindowFollows
    BY <1>3, <1>7 DEF CameraInv, CamerasFollowed
  <1>9. /\ EventsInOrder(inbox', came, there, on)
        /\ \A x : NoNewsOf(inbox, x) <=> x # p /\ NoNewsOf(inbox', x)
        /\ \A x : Unheard(inbox', came, x) => Unheard(inbox, came, x)
        /\ ~Unheard(inbox', came, p)
        /\ Entering(inbox', known, there) /\ p \in known
        /\ type = "disconnected" => p \notin there /\ Entering(inbox', known \ {p}, there)
        /\ NoNewsOf(inbox', p) => type # "unsubscribed" /\ (type = "muted" => p \notin on)
    BY <1>1, <1>2, <1>8, TakenNews
  <1>10. NewsFollow' /\ StartsKnown'
    BY <1>1, <1>3, <1>9 DEF NewsFollow, StartsKnown
  <1>11. NoNewsOf(inbox', p) => p \notin on
    BY <1>4, <1>9
  <1>12. /\ flags' = flags \ {p} /\ pictures' = ToldStream(stopper[p])
         /\ stopper' = [stopper EXCEPT ![p] = 0]
    BY <1>1, <1>9 DEF StopsStream
  <1>13. StreamsFollow'
    <2>1. DOMAIN pictures' = DOMAIN pictures
      BY <1>4, <1>5, <1>12, LenProperties
    <2>2. /\ stopper'[p] = 0 /\ \A x \in Others : x # p => stopper'[x] = stopper[x]
          /\ stopper[p] # 0 => pictures[stopper[p]].who = p
      BY <1>4, <1>8, <1>12 DEF StreamsFollow
    <2>3. ASSUME NEW i \in DOMAIN pictures
          PROVE  /\ pictures'[i].who = pictures[i].who
                 /\ Streaming(i)' <=> i # stopper[p] /\ Streaming(i)
                 /\ Live(i)' <=> Live(i)
      BY <1>4, <1>5, <1>12 DEF Streaming, Live
    <2>4. ButOf(p)
      <3>1. ASSUME NEW i \in DOMAIN pictures, pictures[i].who # p
            PROVE  i # stopper[p]
        BY <1>4, <2>2, <3>1
      <3>2. ASSUME NEW x \in Others, x # p
            PROVE  /\ stopper'[x] = stopper[x]
                   /\ starting = x <=> starting' = x
                   /\ x \in on' <=> x \in on
                   /\ x \in flags' => x \in flags
                   /\ NoNewsOf(inbox', x) => NoNewsOf(inbox, x)
                   /\ Unheard(inbox', came', x) => Unheard(inbox, came, x)
        BY <1>1, <1>3, <1>9, <1>12, <2>2, <3>2
      <3> QED BY <2>1, <2>3, <3>1, <3>2 DEF ButOf
    <2>5. \A i \in DOMAIN pictures' : ~(Streaming(i)' /\ pictures'[i].who = p)
      BY <1>8, <2>1, <2>3 DEF StreamsFollow
    <2>6. NoNewsOf(inbox', p) => Heard(p)'
      BY <1>1, <1>3, <1>4, <1>11, <2>2 DEF Heard, Streams
    <2> QED BY <1>4, <1>6, <1>8, <1>9, <1>3, <1>12, <2>2, <2>4, <2>5, <2>6, StreamsKeep
  <1>14. WindowFollows'
    <2> SUFFICES ASSUME ~misread', ~leaving', NEW x \in on', NoNewsOf(inbox', x)
                 PROVE  WillShow(uiQueue', AsOpened')
      BY DEF WindowFollows
    <2>1. x # p /\ x \in on /\ NoNewsOf(inbox, x)
      BY <1>3, <1>9, <1>11
    <2>2. uiQueue' = uiQueue /\ ~misread
      BY <1>1, <2>1 DEF ClosesUnlessActive
    <2> QED BY <1>3, <1>8, <2>1, <2>2 DEF WindowFollows, AsOpened
  <1> QED BY <1>10, <1>13, <1>14 DEF CamerasFollowed

\* A step that leaves room events, the map and the window's queue.
LEMMA RestKeeps ==
  ASSUME CameraInv, CameraTypes',
         UNCHANGED <<there, came, on, inbox, inRoom, leaving, known, uiQueue, shown, misread,
                   dismissed>>,
         inRoom /\ CamerasFollowed => StreamsFollow' /\ StartsKnown'
  PROVE  CameraInv'
  BY DEF CameraInv, CamerasFollowed, NewsFollow, WindowFollows, AsOpened

LEMMA StartsStreamKeeps ==
  ASSUME CameraInv, StartsStream
  PROVE  CameraInv'
  <1>0. /\ starting # Nobody /\ starting \in Others \cup {Nobody}
        /\ pictures \in Seq(AnyStream) /\ Len(pictures) \in Nat
    BY LenProperties DEF StartsStream, CameraInv, CameraTypes
  <1> PICK p \in Others : p = starting
    BY <1>0
  <1> PICK n \in Nat : n = Len(pictures)
    BY <1>0
  <1> DEFINE told == ToldStream(stopper[p])
             fresh == [who |-> p, state |-> "running"]
  <1>1. /\ starting = p /\ starting' = Nobody
        /\ UNCHANGED <<there, came, on, inbox, inRoom, leaving, known, flags,
                       uiQueue, shown, misread, dismissed>>
        /\ p \in known => /\ pictures' = Append(told, fresh)
                          /\ stopper' = [stopper EXCEPT ![p] = n + 1]
        /\ p \notin known => UNCHANGED <<pictures, stopper>>
    BY DEF StartsStream, livekitVars, windowVars, streamVars, Replaced, StopperFor
  <1>2. /\ Nobody \notin Others /\ CameraTypes
        /\ there \subseteq came /\ came \subseteq Others /\ on \subseteq there
        /\ inbox \in Seq(AnyCameraEvent) /\ inRoom \in BOOLEAN /\ known \subseteq Others
        /\ pictures \in Seq(AnyStream) /\ stopper \in [Others -> 0..n]
        /\ uiQueue \in Seq(AnyUserEvent)
        /\ DOMAIN pictures = 1..n
    BY <1>1, CameraAssumption, LenProperties DEF CameraInv, CameraTypes
  <1>3. /\ told \in Seq(AnyStream) /\ Len(told) = n
        /\ \A j \in 1..n :
              /\ told[j].who = pictures[j].who
              /\ told[j].state = "running" <=> j # stopper[p] /\ pictures[j].state = "running"
              /\ told[j].state = "ended" <=> pictures[j].state = "ended"
    BY <1>2, ToldStreams
  <1>4. fresh \in AnyStream /\ fresh.who = p /\ fresh.state = "running"
    BY <1>2 DEF AnyStream
  <1> HIDE DEF told, fresh
  <1>5. /\ Append(told, fresh) \in Seq(AnyStream) /\ Len(Append(told, fresh)) = n + 1
        /\ Append(told, fresh)[n + 1] = fresh
        /\ \A i \in 1..n : Append(told, fresh)[i] = told[i]
    BY <1>3, <1>4, AppendOne
  <1>6. CameraTypes'
    <2>1. CASE p \in known
      <3>1. stopper' \in [Others -> 0..(n + 1)]
        BY <1>1, <1>2, <2>1, SMTT(30)
      <3> QED BY <1>1, <1>2, <1>5, <2>1, <3>1 DEF CameraTypes
    <2>2. CASE p \notin known
      BY <1>1, <1>2, <2>2 DEF CameraTypes
    <2> QED BY <2>1, <2>2
  <1>7. ASSUME inRoom, CamerasFollowed PROVE StreamsFollow'
    <2>1. p \in known /\ StreamsFollow
      BY <1>1, <1>2, <1>7 DEF CamerasFollowed, StartsKnown
    <2>2. /\ DOMAIN pictures' = 1..(n + 1) /\ n + 1 \in DOMAIN pictures'
          /\ \A i \in DOMAIN pictures' : i \in DOMAIN pictures \/ i = n + 1
          /\ n + 1 \notin DOMAIN pictures
      BY <1>1, <1>2, <1>5, <2>1, LenProperties
    <2>3. /\ stopper'[p] = n + 1 /\ \A x \in Others : x # p => stopper'[x] = stopper[x]
          /\ stopper[p] # 0 => pictures[stopper[p]].who = p
      BY <1>1, <1>2, <2>1 DEF StreamsFollow
    <2>4. ASSUME NEW i \in DOMAIN pictures
          PROVE  /\ pictures'[i].who = pictures[i].who
                 /\ Streaming(i)' <=> i # stopper[p] /\ Streaming(i)
                 /\ Live(i)' <=> Live(i)
      <3>1. i \in 1..n /\ pictures'[i] = told[i]
        BY <1>1, <1>2, <1>5, <2>1
      <3> QED BY <1>3, <3>1 DEF Streaming, Live
    <2>5. pictures'[n + 1].who = p /\ Streaming(n + 1)' /\ Live(n + 1)'
      BY <1>1, <1>4, <1>5, <2>1 DEF Streaming, Live
    <2>6. ButOf(p)
      <3>1. ASSUME NEW i \in DOMAIN pictures, pictures[i].who # p
            PROVE  i # stopper[p]
        BY <1>2, <2>3, <3>1
      <3>2. ASSUME NEW x \in Others, x # p
            PROVE  /\ stopper'[x] = stopper[x]
                   /\ starting = x <=> starting' = x
                   /\ x \in on' <=> x \in on
                   /\ x \in flags' => x \in flags
                   /\ NoNewsOf(inbox', x) => NoNewsOf(inbox, x)
                   /\ Unheard(inbox', came', x) => Unheard(inbox, came, x)
        BY <1>1, <1>2, <2>3, <3>2
      <3>3. DOMAIN pictures \subseteq DOMAIN pictures'
        BY <1>2, <2>2
      <3> QED BY <2>2, <2>4, <2>5, <3>1, <3>2, <3>3 DEF ButOf
    <2>7. \A i \in DOMAIN pictures' : Streaming(i)' /\ pictures'[i].who = p => stopper'[p] = i
      <3>1. ASSUME NEW i \in DOMAIN pictures PROVE ~(Streaming(i)' /\ pictures'[i].who = p)
        BY <2>1, <2>4 DEF StreamsFollow
      <3> QED BY <2>2, <2>3, <3>1
    <2>8. NoNewsOf(inbox', p) => Heard(p)'
      <3>1. NoNewsOf(inbox', p) => p \in on'
        BY <1>1, <1>2, <2>1 DEF StreamsFollow, Heard
      <3> QED BY <1>1, <1>2, <2>3, <2>5, <3>1 DEF Heard, Streams
    <2>9. ~Unheard(inbox', came', p)
      BY <1>1, <1>2, <2>1 DEF StreamsFollow
    <2>10. p \in flags' => \E i \in DOMAIN pictures' : pictures'[i].who = p /\ Live(i)'
      BY <2>2, <2>5
    <2>11. stopper'[p] # 0 => pictures'[stopper'[p]].who = p
      BY <2>3, <2>5
    <2> QED BY <1>2, <1>6, <2>1, <2>6, <2>7, <2>8, <2>9, <2>10, <2>11, StreamsKeep
  <1>8. StartsKnown'
    BY <1>1 DEF StartsKnown
  <1> QED BY <1>1, <1>6, <1>7, <1>8, RestKeeps

--------------------------------------------------------------------------------
(* process_video_stream, and the event loop. *)

LEMMA PictureKeeps ==
  ASSUME CameraInv, NEW i \in 1..Len(pictures), Picture(i) \/ Stall(i) \/ Ends(i)
  PROVE  CameraInv'
  <1>1. /\ Live(i)
        /\ UNCHANGED <<there, came, on, inbox, starting, inRoom, leaving, known, stopper, uiQueue,
                       shown, misread, dismissed>>
        /\ flags' \in {flags \cup {pictures[i].who}, flags \ {pictures[i].who}}
        /\ \/ UNCHANGED pictures
           \/ /\ ~Streaming(i) \/ pictures[i].who \notin there
              /\ pictures' = [pictures EXCEPT ![i].state = "ended"]
              /\ flags' = flags \ {pictures[i].who}
    BY DEF Picture, Stall, Ends, StreamStep, livekitVars, taskVars, windowVars
  <1>2. /\ CameraTypes /\ pictures \in Seq(AnyStream) /\ pictures[i] \in AnyStream
        /\ DOMAIN pictures = 1..Len(pictures) /\ on \subseteq there
        /\ stopper \in [Others -> 0..Len(pictures)]
    <2>1. CameraTypes /\ pictures \in Seq(AnyStream) /\ on \subseteq there
          /\ stopper \in [Others -> 0..Len(pictures)]
      BY DEF CameraInv, CameraTypes
    <2> QED BY <2>1, LenProperties, ElementOfSeq
  <1> PICK p \in Others : p = pictures[i].who
    BY <1>2 DEF AnyStream
  <1>3. /\ pictures' \in Seq(AnyStream) /\ Len(pictures') = Len(pictures)
        /\ DOMAIN pictures' = DOMAIN pictures
        /\ \A j \in DOMAIN pictures :
             /\ pictures'[j].who = pictures[j].who
             /\ j # i => pictures'[j] = pictures[j]
             /\ Streaming(j)' => Streaming(j)
             /\ Streaming(j) /\ p \in there => Streaming(j)'
    <2>1. CASE UNCHANGED pictures
      BY <1>2, <2>1 DEF Streaming
    <2>2. CASE ~UNCHANGED pictures
      <3> DEFINE e == [pictures[i] EXCEPT !.state = "ended"]
      <3>1. e \in AnyStream /\ e.who = p /\ e.state = "ended"
        BY <1>2 DEF AnyStream
      <3>2. pictures' = [pictures EXCEPT ![i] = e] /\ (~Streaming(i) \/ p \notin there)
        BY <1>1, <2>2
      <3> HIDE DEF e
      <3>3. pictures' \in Seq(AnyStream) /\ Len(pictures') = Len(pictures)
        BY <1>2, <3>1, <3>2, ExceptSeq
      <3>4. DOMAIN pictures' = DOMAIN pictures
        BY <1>2, <3>3, LenProperties
      <3>5. /\ pictures'[i] = e
            /\ \A j \in DOMAIN pictures : j # i => pictures'[j] = pictures[j]
        BY <1>2, <3>2
      <3> QED BY <3>1, <3>2, <3>3, <3>4, <3>5 DEF Streaming
    <2> QED BY <2>1, <2>2
  <1>4. CameraTypes'
    BY <1>1, <1>2, <1>3 DEF CameraTypes
  <1>5. ASSUME inRoom, CamerasFollowed PROVE StreamsFollow'
    <2>1. StreamsFollow /\ NewsFollow
      BY <1>5 DEF CamerasFollowed
    <2>2. \A x \in Others : stopper[x] # 0 => stopper[x] \in DOMAIN pictures
      BY <1>2
    <2>3. ASSUME NEW j \in DOMAIN pictures, pictures[j].who # p
          PROVE  /\ Streaming(j)' <=> Streaming(j)
                 /\ Live(j)' <=> Live(j)
      BY <1>3, <2>3 DEF Streaming, Live
    <2>4. ButOf(p)
      BY <1>1, <1>3, <2>3 DEF ButOf
    <2>5. ASSUME NoNewsOf(inbox', p) PROVE Heard(p)'
      <3>1. CASE p \in there
        <4>1. Streams(p)' <=> Streams(p)
          BY <1>1, <1>3, <2>2, <3>1 DEF Streams
        <4> QED BY <1>1, <2>1, <2>5, <4>1 DEF StreamsFollow, Heard
      <3>2. CASE p \notin there
        <4>1. p \notin on /\ starting # p /\ ~Streams(p)
          BY <1>1, <1>2, <2>1, <2>5, <3>2 DEF StreamsFollow, Heard
        <4>2. ~Streams(p)'
          BY <1>1, <1>3, <2>2, <4>1 DEF Streams
        <4> QED BY <1>1, <4>1, <4>2 DEF Heard
      <3> QED BY <3>1, <3>2
    <2>6. p \in flags' => \E j \in DOMAIN pictures' : pictures'[j].who = p /\ Live(j)'
      <3>1. CASE UNCHANGED pictures
        <4>1. Live(i)'
          BY <1>1, <3>1 DEF Live
        <4> QED BY <1>2, <3>1, <4>1
      <3>2. CASE ~UNCHANGED pictures
        BY <1>1, <3>2
      <3> QED BY <3>1, <3>2
    <2>7. \A j \in DOMAIN pictures' : Streaming(j)' /\ pictures'[j].who = p => stopper'[p] = j
      BY <1>1, <1>3, <2>1 DEF StreamsFollow
    <2>8. stopper'[p] # 0 => pictures'[stopper'[p]].who = p
      BY <1>1, <1>3, <2>1, <2>2 DEF StreamsFollow
    <2>9. Unheard(inbox', came', p) => stopper'[p] = 0 /\ starting' # p
      BY <1>1, <2>1 DEF StreamsFollow
    <2> QED BY <1>2, <1>4, <2>1, <2>4, <2>5, <2>6, <2>7, <2>8, <2>9, StreamsKeep
  <1>6. CamerasFollowed => StartsKnown'
    BY <1>1 DEF CamerasFollowed, StartsKnown
  <1> QED BY <1>1, <1>4, <1>5, <1>6, RestKeeps

\* Steps that touch neither the streams nor what is heard of the others.
LEMMA LoopKeeps ==
  ASSUME CameraInv,
         UNCHANGED <<there, came, on, inbox, starting, inRoom, known, pictures, stopper>>,
         \A x \in Others : x \in flags' => x \in flags,
         uiQueue' \in Seq(AnyUserEvent),
         inRoom /\ ~leaving' /\ ~misread' /\ on # {} =>
             /\ ~leaving
             /\ misread \/ WillShow(uiQueue, AsOpened) => WillShow(uiQueue', AsOpened')
  PROVE  CameraInv'
  <1>1. CameraTypes'
    BY DEF CameraInv, CameraTypes
  <1>2. SUFFICES ASSUME inRoom PROVE CamerasFollowed'
    BY <1>1 DEF CameraInv
  <1>3. CamerasFollowed
    BY <1>2 DEF CameraInv
  <1>4. StartsKnown' /\ NewsFollow'
    BY <1>3 DEF CamerasFollowed, StartsKnown, NewsFollow
  <1>5. StreamsFollow'
    BY <1>3 DEF CamerasFollowed, StreamsFollow, Heard, Streams, Streaming, Live
  <1>6. WindowFollows'
    BY <1>2, <1>3 DEF CamerasFollowed, WindowFollows
  <1> QED BY <1>4, <1>5, <1>6 DEF CamerasFollowed

LEMMA OwnCameraKeeps ==
  ASSUME CameraInv, NEW k \in 1..Len(own), OwnPicture(k) \/ OwnStops(k) \/ OwnFails(k)
  PROVE  CameraInv'
  <1>1. /\ UNCHANGED <<there, came, on, inbox, starting, inRoom, leaving, known, pictures, stopper,
                       uiQueue, shown, misread, dismissed>>
        /\ flags' \in {flags, flags \cup {Local}, flags \ {Local}}
    BY DEF OwnPicture, OwnStops, OwnFails, ThreadStep, livekitVars, taskVars, streamVars, windowVars
  <1>2. \A x \in Others : x \in flags' => x \in flags
    BY <1>1, CameraAssumption
  <1>3. uiQueue' \in Seq(AnyUserEvent)
    BY <1>1 DEF CameraInv, CameraTypes
  <1> QED BY <1>1, <1>2, <1>3, LoopKeeps DEF AsOpened

LEMMA UserKeeps ==
  ASSUME CameraInv, NEW type \in {"open", "start", "stop", "end"}, User(type)
  PROVE  CameraInv'
  <1>1. /\ UNCHANGED <<there, came, on, inbox, starting, inRoom, leaving, known, pictures, stopper,
                       flags, shown, misread, dismissed>>
        /\ uiQueue' = Append(uiQueue, type)
    BY DEF User, livekitVars, taskVars, streamVars
  <1>2. uiQueue \in Seq(AnyUserEvent) /\ type \in AnyUserEvent /\ type # "close"
    BY DEF CameraInv, CameraTypes, AnyUserEvent
  <1>3. /\ uiQueue' \in Seq(AnyUserEvent)
        /\ WillShow(uiQueue, AsOpened) => WillShow(uiQueue', AsOpened)
    BY <1>1, <1>2, OpensLater
  <1> QED BY <1>1, <1>3, LoopKeeps DEF AsOpened

LEMMA EventLoopKeeps ==
  ASSUME CameraInv, CameraEvents
  PROVE  CameraInv'
  <1>1. CASE CloseRequested
    <2>1. /\ UNCHANGED <<there, came, on, inbox, starting, inRoom, leaving, known, pictures, stopper,
                         flags, uiQueue, misread>>
          /\ shown = "shown" /\ dismissed' = TRUE
      BY <1>1 DEF CloseRequested, livekitVars, taskVars, streamVars
    <2>2. uiQueue' \in Seq(AnyUserEvent)
      BY <2>1 DEF CameraInv, CameraTypes
    <2> QED BY <2>1, <2>2, LoopKeeps DEF AsOpened
  <1>2. CASE ~CloseRequested
    <2>1. PICK type \in AnyUserEvent :
            /\ HandlesCamera(type)
            /\ flags' \in {flags, flags \cup {Local}, flags \ {Local}}
            /\ type = "open" \/ (type = "start" /\ inRoom) => OpenCameraWindow
            /\ type = "close" => UNCHANGED misread
            /\ type = "stop" => /\ misread' = (misread \/ (~(flags' \cap known # {}) /\ on # {}))
                                /\ flags' \cap known # {} => UNCHANGED <<shown, dismissed>>
      <3>1. CASE OpenCamera
        BY <3>1 DEF OpenCamera, AnyUserEvent
      <3>2. CASE CloseCameraWindow
        BY <3>2 DEF CloseCameraWindow, AnyUserEvent
      <3>3. CASE StartCamera
        BY <3>3 DEF StartCamera, AnyUserEvent
      <3>4. CASE StopCamera
        BY <3>4 DEF StopCamera, AnyUserEvent
      <3>5. CASE CallEndsCamera
        BY <3>5 DEF CallEndsCamera, AnyUserEvent
      <3> QED BY <1>2, <3>1, <3>2, <3>3, <3>4, <3>5 DEF CameraEvents
    <2>2. /\ UNCHANGED <<there, came, on, inbox, starting, inRoom, known, pictures, stopper>>
          /\ uiQueue # <<>> /\ Head(uiQueue) = type /\ uiQueue' = Tail(uiQueue)
          /\ leaving' = (leaving \/ type = "end")
      BY <2>1 DEF HandlesCamera, livekitVars, taskVars, streamVars
    <2>3. uiQueue \in Seq(AnyUserEvent) /\ uiQueue' \in Seq(AnyUserEvent)
      BY <2>2, HeadTail DEF CameraInv, CameraTypes
    <2>4. \A x \in Others : x \in flags' => x \in flags
      BY <2>1, CameraAssumption
    <2>5. ASSUME inRoom, ~leaving', ~misread', on # {}
          PROVE  /\ ~leaving
                 /\ misread \/ WillShow(uiQueue, AsOpened) => WillShow(uiQueue', AsOpened')
      <3>1. ~leaving /\ type \in {"open", "close", "start", "stop"}
        BY <2>2, <2>5 DEF AnyUserEvent
      <3>2. CASE type \in {"open", "start"}
        <4>1. /\ AsOpened' = "shown"
              /\ ~misread \/ \A j \in 1..Len(uiQueue') : uiQueue'[j] # "close"
          BY <2>1, <2>5, <3>2 DEF OpenCameraWindow, AsOpened
        <4>2. CASE misread
          <5>1. DOMAIN uiQueue' = 1..Len(uiQueue')
            BY <2>3, LenProperties
          <5> QED BY <3>1, <4>1, <4>2, <5>1 DEF WillShow
        <4>3. CASE ~misread
          BY <2>2, <2>3, <3>1, <4>1, <4>3, OpensStill
        <4> QED BY <4>2, <4>3
      <3>3. CASE type = "close"
        <4>1. ~misread
          BY <2>1, <2>5, <3>3
        <4> QED BY <2>2, <2>3, <3>1, <3>3, <4>1, OpensStill
      <3>4. CASE type = "stop"
        <4>1. misread' = (misread \/ (~(flags' \cap known # {}) /\ on # {}))
          BY <2>1, <3>4
        <4>2. ~misread /\ flags' \cap known # {}
          BY <2>5, <4>1, Zenon
        <4>3. AsOpened' = AsOpened
          BY <2>1, <3>4, <4>2 DEF AsOpened
        <4> QED BY <2>2, <2>3, <3>1, <3>4, <4>2, <4>3, OpensStill
      <3> QED BY <3>1, <3>2, <3>3, <3>4
    <2> QED BY <2>2, <2>3, <2>4, <2>5, LoopKeeps
  <1> QED BY <1>1, <1>2

LEMMA ClearingKeeps ==
  ASSUME CameraInv, ClearsStreams
  PROVE  CameraInv'
  <1> DEFINE n == Len(pictures)
             cleared == [i \in 1..Len(pictures) |->
                           IF \E p \in Others : stopper[p] = i /\ Streaming(i)
                           THEN [pictures[i] EXCEPT !.state = "told"] ELSE pictures[i]]
  <1>1. /\ inRoom' = FALSE /\ known' = {} /\ stopper' = [p \in Others |-> 0]
        /\ pictures' = cleared
        /\ UNCHANGED <<there, came, on, inbox, starting, uiQueue>>
    BY DEF ClearsStreams, livekitVars, taskVars, windowVars
  <1>2. n \in Nat /\ \A i \in 1..n : pictures[i] \in AnyStream
    BY LenProperties, ElementOfSeq DEF CameraInv, CameraTypes
  <1>3. \A i \in 1..n : [pictures[i] EXCEPT !.state = "told"] \in AnyStream
    BY <1>2 DEF AnyStream
  <1>4. cleared \in [1..n -> AnyStream]
    BY <1>2, <1>3
  <1> HIDE DEF cleared
  <1>5. cleared \in Seq(AnyStream) /\ Len(cleared) = n
    BY <1>2, <1>4, SeqDef, LenProperties
  <1>6. stopper' \in [Others -> 0..Len(pictures')]
    BY <1>1, <1>2, <1>5
  <1> QED BY <1>1, <1>5, <1>6 DEF CameraInv, CameraTypes

--------------------------------------------------------------------------------

LEMMA CamerasStart == CameraInit => CameraInv
  <1> SUFFICES ASSUME CameraInit PROVE CameraInv
    OBVIOUS
  <1> USE DEF CameraInit
  <1>1. /\ DOMAIN inbox = {} /\ DOMAIN pictures = {} /\ Len(pictures) = 0
        /\ inbox \in Seq(AnyCameraEvent) /\ pictures \in Seq(AnyStream)
        /\ uiQueue \in Seq(AnyUserEvent)
    OBVIOUS
  <1>2. CameraTypes
    BY <1>1 DEF CameraTypes
  <1>3. StartsKnown /\ NewsFollow
    BY <1>1 DEF StartsKnown, NewsFollow, EventsInOrder, Entering
  <1>4. StreamsFollow
    <2>1. \A p \in Others : stopper[p] = 0 /\ starting # p /\ ~Streams(p)
      BY CameraAssumption DEF Streams
    <2> QED BY <1>1, <2>1 DEF StreamsFollow, Heard
  <1>5. WindowFollows
    BY DEF WindowFollows
  <1> QED BY <1>2, <1>3, <1>4, <1>5 DEF CameraInv, CamerasFollowed

LEMMA CamerasStep == CameraInv /\ [CameraNext]_cameraVars => CameraInv'
  <1> SUFFICES ASSUME CameraInv, [CameraNext]_cameraVars PROVE CameraInv'
    OBVIOUS
  <1>1. ASSUME NEW p \in Others, Appears(p) \/ CameraOn(p) \/ CameraOff(p) \/ Vanishes(p)
        PROVE  CameraInv'
    BY <1>1, OthersKeep
  <1>2. ASSUME NEW p \in Others, Arrives(p) \/ CameraSubscribed(p) \/ CameraUnmuted(p)
        PROVE  CameraInv'
    BY <1>2, CameraHeard
  <1>3. ASSUME NEW p \in Others,
               CameraGone("muted", p) \/ CameraGone("unsubscribed", p) \/ Departs(p)
        PROVE  CameraInv'
    BY <1>3, CameraGoneKeeps
  <1>4. ASSUME StartsStream PROVE CameraInv'
    BY <1>4, StartsStreamKeeps
  <1>5. ASSUME CameraEvents PROVE CameraInv'
    BY <1>5, EventLoopKeeps
  <1>6. ASSUME ClearsStreams PROVE CameraInv'
    BY <1>6, ClearingKeeps
  <1>7. ASSUME NEW i \in 1..Len(pictures), Picture(i) \/ Stall(i) \/ Ends(i) PROVE CameraInv'
    BY <1>7, PictureKeeps
  <1>8. ASSUME NEW k \in 1..Len(own), OwnPicture(k) \/ OwnStops(k) \/ OwnFails(k) PROVE CameraInv'
    BY <1>8, OwnCameraKeeps
  <1>9. ASSUME NEW type \in {"open", "start", "stop", "end"}, User(type) PROVE CameraInv'
    BY <1>9, UserKeeps
  <1>10. CASE UNCHANGED cameraVars
    <2>1. /\ UNCHANGED <<there, came, on, inbox, starting, inRoom, leaving, known, pictures,
                         stopper, flags, uiQueue, shown, misread, dismissed>>
      BY <1>10 DEF cameraVars, livekitVars, taskVars, streamVars, windowVars
    <2>2. uiQueue' \in Seq(AnyUserEvent)
      BY <2>1 DEF CameraInv, CameraTypes
    <2> QED BY <2>1, <2>2, LoopKeeps DEF AsOpened
  <1> QED BY <1>1, <1>2, <1>3, <1>4, <1>5, <1>6, <1>7, <1>8, <1>9, <1>10 DEF CameraNext, RoomEvents

LEMMA CamerasShown == CameraInv => CamerasAreShown
  <1> SUFFICES ASSUME CameraInv, Settled, inRoom PROVE CamerasAreShown
    BY DEF CamerasAreShown
  <1>1. /\ inbox = <<>> /\ starting = Nobody /\ StreamsFollow /\ WindowFollows
        /\ DOMAIN pictures = 1..Len(pictures) /\ Nobody \notin Others
        /\ stopper \in [Others -> 0..Len(pictures)]
    BY LenProperties, CameraAssumption DEF Settled, CameraInv, CameraTypes, CamerasFollowed
  <1>2. \A x : NoNewsOf(inbox, x)
    BY <1>1 DEF NoNewsOf
  <1>3. \A i \in 1..Len(pictures) : Live(i) <=> Streaming(i)
    <2>1. \A i \in 1..Len(pictures) : pictures[i] \in AnyStream /\ pictures[i].state # "told"
      BY ElementOfSeq DEF CameraInv, CameraTypes, Settled
    <2> QED BY <2>1 DEF AnyStream, Live, Streaming
  <1>4. ASSUME NEW p \in Others
        PROVE  /\ Cardinality({i \in 1..Len(pictures) : pictures[i].who = p /\ Live(i)})
                  = (IF p \in on THEN 1 ELSE 0)
               /\ p \in flags => p \in on
    <2> DEFINE its == {i \in 1..Len(pictures) : pictures[i].who = p /\ Live(i)}
    <2>1. /\ p \in on <=> Streams(p)
          /\ stopper[p] # 0 => stopper[p] \in 1..Len(pictures) /\ pictures[stopper[p]].who = p
      BY <1>1, <1>2 DEF StreamsFollow, Heard
    <2>2. \A i \in its : stopper[p] = i /\ i # 0 /\ Streaming(i)
      BY <1>1, <1>3 DEF StreamsFollow
    <2>3. CASE p \in on
      <3>1. its = {stopper[p]}
        BY <1>3, <2>1, <2>2, <2>3 DEF Streams
      <3> QED BY <2>3, <3>1, FS_Singleton
    <2>4. CASE p \notin on
      <3>1. its = {}
        BY <2>1, <2>2, <2>4 DEF Streams
      <3>2. p \notin flags
        BY <1>1, <3>1 DEF StreamsFollow
      <3> QED BY <2>4, <3>1, <3>2, FS_EmptySet
    <2> QED BY <2>3, <2>4
  <1>5. ASSUME ~misread, ~dismissed, uiQueue = <<>>, on # {}, ~leaving PROVE shown = "shown"
    <2>1. WillShow(uiQueue, shown)
      BY <1>1, <1>2, <1>5 DEF WindowFollows, AsOpened
    <2> QED BY <1>5, <2>1 DEF WillShow
  <1> QED BY <1>4, <1>5 DEF CamerasAreShown

\* When the room's events have been handled and the streams that were told to stop have,
\* each camera that is on has exactly one stream, and no other counts as active; and when the
\* windows' events have been too, the window is open if someone else's camera is on: unless
\* since it was last opened its user has closed it, it could not be made, or a flag that was
\* not up to date has closed it.
THEOREM TheCamerasAreShown == RoomSpec => []CamerasAreShown
  <1>1. RoomInit => CameraInv
    BY CamerasStart DEF RoomInit
  <1>2. CameraInv /\ [RoomNext]_allVars => CameraInv'
    <2> SUFFICES ASSUME CameraInv, [RoomNext]_allVars PROVE CameraInv'
      OBVIOUS
    <2>1. [CameraNext]_cameraVars
      BY DEF RoomNext, PeopleNext, OverNext, WatchNext, allVars, peopleVars
    <2> QED BY <2>1, CamerasStep
  <1> QED BY <1>1, <1>2, CamerasShown, PTL DEF RoomSpec

--------------------------------------------------------------------------------
(* The cameras: what is not of the order of events. *)

OwnState == {"running", "told", "ended", "failed"}
Anyone == Others \cup {Local}
WindowTypes ==
    /\ panicked \in BOOLEAN /\ leaving \in BOOLEAN /\ misread \in BOOLEAN
    /\ dismissed \in BOOLEAN /\ flags \subseteq Anyone /\ own \in Seq(OwnState)
    /\ shown \in {"none", "hidden", "shown"} /\ inputs \in 0..MaxInputs
StoppersMatch == \A p \in Others : stopper[p] # 0 => pictures[stopper[p]].who = p

LEMMA WindowTypesStart == CameraInit => WindowTypes /\ StoppersMatch
  <1> SUFFICES ASSUME CameraInit PROVE WindowTypes /\ StoppersMatch
    OBVIOUS
  <1>1. own \in Seq(OwnState) /\ inputs \in 0..MaxInputs
    BY CameraAssumption, EmptySeq DEF CameraInit
  <1> QED BY <1>1 DEF CameraInit, WindowTypes, StoppersMatch

\* Only the own camera's steps and the event loop's touch its threads.
LEMMA OwnThreads ==
  ASSUME CameraNext, own \in Seq(OwnState)
  PROVE  own' \in Seq(OwnState)
  <1>1. /\ Len(own) \in Nat /\ DOMAIN own = 1..Len(own)
        /\ \A k \in 1..Len(own) : own[k] \in OwnState
    BY LenProperties, ElementOfSeq
  <1>2. AllTold \in Seq(OwnState)
    <2>1. \A k \in 1..Len(own) : AllTold[k] \in OwnState
      BY <1>1 DEF AllTold, OwnState
    <2>2. AllTold = [k \in 1..Len(own) |-> AllTold[k]]
      BY DEF AllTold
    <2>3. AllTold \in [1..Len(own) -> OwnState]
      BY <2>1, <2>2
    <2> QED BY <1>1, <2>3, SeqDef
  <1>3. \A q \in Seq(OwnState) : Append(q, "running") \in Seq(OwnState)
    BY AppendProperties DEF OwnState
  <1>4. ASSUME NEW k \in 1..Len(own), OwnPicture(k) \/ OwnStops(k) \/ OwnFails(k)
        PROVE  own' \in Seq(OwnState)
    <2>1. own' = own \/ \E state \in OwnState : own' = [own EXCEPT ![k] = state]
      BY <1>4 DEF OwnPicture, OwnStops, OwnFails, OwnState
    <2> QED BY <2>1, ExceptSeq
  <1>5. CASE CameraEvents
    <2>1. own' = own \/ own' = AllTold \/ own' = Append(AllTold, "running")
      BY <1>5 DEF CameraEvents, OpenCamera, CloseCameraWindow, StartCamera, StopCamera, CallEndsCamera,
             CloseRequested
    <2> QED BY <1>2, <1>3, <2>1
  <1>6. CASE RoomEvents
    BY <1>6 DEF RoomEvents, StartsStream, Arrives, CameraSubscribed, CameraUnmuted, Departs, CameraGone, Takes
  <1>7. ASSUME NEW p \in Others, Appears(p) \/ CameraOn(p) \/ CameraOff(p) \/ Vanishes(p)
        PROVE  own' = own
    BY <1>7 DEF Appears, CameraOn, CameraOff, Vanishes, Elsewhere
  <1>8. ClearsStreams => own' = own
    BY DEF ClearsStreams
  <1>9. ASSUME NEW i \in 1..Len(pictures), Picture(i) \/ Stall(i) \/ Ends(i) PROVE own' = own
    BY <1>9 DEF Picture, Stall, Ends, StreamStep
  <1>10. ASSUME NEW type, User(type) PROVE own' = own
    BY <1>10 DEF User
  <1> QED BY <1>4, <1>5, <1>6, <1>7, <1>8, <1>9, <1>10 DEF CameraNext

LEMMA InputsCount ==
  ASSUME CameraNext, inputs \in 0..MaxInputs
  PROVE  inputs' \in 0..MaxInputs
  <1>1. inputs' = inputs \/ Input
    <2>1. ASSUME NEW p \in Others, Appears(p) \/ CameraOn(p) \/ CameraOff(p) \/ Vanishes(p)
          PROVE  Input
      BY <2>1 DEF Appears, CameraOn, CameraOff, Vanishes, Elsewhere
    <2>2. RoomEvents => inputs' = inputs
      BY DEF RoomEvents, StartsStream, Arrives, CameraSubscribed, CameraUnmuted, Departs, CameraGone, Takes
    <2>3. CameraEvents => inputs' = inputs
      BY DEF CameraEvents, OpenCamera, CloseCameraWindow, StartCamera, StopCamera, CallEndsCamera,
             CloseRequested, HandlesCamera
    <2>4. ClearsStreams => inputs' = inputs
      BY DEF ClearsStreams
    <2>5. ASSUME NEW i \in 1..Len(pictures), Picture(i) \/ Stall(i) \/ Ends(i) PROVE inputs' = inputs
      BY <2>5 DEF Picture, Stall, Ends, StreamStep
    <2>6. ASSUME NEW k \in 1..Len(own), OwnPicture(k) \/ OwnStops(k) \/ OwnFails(k)
          PROVE  inputs' = inputs \/ Input
      BY <2>6 DEF OwnPicture, OwnStops, OwnFails
    <2>7. ASSUME NEW type, User(type) PROVE Input
      BY <2>7 DEF User
    <2> QED BY <2>1, <2>2, <2>3, <2>4, <2>5, <2>6, <2>7 DEF CameraNext
  <1> QED BY <1>1, CameraAssumption DEF Input

LEMMA WindowTypesKeep ==
  ASSUME CameraTypes, WindowTypes, CameraNext
  PROVE  WindowTypes'
  <1>1. own' \in Seq(OwnState) /\ inputs' \in 0..MaxInputs
    BY OwnThreads, InputsCount DEF WindowTypes
  <1>2. ASSUME NEW p \in Others, Appears(p) \/ CameraOn(p) \/ CameraOff(p) \/ Vanishes(p)
        PROVE  UNCHANGED <<panicked, leaving, misread, dismissed, flags, shown>>
    BY <1>2 DEF Appears, CameraOn, CameraOff, Vanishes, Elsewhere, windowVars
  <1>3. CASE RoomEvents
    <2>1. StartsStream =>
            panicked' \in BOOLEAN /\ UNCHANGED <<leaving, misread, dismissed, flags, shown>>
      BY DEF StartsStream, WindowTypes, windowVars
    <2>2. ASSUME NEW p \in Others, Arrives(p) \/ CameraSubscribed(p) \/ CameraUnmuted(p)
          PROVE  UNCHANGED <<panicked, leaving, misread, dismissed, flags, shown>>
      BY <2>2 DEF Arrives, CameraSubscribed, CameraUnmuted, Takes
    <2>3. ASSUME NEW p \in Others, Departs(p) \/ CameraGone("muted", p) \/ CameraGone("unsubscribed", p)
          PROVE  /\ misread' \in BOOLEAN /\ flags' \subseteq flags
                 /\ UNCHANGED <<panicked, leaving, dismissed, shown>>
      BY <2>3 DEF Departs, CameraGone, Takes, StopsStream, ClosesUnlessActive
    <2> QED BY <1>1, <1>3, <2>1, <2>2, <2>3 DEF RoomEvents, WindowTypes
  <1>4. CASE CameraEvents
    <2>1. /\ panicked' = panicked /\ leaving' \in BOOLEAN /\ misread' \in BOOLEAN
          /\ dismissed' \in BOOLEAN /\ flags' \subseteq flags \cup {Local}
          /\ shown' \in {"none", "hidden", "shown"}
      <3>1. ASSUME NEW type, HandlesCamera(type) PROVE panicked' = panicked /\ leaving' \in BOOLEAN
        BY <3>1 DEF HandlesCamera, taskVars
      <3>2. HideCameraWindow => shown' \in {"none", "hidden", "shown"}
        BY DEF HideCameraWindow
      <3>a. OpenCameraWindow => /\ shown' \in {"none", "hidden", "shown"}
                                /\ misread' \in BOOLEAN /\ dismissed' \in BOOLEAN
        BY DEF OpenCameraWindow
      <3>3. OpenCamera => <2>1!:
        BY <3>1, <3>a DEF OpenCamera
      <3>4. CloseCameraWindow => <2>1!:
        BY <3>1, <3>2 DEF CloseCameraWindow, WindowTypes
      <3>5. StartCamera => <2>1!:
        BY <3>1, <3>a DEF StartCamera, WindowTypes
      <3>6. StopCamera => <2>1!:
        BY <3>1, <3>2 DEF StopCamera, WindowTypes
      <3>7. CallEndsCamera => <2>1!:
        BY <3>1, <3>2 DEF CallEndsCamera, WindowTypes
      <3>8. CloseRequested => <2>1!:
        BY <3>2 DEF CloseRequested, taskVars, WindowTypes
      <3> QED BY <1>4, <3>3, <3>4, <3>5, <3>6, <3>7, <3>8 DEF CameraEvents
    <2> QED BY <1>1, <2>1 DEF WindowTypes, Anyone
  <1>5. ClearsStreams => UNCHANGED <<panicked, leaving, misread, dismissed, flags, shown>>
    BY DEF ClearsStreams, taskVars, windowVars
  <1>6. ASSUME NEW i \in 1..Len(pictures), Picture(i) \/ Stall(i) \/ Ends(i)
        PROVE  flags' \subseteq Anyone /\ UNCHANGED <<panicked, leaving, misread, dismissed, shown>>
    <2>1. pictures[i].who \in Others
      <3>1. pictures[i] \in AnyStream
        BY ElementOfSeq DEF CameraTypes
      <3> QED BY <3>1 DEF AnyStream
    <2> QED BY <1>6, <2>1 DEF Picture, Stall, Ends, StreamStep, taskVars, windowVars, WindowTypes, Anyone
  <1>7. ASSUME NEW k \in 1..Len(own), OwnPicture(k) \/ OwnStops(k) \/ OwnFails(k)
        PROVE  flags' \subseteq Anyone /\ UNCHANGED <<panicked, leaving, misread, dismissed, shown>>
    BY <1>7 DEF OwnPicture, OwnStops, OwnFails, ThreadStep, taskVars, windowVars, WindowTypes, Anyone
  <1>8. ASSUME NEW type, User(type) PROVE UNCHANGED <<panicked, leaving, misread, dismissed, flags, shown>>
    BY <1>8 DEF User, taskVars
  <1> QED BY <1>1, <1>2, <1>3, <1>4, <1>5, <1>6, <1>7, <1>8 DEF CameraNext, WindowTypes

\* A step leaves the streams whose they were, and gives someone a stopper only with his stream.
LEMMA StoppersKeep ==
  ASSUME CameraTypes, StoppersMatch, CameraNext
  PROVE  StoppersMatch'
  <1> DEFINE n == Len(pictures)
  <1>1. /\ n \in Nat /\ DOMAIN pictures = 1..n /\ stopper \in [Others -> 0..n]
        /\ \A i \in 1..n : pictures[i] \in AnyStream
    BY LenProperties, ElementOfSeq DEF CameraTypes
  <1>2. ASSUME \A i \in 1..n : pictures'[i].who = pictures[i].who,
               \A p \in Others : stopper'[p] \in {stopper[p], 0}
        PROVE  StoppersMatch'
    BY <1>1, <1>2 DEF StoppersMatch
  <1>3. UNCHANGED streamVars => StoppersMatch'
    BY DEF streamVars, StoppersMatch
  <1>4. \A i, j \in 1..n : ToldStream(i)[j].who = pictures[j].who
    BY ToldStreams
  <1>5. ASSUME NEW p \in Others, Departs(p) \/ CameraGone("muted", p) \/ CameraGone("unsubscribed", p)
        PROVE  StoppersMatch'
    <2>1. \/ UNCHANGED streamVars
          \/ pictures' = ToldStream(stopper[p]) /\ stopper' = [stopper EXCEPT ![p] = 0]
      BY <1>5 DEF Departs, CameraGone, StopsStream
    <2>2. ASSUME pictures' = ToldStream(stopper[p]), stopper' = [stopper EXCEPT ![p] = 0]
          PROVE  StoppersMatch'
      <3>1. \A i \in 1..n : pictures'[i].who = pictures[i].who
        BY <2>2, ToldStreams
      <3>2. \A x \in Others : stopper'[x] \in {stopper[x], 0}
        BY <1>1, <2>2
      <3> QED BY <1>2, <3>1, <3>2
    <2> QED BY <1>3, <2>1, <2>2
  <1>6. CASE StartsStream
    <2>1. \/ UNCHANGED streamVars
          \/ /\ pictures' = Append(ToldStream(stopper[starting]), [who |-> starting, state |-> "running"])
             /\ stopper' = [stopper EXCEPT ![starting] = n + 1] /\ starting \in Others
      BY <1>6 DEF StartsStream, Replaced, StopperFor, CameraTypes
    <2>2. CASE ~UNCHANGED streamVars
      <3> DEFINE told == ToldStream(stopper[starting])
                 new == [who |-> starting, state |-> "running"]
      <3>1. new \in AnyStream /\ new.who = starting /\ starting \in Others
        BY <2>1, <2>2 DEF AnyStream
      <3>2. told \in Seq(AnyStream) /\ Len(told) = n /\ \A i \in 1..n : told[i].who = pictures[i].who
        BY ToldStreams
      <3>3. pictures' = Append(told, new) /\ stopper' = [stopper EXCEPT ![starting] = n + 1]
        BY <2>1, <2>2
      <3> HIDE DEF told, new
      <3>4. pictures'[n + 1] = new /\ \A i \in 1..n : pictures'[i] = told[i]
        BY <3>1, <3>2, <3>3, AppendOne
      <3>5. /\ stopper'[starting] = n + 1
            /\ \A p \in Others : p # starting => stopper'[p] = stopper[p]
        BY <1>1, <3>1, <3>3
      <3>6. ASSUME NEW p \in Others, stopper'[p] # 0 PROVE pictures'[stopper'[p]].who = p
        <4>1. CASE p = starting
          BY <3>1, <3>4, <3>5, <4>1
        <4>2. CASE p # starting
          <5>1. stopper'[p] = stopper[p] /\ stopper[p] \in 1..n
            BY <1>1, <3>5, <3>6, <4>2
          <5> QED BY <3>2, <3>4, <3>6, <5>1 DEF StoppersMatch
        <4> QED BY <4>1, <4>2
      <3> QED BY <3>6 DEF StoppersMatch
    <2> QED BY <1>3, <2>2
  <1>7. CASE ClearsStreams
    <2>1. \A p \in Others : stopper'[p] = 0
      BY <1>7 DEF ClearsStreams
    <2> QED BY <2>1 DEF StoppersMatch
  <1>8. ASSUME NEW i \in 1..n, Picture(i) \/ Stall(i) \/ Ends(i) PROVE StoppersMatch'
    <2>1. stopper' = stopper /\ (pictures' = pictures \/ pictures' = [pictures EXCEPT ![i].state = "ended"])
      BY <1>8 DEF Picture, Stall, Ends, StreamStep
    <2>2. \A j \in 1..n : pictures'[j].who = pictures[j].who
      BY <1>1, <2>1 DEF AnyStream
    <2> QED BY <1>2, <2>1, <2>2
  <1>9. ASSUME NEW p \in Others,
               \/ Appears(p) \/ CameraOn(p) \/ CameraOff(p) \/ Vanishes(p)
               \/ Arrives(p) \/ CameraSubscribed(p) \/ CameraUnmuted(p)
        PROVE  UNCHANGED streamVars
    BY <1>9 DEF Appears, CameraOn, CameraOff, Vanishes, Elsewhere, Arrives, CameraSubscribed, CameraUnmuted
  <1>10. CameraEvents => UNCHANGED streamVars
    BY DEF CameraEvents, OpenCamera, CloseCameraWindow, StartCamera, StopCamera, CallEndsCamera,
             CloseRequested, HandlesCamera
  <1>11. ASSUME NEW k \in 1..Len(own), OwnPicture(k) \/ OwnStops(k) \/ OwnFails(k)
         PROVE  UNCHANGED streamVars
    BY <1>11 DEF OwnPicture, OwnStops, OwnFails, ThreadStep
  <1>12. ASSUME NEW type, User(type) PROVE UNCHANGED streamVars
    BY <1>12 DEF User
  <1> QED BY <1>3, <1>5, <1>6, <1>7, <1>8, <1>9, <1>10, <1>11, <1>12 DEF CameraNext, RoomEvents

LEMMA CameraTypesShown ==
  ASSUME CameraTypes, WindowTypes, StoppersMatch
  PROVE  CameraTypeOK
  <1>1. \A i \in 1..Len(inbox) : inbox[i].who \in Others
    <2>1. \A i \in 1..Len(inbox) : inbox[i] \in AnyCameraEvent
      BY ElementOfSeq DEF CameraTypes
    <2> QED BY <2>1 DEF AnyCameraEvent
  <1> QED BY <1>1 DEF CameraTypes, WindowTypes, StoppersMatch, CameraTypeOK, AnyStream, AnyUserEvent,
                      OwnState, Anyone

--------------------------------------------------------------------------------
(* Overlay. *)

NothingIsShared == captured = Nothing /\ active = NoMonitor /\ ~controls /\ repair = NoMonitor
ShareIsControlled == captured # Nothing /\ controls

\* An overlay that is put up is shown.
ActiveIsShown == active # NoMonitor => active \in visible

\* An overlay that strayed is one of which the event loop will hear, or has heard.
StrayIsHeard == active \in strayed => active \in moved \/ repair # NoMonitor

SharedIsThere == captured.kind = "window" => captured.at \in plugged

\* Where the overlay is, or is to be put.
Follower == IF repair = NoMonitor THEN active ELSE repair
OverlayFollows ==
    captured # Nothing /\ ~adrift /\ (~frameNews \/ captured.kind = "display") =>
        Follower = captured.at

OverlayInv ==
    /\ OverlayTypeOK /\ DesktopIsFree /\ (NothingIsShared \/ ShareIsControlled)
    /\ ActiveIsShown /\ StrayIsHeard /\ SharedIsThere /\ OverlayFollows

LEMMA ContentFacts ==
  ASSUME NEW c \in Shareable \cup {Nothing}
  PROVE  /\ c # Nothing <=> c.kind \in {"display", "window"}
         /\ c # Nothing => c.at \in Monitor /\ c.at # NoMonitor
         /\ c = Nothing <=> c.kind = "none"
  BY OverlayAssumption DEF Shareable, Nothing

LEMMA OverlayInitInv == OverlayInit => OverlayInv
  <1> SUFFICES ASSUME OverlayInit PROVE OverlayInv
    OBVIOUS
  <1>1. OverlayTypeOK
    <2>1. changes \in 0..MaxChanges
      BY OverlayAssumption DEF OverlayInit
    <2>2. entries \subseteq Monitor /\ strayed \cup moved \cup visible \cup hittest \cup chooser \subseteq entries
      BY DEF OverlayInit
    <2> QED BY <2>1, <2>2 DEF OverlayInit, OverlayTypeOK
  <1>2. DesktopIsFree
    BY OverlayAssumption DEF OverlayInit, DesktopIsFree
  <1>3. ActiveIsShown /\ StrayIsHeard /\ SharedIsThere /\ OverlayFollows /\ NothingIsShared
    BY OverlayAssumption DEF OverlayInit, ActiveIsShown, StrayIsHeard, SharedIsThere, OverlayFollows, NothingIsShared,
       Nothing
  <1> QED BY <1>1, <1>2, <1>3 DEF OverlayInv

LEMMA OverlayInvFollows == OverlayInv => OverlayHasItsPlace
  <1> SUFFICES ASSUME OverlayInv, moved = {}, ~frameNews, repair = NoMonitor, captured # Nothing, ~adrift
               PROVE  active = captured.at /\ active \in visible \ strayed /\ controls
    <2>1. OverlayInv => DesktopIsFree /\ (captured = Nothing => active = NoMonitor /\ ~controls)
      BY DEF OverlayInv, NothingIsShared, ShareIsControlled
    <2> QED BY <2>1 DEF OverlayHasItsPlace, OverlayFollowsCapture
  <1>1. active = captured.at
    BY DEF OverlayInv, OverlayFollows, Follower
  <1>2. active # NoMonitor
    BY <1>1, ContentFacts DEF OverlayInv, OverlayTypeOK
  <1> QED BY <1>1, <1>2 DEF OverlayInv, ActiveIsShown, StrayIsHeard, ShareIsControlled, NothingIsShared

\* Monitors come and go, and the shared window moves.
LEMMA MonitorsKeep ==
  ASSUME OverlayInv, NEW m \in Monitor, Unplug(m) \/ Plug(m) \/ SharedWindowMoves(m)
  PROVE  OverlayInv'
  <1>1. /\ OverlayTypeOK /\ DesktopIsFree /\ (NothingIsShared \/ ShareIsControlled)
        /\ ActiveIsShown /\ StrayIsHeard /\ SharedIsThere /\ OverlayFollows
    BY DEF OverlayInv
  <1>2. changes' \in 0..MaxChanges
    BY OverlayAssumption, <1>1 DEF Change, Unplug, Plug, SharedWindowMoves, OverlayTypeOK
  <1>3. UNCHANGED <<entries, visible, hittest, chooser, active, selection, chosen, controls, repair, adrift>>
    BY DEF Unplug, Plug, SharedWindowMoves, managerVars, sharingVars
  <1>4. \/ captured' = captured /\ frameNews' = frameNews
        \/ /\ captured.kind = "window" /\ frameNews' = TRUE
           /\ \E n \in plugged' : captured' = [captured EXCEPT !.at = n]
    BY DEF Unplug, Plug, SharedWindowMoves, sharingVars
  <1>5. plugged' \in (SUBSET Monitor) \ {{}}
    BY <1>1 DEF Unplug, Plug, SharedWindowMoves, OverlayTypeOK
  <1>6. /\ captured' \in Shareable \cup {Nothing} /\ (captured' = Nothing <=> captured = Nothing)
        /\ captured'.kind = captured.kind
        /\ captured' # captured => captured'.at \in plugged' /\ frameNews' /\ captured'.kind = "window"
    <2>1. CASE captured' = captured
      BY <1>1, <2>1 DEF OverlayTypeOK
    <2>2. ASSUME NEW n \in plugged', captured.kind = "window", captured' = [captured EXCEPT !.at = n],
                 frameNews' = TRUE
          PROVE <1>6!:
      BY <1>1, <1>5, <2>2 DEF OverlayTypeOK, Shareable, Nothing
    <2> QED BY <1>4, <2>1, <2>2
  <1>7. OverlayTypeOK'
    <2>1. frameNews' \in BOOLEAN /\ captured' \in Shareable \cup {Nothing}
      BY <1>1, <1>4, <1>6 DEF OverlayTypeOK
    <2>2. strayed' \subseteq entries /\ moved' \subseteq entries
      <3>1. strayed \subseteq entries /\ moved \subseteq entries
        BY <1>1 DEF OverlayTypeOK
      <3>2. CASE Unplug(m)
        BY <3>1, <3>2 DEF Unplug
      <3>3. CASE Plug(m)
        BY <3>1, <3>3 DEF Plug
      <3>4. CASE SharedWindowMoves(m)
        BY <3>1, <3>4 DEF SharedWindowMoves, managerVars
      <3> QED BY <3>2, <3>3, <3>4
    <2> QED BY <1>1, <1>2, <1>3, <1>5, <2>1, <2>2 DEF OverlayTypeOK
  <1>8. DesktopIsFree' /\ (NothingIsShared \/ ShareIsControlled)' /\ ActiveIsShown'
    BY <1>1, <1>3, <1>6 DEF DesktopIsFree, NothingIsShared, ShareIsControlled, ActiveIsShown
  <1>9. StrayIsHeard'
    BY <1>1, <1>3 DEF StrayIsHeard, Unplug, Plug, SharedWindowMoves, managerVars
  <1>10. SharedIsThere'
    <2>1. CASE captured' # captured
      BY <1>6, <2>1 DEF SharedIsThere
    <2>2. CASE captured' = captured
      <3> SUFFICES ASSUME captured.kind = "window" PROVE captured.at \in plugged'
        BY <2>2 DEF SharedIsThere
      <3>1. captured.at \in plugged
        BY <1>1 DEF SharedIsThere
      <3>2. captured = [kind |-> "window", at |-> captured.at]
        BY <1>1 DEF OverlayTypeOK, Shareable, Nothing
      <3>3. CASE Unplug(m)
        <4>1. CASE captured # [kind |-> "window", at |-> m]
          BY <3>1, <3>2, <3>3, <4>1 DEF Unplug
        <4>2. CASE captured = [kind |-> "window", at |-> m]
          <5>1. \E n \in plugged' : captured' = [captured EXCEPT !.at = n]
            BY <3>3, <4>2 DEF Unplug
          <5> QED BY <2>2, <5>1, <3>2
        <4> QED BY <4>1, <4>2
      <3> QED BY <3>1, <3>3 DEF Plug, SharedWindowMoves
    <2> QED BY <2>1, <2>2
  <1>11. OverlayFollows'
    <2>1. CASE captured' # captured
      BY <1>6, <2>1, ContentFacts DEF OverlayFollows
    <2>2. CASE captured' = captured
      <3>1. frameNews => frameNews' \/ captured.kind = "display"
        BY <1>4
      <3>2. captured.kind = "display" \/ (frameNews => frameNews')
        BY <3>1
      <3> QED BY <1>1, <1>3, <2>2, <3>2 DEF OverlayFollows, Follower
    <2> QED BY <2>1, <2>2
  <1> QED BY <1>7, <1>8, <1>9, <1>10, <1>11 DEF OverlayInv

\* The chooser is put up, switched or taken down.
LEMMA SelectionKeeps ==
  ASSUME OverlayInv,
         \/ \E with, full \in SUBSET Monitor, mode \in {"screen", "window"} :
               StartScreenSelection(with, full, mode)
         \/ SetSelectionMode \/ CancelScreenSelection
         \/ \E content \in Shareable : SelectSource(content)
  PROVE  OverlayInv'
  <1>1. /\ OverlayTypeOK /\ DesktopIsFree /\ (NothingIsShared \/ ShareIsControlled)
        /\ ActiveIsShown /\ StrayIsHeard /\ SharedIsThere /\ OverlayFollows
    BY DEF OverlayInv
  <1>2. UNCHANGED <<plugged, changes, captured, controls, repair, frameNews>>
    BY DEF StartScreenSelection, SetSelectionMode, CancelScreenSelection, SelectSource, monitorVars, sharingVars
  <1>3. (NothingIsShared \/ ShareIsControlled) /\ captured # Nothing => ShareIsControlled
    BY DEF NothingIsShared
  <1>4. ASSUME NEW with, NEW full, NEW mode \in {"screen", "window"},
               StartScreenSelection(with, full, mode)
        PROVE  OverlayInv'
    <2>1. /\ entries' = Kept \cup with /\ with \subseteq plugged \ entries /\ strayed' = {}
          /\ moved' = moved \cap Kept /\ full \subseteq entries'
          /\ visible' = (visible \cap Kept) \cup full /\ hittest' = (hittest \cap Kept) \cup full
          /\ chooser' \subseteq entries' /\ selection' = mode /\ chosen' = chosen
          /\ active' = (IF active \in Kept THEN active ELSE NoMonitor)
          /\ adrift' = (adrift \/ active \notin Kept \cup {NoMonitor})
      BY <1>4 DEF StartScreenSelection, Updated, ShowScreenSelection
    <2>2. OverlayTypeOK'
      BY <1>1, <1>2, <2>1 DEF OverlayTypeOK, Kept
    <2>3. DesktopIsFree' /\ ActiveIsShown' /\ StrayIsHeard' /\ SharedIsThere'
      BY <1>1, <1>2, <2>1 DEF DesktopIsFree, ActiveIsShown, StrayIsHeard, SharedIsThere, Kept
    <2>4. (NothingIsShared \/ ShareIsControlled)'
      BY OverlayAssumption, <1>1, <1>2, <2>1 DEF NothingIsShared, ShareIsControlled
    <2>5. OverlayFollows'
      BY <1>1, <1>2, <2>1 DEF OverlayFollows, Follower
    <2> QED BY <2>2, <2>3, <2>4, <2>5 DEF OverlayInv
  <1>5. CASE SetSelectionMode
    <2>1. /\ UNCHANGED <<entries, strayed, visible, hittest, active, moved, chosen, adrift>>
          /\ selection' \in {"screen", "window"} /\ chooser' = entries
      BY <1>5 DEF SetSelectionMode
    <2>2. OverlayTypeOK'
      BY <1>1, <1>2, <2>1 DEF OverlayTypeOK
    <2> QED BY <1>1, <1>2, <2>1, <2>2 DEF OverlayInv, DesktopIsFree, ActiveIsShown, StrayIsHeard,
               SharedIsThere, OverlayFollows, Follower, NothingIsShared, ShareIsControlled
  <1>6. CASE CancelScreenSelection \/ \E content \in Shareable : SelectSource(content)
    <2>1. /\ UNCHANGED <<entries, strayed, active, moved, adrift>>
          /\ selection' = "none" /\ chooser' = {} /\ hittest' = {} /\ visible' = entries \cap {active}
          /\ chosen' \in Shareable \cup {Nothing}
      BY <1>1, <1>6 DEF CancelScreenSelection, SelectSource, HideScreenSelection, OverlayTypeOK
    <2>2. OverlayTypeOK'
      BY <1>1, <1>2, <2>1 DEF OverlayTypeOK
    <2>3. ActiveIsShown'
      BY <1>1, <2>1 DEF ActiveIsShown, OverlayTypeOK
    <2> QED BY <1>1, <1>2, <2>1, <2>2, <2>3 DEF OverlayInv, DesktopIsFree, StrayIsHeard,
               SharedIsThere, OverlayFollows, Follower, NothingIsShared, ShareIsControlled
  <1> QED BY <1>4, <1>5, <1>6

\* A share begins, fails or is stopped.
LEMMA SharingKeeps ==
  ASSUME OverlayInv, StopScreenShare \/ ScreenshareFails \/ Screenshare
  PROVE  OverlayInv'
  <1>1. /\ OverlayTypeOK /\ DesktopIsFree /\ (NothingIsShared \/ ShareIsControlled)
        /\ ActiveIsShown /\ StrayIsHeard /\ SharedIsThere /\ OverlayFollows
    BY DEF OverlayInv
  <1>2. CASE StopScreenShare
    <2>1. /\ captured' = Nothing /\ controls' = FALSE /\ repair' = NoMonitor /\ active' = NoMonitor
          /\ visible' = visible \ {active} /\ adrift' = FALSE
          /\ UNCHANGED <<plugged, changes, entries, strayed, hittest, chooser, moved, selection, chosen,
                         frameNews>>
      BY <1>2 DEF StopScreenShare, StopScreenshare, HideActiveWindow, monitorVars
    <2>2. OverlayTypeOK'
      BY <1>1, <2>1 DEF OverlayTypeOK
    <2>3. DesktopIsFree'
      BY OverlayAssumption, <1>1, <2>1 DEF DesktopIsFree, OverlayTypeOK
    <2>4. NothingIsShared' /\ ActiveIsShown' /\ StrayIsHeard' /\ SharedIsThere' /\ OverlayFollows'
      BY OverlayAssumption, <1>1, <2>1 DEF NothingIsShared, ActiveIsShown, StrayIsHeard, SharedIsThere,
         OverlayFollows, Nothing, OverlayTypeOK
    <2> QED BY <2>2, <2>3, <2>4 DEF OverlayInv
  <1>3. ASSUME ShareBegins
        PROVE  /\ chosen' = Nothing /\ selection' = "none" /\ chooser' = {} /\ hittest' = {}
               /\ adrift' = FALSE /\ UNCHANGED <<plugged, changes, entries, frameNews>>
               /\ chosen \in Shareable /\ chosen # Nothing
    BY <1>1, <1>3 DEF ShareBegins, monitorVars, OverlayTypeOK
  <1>4. CASE ScreenshareFails
    <2>1. /\ captured' = Nothing /\ controls' = FALSE /\ repair' = NoMonitor /\ active' = NoMonitor
          /\ visible' = {} /\ UNCHANGED <<strayed, moved>>
      BY <1>4 DEF ScreenshareFails, StopScreenshare
    <2>2. OverlayTypeOK'
      BY <1>1, <1>3, <1>4, <2>1 DEF OverlayTypeOK, ScreenshareFails
    <2>3. DesktopIsFree'
      BY OverlayAssumption, <1>1, <1>3, <1>4, <2>1 DEF DesktopIsFree, ScreenshareFails, OverlayTypeOK
    <2>4. NothingIsShared' /\ ActiveIsShown' /\ StrayIsHeard' /\ SharedIsThere' /\ OverlayFollows'
      BY OverlayAssumption, <1>1, <2>1 DEF NothingIsShared, ActiveIsShown, StrayIsHeard, SharedIsThere,
         OverlayFollows, Nothing, OverlayTypeOK
    <2> QED BY <2>2, <2>3, <2>4 DEF OverlayInv
  <1>5. CASE Screenshare
    <2> DEFINE m == chosen.at
    <2>1. /\ m \in plugged /\ m \in entries /\ captured' = chosen /\ controls' = TRUE /\ repair' = NoMonitor
          /\ active' = m /\ visible' = {m} /\ strayed' \in {strayed, strayed \ {m}}
          /\ moved' = moved \cup {m} /\ ShareBegins
      BY <1>5 DEF Screenshare, ShowWindow, SetFullscreen
    <2>2. /\ chosen' = Nothing /\ selection' = "none" /\ chooser' = {} /\ hittest' = {}
          /\ adrift' = FALSE /\ UNCHANGED <<plugged, changes, entries, frameNews>>
          /\ chosen \in Shareable /\ chosen # Nothing
      BY <1>3, <2>1
    <2>3. m \in Monitor /\ m # NoMonitor
      BY <2>2, ContentFacts
    <2>4. OverlayTypeOK'
      <3>1. strayed' \cup moved' \cup visible' \cup hittest' \cup chooser' \subseteq entries'
        BY <1>1, <2>1, <2>2 DEF OverlayTypeOK
      <3> QED BY <1>1, <2>1, <2>2, <3>1 DEF OverlayTypeOK
    <2>5. DesktopIsFree' /\ ShareIsControlled' /\ ActiveIsShown' /\ StrayIsHeard'
      BY <2>1, <2>2 DEF DesktopIsFree, ShareIsControlled, ActiveIsShown, StrayIsHeard
    <2>6. SharedIsThere' /\ OverlayFollows'
      BY <2>1, <2>2 DEF SharedIsThere, OverlayFollows, Follower
    <2> QED BY <2>4, <2>5, <2>6 DEF OverlayInv
  <1> QED BY <1>2, <1>4, <1>5

\* The event loop hears that the shared content or a window has moved.
LEMMA NewsKeeps ==
  ASSUME OverlayInv, CaptureFrameChanged \/ \E m \in Monitor : WindowMoved(m)
  PROVE  OverlayInv'
  <1>1. /\ OverlayTypeOK /\ DesktopIsFree /\ (NothingIsShared \/ ShareIsControlled)
        /\ ActiveIsShown /\ StrayIsHeard /\ SharedIsThere /\ OverlayFollows
    BY DEF OverlayInv
  <1>2. CASE CaptureFrameChanged
    <2> DEFINE elsewhere == captured # Nothing /\ captured.at \in plugged /\ active # captured.at
    <2>1. /\ frameNews' = FALSE
          /\ repair' = (IF elsewhere THEN captured.at ELSE repair)
          /\ adrift' = (~elsewhere /\ (adrift \/ repair \notin {NoMonitor, active}))
          /\ UNCHANGED <<plugged, changes, entries, strayed, visible, hittest, chooser, active, moved,
                         selection, chosen, captured, controls>>
      BY <1>2 DEF CaptureFrameChanged, monitorVars, managerVars
    <2>2. captured # Nothing => captured.at \in Monitor /\ captured.at # NoMonitor
      BY <1>1, ContentFacts DEF OverlayTypeOK
    <2>3. OverlayTypeOK'
      <3>1. repair' \in Monitor \cup {NoMonitor}
        BY <1>1, <2>1, <2>2 DEF OverlayTypeOK
      <3> QED BY <1>1, <2>1, <3>1 DEF OverlayTypeOK
    <2>4. DesktopIsFree' /\ ActiveIsShown' /\ SharedIsThere'
      BY <1>1, <2>1 DEF DesktopIsFree, ActiveIsShown, SharedIsThere
    <2>5. (NothingIsShared \/ ShareIsControlled)'
      BY <1>1, <2>1 DEF NothingIsShared, ShareIsControlled
    <2>6. StrayIsHeard'
      BY <1>1, <2>1, <2>2 DEF StrayIsHeard
    <2>7. OverlayFollows'
      <3> SUFFICES ASSUME captured # Nothing, ~adrift' PROVE Follower' = captured.at
        BY <2>1 DEF OverlayFollows
      <3>1. CASE elsewhere
        BY <2>1, <2>2, <3>1 DEF Follower
      <3>2. CASE ~elsewhere /\ active = captured.at
        BY <2>1, <3>2 DEF Follower
      <3>3. CASE ~elsewhere /\ active # captured.at
        <4>1. captured.kind = "display"
          BY <1>1, <2>2, <3>3, ContentFacts DEF SharedIsThere, OverlayTypeOK
        <4>2. Follower = captured.at
          BY <1>1, <2>1, <3>3, <4>1 DEF OverlayFollows
        <4> QED BY <2>1, <3>3, <4>2 DEF Follower
      <3> QED BY <3>1, <3>2, <3>3
    <2> QED BY <2>3, <2>4, <2>5, <2>6, <2>7 DEF OverlayInv
  <1>3. ASSUME NEW m \in Monitor, WindowMoved(m) PROVE OverlayInv'
    <2>1. /\ moved' = moved \ {m}
          /\ repair' = (IF repair = NoMonitor /\ active = m /\ m \in strayed THEN m ELSE repair)
          /\ UNCHANGED <<plugged, changes, entries, strayed, visible, hittest, chooser, active,
                         selection, chosen, captured, controls, frameNews, adrift>>
      BY <1>3 DEF WindowMoved, monitorVars, managerVars
    <2>2. m # NoMonitor
      BY OverlayAssumption
    <2>3. OverlayTypeOK' /\ DesktopIsFree' /\ ActiveIsShown' /\ SharedIsThere'
      BY <1>1, <2>1 DEF OverlayTypeOK, DesktopIsFree, ActiveIsShown, SharedIsThere
    <2>4. (NothingIsShared \/ ShareIsControlled)' /\ StrayIsHeard' /\ OverlayFollows'
      BY <1>1, <2>1, <2>2 DEF NothingIsShared, ShareIsControlled, StrayIsHeard, OverlayFollows, Follower
    <2> QED BY <2>3, <2>4 DEF OverlayInv
  <1> QED BY <1>2, <1>3

\* The overlay is put where it belongs, or the share is given up.
LEMMA RepairKeeps ==
  ASSUME OverlayInv, RepairOverlayMonitor \/ \E with \in SUBSET Monitor : RepairFails(with)
  PROVE  OverlayInv'
  <1>1. /\ OverlayTypeOK /\ DesktopIsFree /\ (NothingIsShared \/ ShareIsControlled)
        /\ ActiveIsShown /\ StrayIsHeard /\ SharedIsThere /\ OverlayFollows
    BY DEF OverlayInv
  <1>2. ASSUME NEW with, Repair(with)
        PROVE  /\ repair # NoMonitor /\ repair' = NoMonitor
               /\ entries' = Kept \cup with /\ with \subseteq plugged \ entries /\ strayed' = {}
               /\ moved' = moved \cap Kept /\ hittest' = hittest \cap Kept /\ chooser' = chooser \cap Kept
               /\ adrift' = (adrift /\ repair # captured.at)
               /\ UNCHANGED <<plugged, changes, selection, chosen, frameNews>>
    BY <1>2 DEF Repair, Updated, monitorVars
  <1>3. ASSUME NEW with, RepairFails(with) PROVE OverlayInv'
    <2>1. /\ Repair(with) /\ active' = NoMonitor /\ controls' = FALSE /\ captured' = Nothing
          /\ visible' = (visible \ {active}) \cap Kept
      BY <1>3 DEF RepairFails, HideActiveWindow
    <2>2. OverlayTypeOK'
      <3>0. Kept \subseteq entries' /\ entries' \subseteq entries \cup plugged /\ strayed' = {}
        BY <1>2, <2>1 DEF Kept
      <3>1. /\ entries' \subseteq Monitor
            /\ moved' \subseteq entries' /\ hittest' \subseteq entries' /\ chooser' \subseteq entries'
        <4>1. plugged \subseteq Monitor /\ entries \subseteq Monitor
          BY <1>1 DEF OverlayTypeOK
        <4>2. moved' \subseteq Kept /\ hittest' \subseteq Kept /\ chooser' \subseteq Kept
          BY <1>2, <2>1
        <4> QED BY <3>0, <4>1, <4>2
      <3>2. visible' \subseteq entries'
        BY <2>1, <3>0
      <3>3. /\ plugged' = plugged /\ selection' = selection /\ chosen' = chosen
            /\ frameNews' = frameNews /\ changes' = changes /\ adrift' \in BOOLEAN
        BY <1>2, <2>1
      <3> QED BY <1>1, <1>2, <2>1, <3>0, <3>1, <3>2, <3>3 DEF OverlayTypeOK
    <2>3. DesktopIsFree'
      BY OverlayAssumption, <1>1, <1>2, <2>1 DEF DesktopIsFree, OverlayTypeOK, Kept
    <2>4. NothingIsShared' /\ ActiveIsShown' /\ StrayIsHeard' /\ SharedIsThere' /\ OverlayFollows'
      BY <1>2, <2>1 DEF NothingIsShared, ActiveIsShown, StrayIsHeard, SharedIsThere, OverlayFollows, Nothing
    <2> QED BY <2>2, <2>3, <2>4 DEF OverlayInv
  <1>4. CASE RepairOverlayMonitor
    <2>1. /\ Repair(plugged \ entries) /\ repair \in plugged /\ active' = repair
          /\ visible' = ((visible \ {active}) \cap Kept) \cup {repair}
          /\ controls' = TRUE /\ captured' = captured
      BY <1>4 DEF RepairOverlayMonitor, ShowWindow, HideActiveWindow
    <2>2. /\ repair # NoMonitor /\ repair' = NoMonitor
          /\ entries' = Kept \cup (plugged \ entries) /\ strayed' = {}
          /\ moved' = moved \cap Kept /\ hittest' = hittest \cap Kept /\ chooser' = chooser \cap Kept
          /\ adrift' = (adrift /\ repair # captured.at)
          /\ UNCHANGED <<plugged, changes, selection, chosen, frameNews>>
      BY <1>2, <2>1
    <2>3. captured # Nothing
      BY <1>1, <2>2 DEF NothingIsShared, ShareIsControlled
    <2>4. OverlayTypeOK'
      BY <1>1, <2>1, <2>2 DEF OverlayTypeOK, Kept
    <2>5. DesktopIsFree'
      BY <1>1, <2>1, <2>2 DEF DesktopIsFree, Kept
    <2>6. ShareIsControlled' /\ ActiveIsShown' /\ StrayIsHeard' /\ SharedIsThere'
      BY <1>1, <2>1, <2>2, <2>3 DEF ShareIsControlled, ActiveIsShown, StrayIsHeard, SharedIsThere
    <2>7. OverlayFollows'
      BY <1>1, <2>1, <2>2, <2>3 DEF OverlayFollows, Follower
    <2> QED BY <2>4, <2>5, <2>6, <2>7 DEF OverlayInv
  <1> QED BY <1>3, <1>4

LEMMA OverlayNextInv == OverlayInv /\ [OverlayNext]_overlayVars => OverlayInv'
  <1> SUFFICES ASSUME OverlayInv, [OverlayNext]_overlayVars PROVE OverlayInv'
    OBVIOUS
  <1>1. CASE UNCHANGED overlayVars
    BY <1>1 DEF overlayVars, monitorVars, managerVars, sharingVars, OverlayInv, OverlayTypeOK, DesktopIsFree,
       NothingIsShared, ShareIsControlled, ActiveIsShown, StrayIsHeard, SharedIsThere, OverlayFollows, Follower
  <1> QED BY <1>1, MonitorsKeep, SelectionKeeps, SharingKeeps, NewsKeeps, RepairKeeps DEF OverlayNext

\* The windows over the monitors: nothing takes the mouse or shows the chooser when nothing is
\* being chosen, and what is captured has its overlay where it is (WindowManager, and
\* repair_overlay_monitor of lib.rs).
THEOREM TheOverlayFollows == OverlaySpec => []OverlayHasItsPlace
  <1> QED BY OverlayInitInv, OverlayNextInv, OverlayInvFollows, PTL DEF OverlaySpec

--------------------------------------------------------------------------------
(* The windows of which a part can be seen (WindowPicker). *)

LEMMA PointsAreEdges ==
  Points = XEdges(desktop) \X YEdges(desktop)
  <1> DEFINE frames == {desktop[i].frame : i \in DOMAIN desktop}
  <1>1. {f.x : f \in frames} = {desktop[i].frame.x : i \in DOMAIN desktop}
        /\ {f.y : f \in frames} = {desktop[i].frame.y : i \in DOMAIN desktop}
    OBVIOUS
  <1>2. {f.x + f.w : f \in frames} = {desktop[i].frame.x + desktop[i].frame.w : i \in DOMAIN desktop}
        /\ {f.y + f.h : f \in frames} = {desktop[i].frame.y + desktop[i].frame.h : i \in DOMAIN desktop}
    OBVIOUS
  <1>3. Points = ({f.x : f \in frames} \cup {f.x + f.w : f \in frames})
                   \X ({f.y : f \in frames} \cup {f.y + f.h : f \in frames})
    BY DEF Points
  <1> HIDE DEF frames
  <1> QED BY <1>1, <1>2, <1>3 DEF XEdges, YEdges

\* Which windows of which a point can be seen can be told at the corners alone.
LEMMA VisibleExact ==
  ASSUME desktop \in Seq(DesktopWindow), NEW windows \in Seq(DesktopWindow),
         \A i \in DOMAIN windows : \E j \in DOMAIN desktop : windows[i] = desktop[j]
  PROVE  Visible(windows) = {windows[i] : i \in ShownPlaces(windows, Len(windows))}
  <1> DEFINE n == Len(windows)
             At2 == UNION {SeenAt(windows, p[1], p[2]) : p \in Points}
  <1>1. n \in Nat /\ DOMAIN windows = 1..n
    BY LenProperties
  <1>2. \A i \in 1..n : \A j \in 1..(i - 1) : j \in 1..n
    BY <1>1
  <1>3. \A j \in DOMAIN desktop : desktop[j].frame \in Frame
    <2>1. \A i \in DOMAIN desktop : desktop[i] \in DesktopWindow
      BY LenProperties, ElementOfSeq
    <2> QED BY <2>1 DEF DesktopWindow
  <1> HIDE DEF n
  <1>4. ASSUME NEW i \in At2 PROVE i \in ShownPlaces(windows, n)
    <2>1. PICK p \in Points : i \in SeenAt(windows, p[1], p[2])
      BY <1>4
    <2>2. p[1] \in XEdges(desktop) /\ p[2] \in YEdges(desktop)
      BY <2>1, PointsAreEdges
    <2>3. XEdges(desktop) \subseteq Int /\ YEdges(desktop) \subseteq Int
      <3>1. ASSUME NEW j \in DOMAIN desktop
            PROVE  /\ desktop[j].frame.x \in Int /\ desktop[j].frame.w \in Int
                   /\ desktop[j].frame.y \in Int /\ desktop[j].frame.h \in Int
        <4>1. desktop[j].frame \in Frame
          BY <1>3
        <4> QED BY <4>1 DEF Frame
      <3>2. ASSUME NEW j \in DOMAIN desktop
            PROVE  /\ desktop[j].frame.x + desktop[j].frame.w \in Int
                   /\ desktop[j].frame.y + desktop[j].frame.h \in Int
        BY <3>1
      <3> QED BY <3>1, <3>2, Zenon DEF XEdges, YEdges
    <2>4. p[1] \in Int /\ p[2] \in Int
      BY <2>2, <2>3
    <2> QED BY <1>1, <2>1, <2>4 DEF SeenAt, ShownPlaces
  <1>5. ASSUME NEW i \in ShownPlaces(windows, n) PROVE i \in At2
    <2>1. i \in 1..n
      BY <1>5 DEF ShownPlaces
    <2>2. PICK px, py \in Int : /\ Covers(windows[i].frame, px, py)
                                /\ \A j \in 1..(i - 1) : ~Covers(windows[j].frame, px, py)
      BY <1>5 DEF ShownPlaces
    <2>3. PICK k \in DOMAIN desktop : windows[i] = desktop[k]
      BY <1>1, <2>1
    <2>4. PICK ex \in XEdges(desktop), ey \in YEdges(desktop) :
            \A j \in DOMAIN desktop :
              Covers(desktop[j].frame, ex, ey) <=> Covers(desktop[j].frame, px, py)
      BY <2>2, <2>3, CornersSuffice
    <2>5. \A j \in 1..n : Covers(windows[j].frame, ex, ey) <=> Covers(windows[j].frame, px, py)
      BY <1>1, <2>4
    <2>6. i \in SeenAt(windows, ex, ey)
      BY <1>1, <1>2, <2>1, <2>2, <2>5 DEF SeenAt
    <2>7. <<ex, ey>> \in Points
      BY PointsAreEdges
    <2> DEFINE p == <<ex, ey>>
    <2>8. p \in Points /\ p[1] = ex /\ p[2] = ey
      BY <2>7
    <2> HIDE DEF p
    <2>9. i \in SeenAt(windows, p[1], p[2])
      BY <2>6, <2>8
    <2> QED BY <2>8, <2>9
  <1>6. At2 = ShownPlaces(windows, n)
    <2> HIDE DEF At2
    <2> QED BY <1>4, <1>5
  <1>7. Visible(windows) = {windows[i] : i \in At2}
    BY DEF Visible
  <1> HIDE DEF At2
  <1> QED BY <1>6, <1>7 DEF n

--------------------------------------------------------------------------------
(* The next monitor (WindowPicker). *)

\* How many monitors come before one: each number up to the number of monitors once, when
\* no two are at the same place.
LEMMA PlacesAreTaken ==
  ASSUME layout \in Seq(Position), NEW direction \in Directions, InLine(direction)
  PROVE  /\ \A i \in DOMAIN layout : Place(direction, i) \in 0..(Len(layout) - 1)
         /\ \A p \in 0..(Len(layout) - 1) :
              \E i \in DOMAIN layout : Place(direction, i) = p
         /\ \A i, j \in DOMAIN layout : Place(direction, i) = Place(direction, j) => i = j
  <1> DEFINE n == Len(layout)
             ax(i) == Axis(direction, layout[i])
             before(i) == {j \in 1..n : ax(j) < ax(i)}
             f == [i \in 1..n |-> Cardinality(before(i))]
  <1>1. n \in Nat /\ DOMAIN layout = 1..n /\ \A i \in 1..n : layout[i] \in Position
    BY LenProperties, ElementOfSeq
  <1>2. \A i \in 1..n : ax(i) \in Int
    BY <1>1 DEF Axis, Position
  <1>3. \A i, j \in 1..n : i # j => ax(i) # ax(j)
    BY <1>1 DEF InLine
  <1>4. \A i \in 1..n : Place(direction, i) = f[i]
    BY <1>1 DEF Place
  <1>5. IsFiniteSet(1..n) /\ Cardinality(1..n) = n
    BY <1>1, NumbersBetween
  <1>6. IsFiniteSet(0..(n - 1)) /\ Cardinality(0..(n - 1)) = n
    <2>1. n - 1 \in Int /\ 0 \in Int
      BY <1>1
    <2>2. IsFiniteSet(0..(n - 1)) /\ Cardinality(0..(n - 1)) = IF 0 > n - 1 THEN 0 ELSE (n - 1) - 0 + 1
      BY <2>1, FS_Interval
    <2> HIDE DEF n
    <2> QED BY <1>1, <2>2
  <1> HIDE DEF n, ax
  <1>7. ASSUME NEW i \in 1..n, NEW j \in 1..n, ax(i) < ax(j)
        PROVE  Cardinality(before(i)) < Cardinality(before(j))
    <2>1. before(i) \subseteq before(j)
      <3>1. \A k \in 1..n : ax(k) < ax(i) => ax(k) < ax(j)
        BY <1>2, <1>7
      <3> QED BY <3>1
    <2>2. i \in before(j) /\ i \notin before(i)
      BY <1>2, <1>7
    <2>3. before(j) \subseteq 1..n
      OBVIOUS
    <2> DEFINE A == before(i)
               B == before(j)
    <2> HIDE DEF before
    <2>4. IsFiniteSet(B)
      <3> DEFINE D == 1..n
      <3>1. IsFiniteSet(D) /\ B \in SUBSET D
        BY <1>5, <2>3
      <3> HIDE DEF D, B
      <3> QED BY <3>1, FS_Subset
    <2>5. A \in SUBSET B /\ A # B
      BY <2>1, <2>2
    <2> HIDE DEF A, B
    <2>6. Cardinality(A) <= Cardinality(B) /\ Cardinality(A) # Cardinality(B) /\ IsFiniteSet(A)
      BY <2>4, <2>5, FS_Subset
    <2>7. Cardinality(A) \in Nat /\ Cardinality(B) \in Nat
      BY <2>4, <2>6, FS_CardinalityType
    <2>8. Cardinality(A) < Cardinality(B)
      BY <2>6, <2>7
    <2> QED BY <2>8 DEF A, B
  <1>8. \A i \in 1..n : Cardinality(before(i)) \in 0..(n - 1)
    <2> SUFFICES ASSUME NEW i \in 1..n PROVE Cardinality(before(i)) \in 0..(n - 1)
      OBVIOUS
    <2> DEFINE A == before(i)
               D == 1..n
    <2>1. A \in SUBSET D /\ i \in D /\ i \notin A
      BY <1>2
    <2>2. IsFiniteSet(D) /\ Cardinality(D) = n
      BY <1>5
    <2> HIDE DEF A, D
    <2>3. IsFiniteSet(A) /\ Cardinality(A) <= n /\ Cardinality(A) # n
      BY <2>1, <2>2, FS_Subset
    <2>4. Cardinality(A) \in Nat
      BY <2>3, FS_CardinalityType
    <2>5. Cardinality(A) \in 0..(n - 1)
      BY <1>1, <2>3, <2>4
    <2> QED BY <2>5 DEF A
  <1> HIDE DEF before
  <1>9. f \in [1..n -> 0..(n - 1)] /\ \A i \in 1..n : f[i] = Cardinality(before(i))
    BY <1>8
  <1> HIDE DEF f
  <1>10. \A i, j \in 1..n : f[i] = f[j] => i = j
    <2> SUFFICES ASSUME NEW i \in 1..n, NEW j \in 1..n, f[i] = f[j], i # j PROVE FALSE
      OBVIOUS
    <2>1. ax(i) < ax(j) \/ ax(j) < ax(i)
      BY <1>2, <1>3
    <2>2. f[i] < f[j] \/ f[j] < f[i]
      BY <1>7, <1>9, <2>1
    <2>3. f[i] \in Int /\ f[j] \in Int
      BY <1>8, <1>9
    <2> QED BY <2>2, <2>3
  <1>11. \A p \in 0..(n - 1) : \E i \in 1..n : f[i] = p
    <2> DEFINE D == 1..n
               E == 0..(n - 1)
    <2>1. f \in [D -> E] /\ \A i, j \in D : f[i] = f[j] => i = j
      BY <1>9, <1>10
    <2>2. IsFiniteSet(E) /\ Cardinality(D) = Cardinality(E)
      BY <1>5, <1>6
    <2> HIDE DEF D, E
    <2>3. f \in Injection(D, E)
      BY <2>1 DEF Injection, IsInjective
    <2>4. f \in Surjection(D, E)
      BY <2>2, <2>3, FS_Injection
    <2>5. \A p \in E : \E i \in D : f[i] = p
      BY <2>4 DEF Surjection
    <2> QED BY <2>5 DEF D, E
  <1>12. DOMAIN layout = 1..n
    BY <1>1
  <1>13. /\ \A i \in 1..n : Place(direction, i) \in 0..(n - 1)
         /\ \A p \in 0..(n - 1) : \E i \in 1..n : Place(direction, i) = p
         /\ \A i, j \in 1..n : Place(direction, i) = Place(direction, j) => i = j
    BY <1>4, <1>8, <1>9, <1>10, <1>11
  <1> QED BY <1>12, <1>13 DEF n

\* The two directions of an axis.
LEMMA OneAxis ==
  /\ \A p : Axis("Left", p) = Axis("Right", p) /\ Axis("Up", p) = Axis("Down", p)
  /\ InLine("Left") = InLine("Right") /\ InLine("Up") = InLine("Down")
  /\ \A i : Place("Left", i) = Place("Right", i) /\ Place("Up", i) = Place("Down", i)
  <1>1. \A p : Axis("Left", p) = Axis("Right", p) /\ Axis("Up", p) = Axis("Down", p)
    BY DEF Axis
  <1>2. InLine("Left") = InLine("Right") /\ InLine("Up") = InLine("Down")
    BY <1>1 DEF InLine
  <1>3. \A i : Place("Left", i) = Place("Right", i) /\ Place("Up", i) = Place("Down", i)
    BY <1>1 DEF Place
  <1> QED BY <1>1, <1>2, <1>3

\* Where the focus goes.
LEMMA FocusMoves ==
  ASSUME layout \in Seq(Position), NEW direction \in Directions, InLine(direction),
         Len(layout) >= 2, NEW i \in DOMAIN layout, NEW step \in Nat,
         step = IF direction \in {"Right", "Down"} THEN 1 ELSE Len(layout) - 1
  PROVE  /\ FocusTarget(direction, i) \in DOMAIN layout
         /\ Place(direction, FocusTarget(direction, i))
              = (Place(direction, i) + step) % Len(layout)
  <1> DEFINE n == Len(layout)
             p == (Place(direction, i) + step) % n
  <1>1. n \in Nat /\ n >= 2 /\ Place(direction, i) \in 0..(n - 1)
    BY LenProperties, PlacesAreTaken
  <1>2. p \in 0..(n - 1)
    <2> DEFINE q == Place(direction, i) + step
    <2>1. q \in Int
      BY <1>1
    <2> HIDE DEF q, n
    <2>2. q % n \in 0..(n - 1)
      BY <1>1, <2>1
    <2> QED BY <2>2 DEF q
  <1>3. FocusTarget(direction, i) = CHOOSE j \in DOMAIN layout : Place(direction, j) = p
    BY <1>1 DEF FocusTarget
  <1>4. \E j \in DOMAIN layout : Place(direction, j) = p
    <2> HIDE DEF p
    <2> QED BY <1>2, PlacesAreTaken DEF n
  <1> HIDE DEF p
  <1>5. FocusTarget(direction, i) \in DOMAIN layout /\ Place(direction, FocusTarget(direction, i)) = p
    BY <1>3, <1>4
  <1> QED BY <1>5 DEF p, n

\* The focus goes to the next monitor and back.
LEMMA FocusBack ==
  ASSUME layout \in Seq(Position), NEW i \in DOMAIN layout,
         NEW one \in Directions, NEW other \in Directions, one \in {"Right", "Down"},
         other \notin {"Right", "Down"}, InLine(other) = InLine(one),
         \A k : Place(other, k) = Place(one, k)
  PROVE  FocusTarget(other, FocusTarget(one, i)) = i
  <1> DEFINE n == Len(layout)
             j == FocusTarget(one, i)
             k == FocusTarget(other, j)
             p == Place(one, i)
  <1>1. n \in Nat
    BY LenProperties
  <1>2. CASE n < 2 \/ ~InLine(one)
    BY <1>2 DEF FocusTarget
  <1>3. CASE n >= 2 /\ InLine(one)
    <2>1. j \in DOMAIN layout /\ Place(one, j) = (p + 1) % n
      BY <1>3, FocusMoves
    <2>2. n - 1 \in Nat /\ n - 1 = IF other \in {"Right", "Down"} THEN 1 ELSE n - 1
      BY <1>1, <1>3
    <2>3. k \in DOMAIN layout /\ Place(other, k) = (Place(other, j) + (n - 1)) % n
      <3> HIDE DEF j
      <3> QED BY <1>3, <2>1, <2>2, FocusMoves
    <2>4. Place(one, k) = (((p + 1) % n) + (n - 1)) % n
      <3> HIDE DEF j, k, p, n
      <3> QED BY <2>1, <2>3
    <2>5. p \in 0..(n - 1)
      BY <1>3, PlacesAreTaken
    <2>6. (((p + 1) % n) + (n - 1)) % n = p
      <3>1. n \in Nat \ {0}
        BY <1>1, <1>3
      <3> HIDE DEF p, n
      <3> QED BY <2>5, <3>1, RoundAndBack
    <2>7. Place(one, k) = Place(one, i)
      <3> HIDE DEF k, n
      <3> QED BY <2>4, <2>6
    <2> HIDE DEF j, k, p, n
    <2>8. k = i
      BY <1>3, <2>3, <2>7, PlacesAreTaken
    <2> QED BY <2>8 DEF k, j
  <1> QED BY <1>1, <1>2, <1>3

LEMMA FocusGoesBack ==
  ASSUME layout \in Seq(Position), NEW i \in DOMAIN layout
  PROVE  /\ FocusTarget("Left", FocusTarget("Right", i)) = i
         /\ FocusTarget("Up", FocusTarget("Down", i)) = i
  <1>1. {"Left", "Right", "Up", "Down"} = Directions
    BY DEF Directions
  <1>2. /\ InLine("Left") = InLine("Right") /\ InLine("Up") = InLine("Down")
        /\ \A k : Place("Left", k) = Place("Right", k)
        /\ \A k : Place("Up", k) = Place("Down", k)
    BY OneAxis
  <1>3. FocusTarget("Left", FocusTarget("Right", i)) = i
    <2> DEFINE one == "Right"
               other == "Left"
    <2>1. one \in Directions /\ other \in Directions /\ one \in {"Right", "Down"}
          /\ other \notin {"Right", "Down"}
      BY <1>1
    <2>2. InLine(other) = InLine(one) /\ \A k : Place(other, k) = Place(one, k)
      BY <1>2
    <2> HIDE DEF one, other
    <2>3. FocusTarget(other, FocusTarget(one, i)) = i
      BY <2>1, <2>2, FocusBack
    <2> QED BY <2>3 DEF one, other
  <1>4. FocusTarget("Up", FocusTarget("Down", i)) = i
    <2> DEFINE one == "Down"
               other == "Up"
    <2>1. one \in Directions /\ other \in Directions /\ one \in {"Right", "Down"}
          /\ other \notin {"Right", "Down"}
      BY <1>1
    <2>2. InLine(other) = InLine(one) /\ \A k : Place(other, k) = Place(one, k)
      BY <1>2
    <2> HIDE DEF one, other
    <2>3. FocusTarget(other, FocusTarget(one, i)) = i
      BY <2>1, <2>2, FocusBack
    <2> QED BY <2>3 DEF one, other
  <1> QED BY <1>3, <1>4

\* The focus stays on a monitor.
LEMMA FocusStays ==
  ASSUME layout \in Seq(Position), NEW direction \in Directions, NEW i \in DOMAIN layout
  PROVE  FocusTarget(direction, i) \in DOMAIN layout
  <1>1. Len(layout) \in Nat
    BY LenProperties
  <1>2. CASE Len(layout) < 2 \/ ~InLine(direction)
    BY <1>2 DEF FocusTarget
  <1>3. CASE Len(layout) >= 2 /\ InLine(direction)
    <2> DEFINE step == IF direction \in {"Right", "Down"} THEN 1 ELSE Len(layout) - 1
    <2>1. step \in Nat
      BY <1>1, <1>3
    <2> HIDE DEF step
    <2>2. step = IF direction \in {"Right", "Down"} THEN 1 ELSE Len(layout) - 1
      BY DEF step
    <2> QED BY <1>3, <2>1, <2>2, FocusMoves
  <1> QED BY <1>1, <1>2, <1>3

--------------------------------------------------------------------------------
(* The chooser (WindowPicker). *)

PickerTypes ==
  /\ desktop \in Desktops /\ cursor \in Cursors /\ layout \in Layouts
  /\ picker \in {"closed", "Screen", "Window"} /\ mouseHover \in BOOLEAN /\ stale \in BOOLEAN
  /\ focus \in DOMAIN layout /\ picked.kind \in {"none", "display", "window"}
  /\ scenes \in 0..MaxScenes

\* What is listed, and the one of it that is marked.
ListIsGood ==
  /\ listed \in Seq(DesktopWindow) /\ DistinctIds(listed)
  /\ picker # "Window" => listed = <<>>
  /\ (picker = "Window" /\ ~stale) => listed = VisibleWindows(SelectableWindows)

MarkIsGood ==
  /\ marked = [mode |-> picker, window |-> hovered]
  /\ hovered = <<>> \/ \E i \in DOMAIN listed : hovered = <<listed[i]>>
  /\ (picker = "Window" /\ mouseHover) => hovered = WindowAtCursor(listed, cursor.x, cursor.y)

PickerInv == PickerTypes /\ ListIsGood /\ MarkIsGood

LEMMA DesktopIsGood ==
  ASSUME desktop \in Desktops
  PROVE  desktop \in Seq(DesktopWindow) /\ DistinctIds(desktop)
  BY WindowPickerAssumption DEF DistinctIds

\* Windows of other processes are windows of the desktop.
LEMMA SelectableAreThere ==
  ASSUME desktop \in Desktops
  PROVE  /\ SelectableWindows \in Seq(DesktopWindow) /\ DistinctIds(SelectableWindows)
         /\ \A i \in DOMAIN SelectableWindows :
              \E j \in DOMAIN desktop : SelectableWindows[i] = desktop[j]
  <1> DEFINE places == {i \in DOMAIN desktop : ~desktop[i].own}
             taken == AtPlaces(desktop, places)
  <1>1. desktop \in Seq(DesktopWindow) /\ DistinctIds(desktop) /\ DOMAIN desktop = 1..Len(desktop)
    BY DesktopIsGood, LenProperties
  <1>2. places \subseteq 1..Len(desktop) /\ places \subseteq DOMAIN desktop
    BY <1>1
  <1>3. SelectableWindows = taken
    BY DEF SelectableWindows
  <1> HIDE DEF places
  <1>4. /\ taken \in Seq(DesktopWindow)
        /\ {taken[i] : i \in DOMAIN taken} = {desktop[i] : i \in places}
        /\ DistinctIds(desktop) => DistinctIds(taken)
    BY <1>1, <1>2, AtPlacesInOrder
  <1> HIDE DEF taken
  <1>5. \A i \in DOMAIN taken : \E j \in DOMAIN desktop : taken[i] = desktop[j]
    BY <1>2, <1>4
  <1> QED BY <1>1, <1>3, <1>4, <1>5

LEMMA SelectedIsOne ==
  ASSUME NEW windows \in Seq(DesktopWindow)
  PROVE  OneOf(SelectedIn(windows), windows)
  <1> DEFINE places == {i \in DOMAIN windows : hovered # <<>> /\ windows[i].id = hovered[1].id}
  <1>1. places \subseteq DOMAIN windows
    OBVIOUS
  <1>2. SelectedIn(windows) = FirstAt(windows, places)
    BY DEF SelectedIn
  <1> HIDE DEF places
  <1> QED BY <1>1, <1>2, FirstIsOne

\* The windows are listed again: the list is what can be seen, and the mark is on it.
LEMMA ListedAgain ==
  ASSUME desktop \in Desktops, mouseHover' \in BOOLEAN,
         desktop' = desktop, RefreshWindowList
  PROVE  /\ listed' \in Seq(DesktopWindow) /\ DistinctIds(listed')
         /\ listed' = VisibleWindows(SelectableWindows)' /\ stale' = FALSE
         /\ OneOf(hovered', listed')
         /\ mouseHover' => hovered' = WindowAtCursor(listed', cursor'.x, cursor'.y)
  <1> DEFINE w == SelectableWindows
             l == VisibleWindows(w)
  <1>1. w \in Seq(DesktopWindow) /\ DistinctIds(w)
    BY SelectableAreThere
  <1> HIDE DEF w
  <1>2. l \in Seq(DesktopWindow) /\ DistinctIds(l)
    BY <1>1, VisibleWindowsExact
  <1> HIDE DEF l
  <1>3. listed' = l /\ stale' = FALSE /\ hovered' = Rehovered(l)
    BY DEF RefreshWindowList, l, w
  <1>4. VisibleWindows(SelectableWindows)' = l
    BY DEF SelectableWindows, l, w
  <1>6. OneOf(hovered', l)
    BY <1>2, <1>3, AtCursorIsOne, SelectedIsOne DEF Rehovered, Hovered
  <1>7. mouseHover' => hovered' = WindowAtCursor(l, cursor'.x, cursor'.y)
    BY <1>3 DEF Rehovered, Hovered
  <1> QED BY <1>2, <1>3, <1>4, <1>6, <1>7

LEMMA EmptyList ==
  <<>> \in Seq(DesktopWindow) /\ DistinctIds(<<>>) /\ OneOf(<<>>, <<>>)
  BY EmptySeq DEF DistinctIds, OneOf

\* The overlays are told when the mark has changed, so they always show it.
LEMMA MarkFollows ==
  ASSUME marked = [mode |-> picker, window |-> hovered],
         picker' = picker,
         IF hovered' # hovered THEN Marks(picker, hovered') ELSE UNCHANGED marked
  PROVE  marked' = [mode |-> picker', window |-> hovered']
  BY DEF Marks

LEMMA PickerInitInv == PickerInit => PickerInv
  <1> SUFFICES ASSUME PickerInit PROVE PickerInv
    OBVIOUS
  <1>1. layout \in Seq(Position) /\ layout # <<>>
    BY WindowPickerAssumption DEF PickerInit
  <1>2. 1 \in DOMAIN layout
    <2>1. Len(layout) \in Nat /\ Len(layout) # 0 /\ DOMAIN layout = 1..Len(layout)
      BY <1>1, LenProperties, EmptySeq
    <2> QED BY <2>1
  <1>3. PickerTypes
    BY <1>2, WindowPickerAssumption DEF PickerInit, PickerTypes, NoSource
  <1>4. ListIsGood
    BY EmptyList DEF PickerInit, ListIsGood
  <1>5. MarkIsGood
    BY DEF PickerInit, MarkIsGood
  <1> QED BY <1>3, <1>4, <1>5 DEF PickerInv

\* The desktop changes, the list is refreshed, the mouse moves, the arrow keys.
LEMMA ListActionsInv ==
  ASSUME PickerInv
  PROVE  /\ \A d \in Desktops : DesktopChanges(d) => PickerInv'
         /\ TimerRefreshes => PickerInv'
         /\ \A c \in Cursors : CursorMoved(c) => PickerInv'
         /\ \A forward \in BOOLEAN : CycleHoveredWindow(forward) => PickerInv'
  <1> USE DEF PickerInv
  <1>1. ASSUME NEW d \in Desktops, DesktopChanges(d) PROVE PickerInv'
    <2>1. PickerTypes'
      BY <1>1, WindowPickerAssumption DEF PickerTypes, DesktopChanges
    <2>2. ListIsGood'
      BY <1>1 DEF ListIsGood, DesktopChanges, DistinctIds
    <2>3. MarkIsGood'
      BY <1>1 DEF MarkIsGood, DesktopChanges
    <2> QED BY <2>1, <2>2, <2>3
  <1>2. ASSUME TimerRefreshes PROVE PickerInv'
    <2>1. /\ picker = "Window" /\ RefreshWindowList
          /\ UNCHANGED <<desktop, cursor, layout, picker, mouseHover, focus, picked, scenes>>
          /\ IF hovered' # hovered THEN Marks(picker, hovered') ELSE UNCHANGED marked
      BY <1>2 DEF TimerRefreshes
    <2>2. /\ listed' \in Seq(DesktopWindow) /\ DistinctIds(listed')
          /\ listed' = VisibleWindows(SelectableWindows)' /\ stale' = FALSE
          /\ OneOf(hovered', listed')
          /\ mouseHover' => hovered' = WindowAtCursor(listed', cursor'.x, cursor'.y)
      BY <2>1, ListedAgain DEF PickerTypes
    <2>3. marked' = [mode |-> picker', window |-> hovered']
      BY <2>1, MarkFollows DEF MarkIsGood
    <2>4. PickerTypes'
      BY <2>1, <2>2 DEF PickerTypes
    <2>5. ListIsGood'
      BY <2>1, <2>2 DEF ListIsGood, DistinctIds
    <2>6. MarkIsGood'
      BY <2>2, <2>3 DEF MarkIsGood, OneOf
    <2> QED BY <2>4, <2>5, <2>6
  <1>3. ASSUME NEW c \in Cursors, CursorMoved(c) PROVE PickerInv'
    <2>1. /\ cursor' = c /\ mouseHover' \in BOOLEAN
          /\ hovered' = IF picker = "Window" THEN WindowAtCursor(listed, cursor'.x, cursor'.y)
                        ELSE hovered
          /\ IF hovered' # hovered THEN Marks(picker, hovered') ELSE UNCHANGED marked
          /\ UNCHANGED <<desktop, layout, picker, listed, focus, picked, stale, scenes>>
      BY <1>3 DEF CursorMoved, Hovered, PickerTypes
    <2>2. marked' = [mode |-> picker', window |-> hovered']
      BY <2>1, MarkFollows DEF MarkIsGood
    <2>3. OneOf(hovered', listed')
      BY <2>1, AtCursorIsOne DEF MarkIsGood, ListIsGood, OneOf
    <2>4. PickerTypes'
      BY <2>1 DEF PickerTypes
    <2>5. ListIsGood'
      BY <2>1 DEF ListIsGood, DistinctIds, SelectableWindows
    <2>6. MarkIsGood'
      BY <2>1, <2>2, <2>3 DEF MarkIsGood, OneOf
    <2> QED BY <2>4, <2>5, <2>6
  <1>4. ASSUME NEW forward \in BOOLEAN, CycleHoveredWindow(forward) PROVE PickerInv'
    <2>1. /\ picker = "Window" /\ mouseHover' = FALSE
          /\ \E id : hovered' = CycleWindow(listed, id, forward)
          /\ IF hovered' # hovered THEN Marks(picker, hovered') ELSE UNCHANGED marked
          /\ UNCHANGED <<desktop, cursor, layout, picker, listed, focus, picked, stale, scenes>>
      BY <1>4 DEF CycleHoveredWindow
    <2>2. marked' = [mode |-> picker', window |-> hovered']
      BY <2>1, MarkFollows DEF MarkIsGood
    <2>3. OneOf(hovered', listed')
      BY <2>1, CycleStays DEF ListIsGood, OneOf
    <2>4. PickerTypes'
      BY <2>1 DEF PickerTypes
    <2>5. ListIsGood'
      BY <2>1 DEF ListIsGood, DistinctIds, SelectableWindows
    <2>6. MarkIsGood'
      BY <2>1, <2>2, <2>3 DEF MarkIsGood, OneOf
    <2> QED BY <2>4, <2>5, <2>6
  <1> QED BY <1>1, <1>2, <1>3, <1>4

\* A mode is entered: from then on the list, if there is one, is what can be seen.
LEMMA EnterModeInv ==
  ASSUME PickerInv, NEW mode \in {"Screen", "Window"}, EnterMode(mode), mouseHover' \in BOOLEAN,
         UNCHANGED <<desktop, cursor, layout, focus, picked, scenes>>
  PROVE  PickerInv'
  <1>1. PickerTypes /\ ListIsGood /\ MarkIsGood
    BY DEF PickerInv
  <1>2. picker' = mode /\ marked' = [mode |-> picker', window |-> hovered']
    BY DEF EnterMode, Marks
  <1>3. CASE mode = "Window"
    <2>1. RefreshWindowList
      BY <1>3 DEF EnterMode
    <2>2. /\ listed' \in Seq(DesktopWindow) /\ DistinctIds(listed')
          /\ listed' = VisibleWindows(SelectableWindows)' /\ stale' = FALSE
          /\ OneOf(hovered', listed')
          /\ mouseHover' => hovered' = WindowAtCursor(listed', cursor'.x, cursor'.y)
      BY <1>1, <2>1, ListedAgain DEF PickerTypes
    <2>3. PickerTypes'
      BY <1>1, <1>2, <2>2 DEF PickerTypes
    <2>4. ListIsGood'
      BY <1>2, <1>3, <2>2 DEF ListIsGood, DistinctIds
    <2>5. MarkIsGood'
      BY <1>2, <2>2 DEF MarkIsGood, OneOf
    <2> QED BY <2>3, <2>4, <2>5 DEF PickerInv
  <1>4. CASE mode # "Window"
    <2>1. listed' = <<>> /\ hovered' = <<>> /\ stale' = stale
      BY <1>4 DEF EnterMode
    <2>2. PickerTypes'
      BY <1>1, <1>2, <2>1 DEF PickerTypes
    <2>3. ListIsGood'
      BY <1>2, <1>4, <2>1, EmptyList DEF ListIsGood
    <2>4. MarkIsGood'
      BY <1>2, <1>4, <2>1 DEF MarkIsGood
    <2> QED BY <2>2, <2>3, <2>4 DEF PickerInv
  <1> QED BY <1>3, <1>4

\* The chooser opens, changes its mode, closes; the focus moves.
LEMMA ModeActionsInv ==
  ASSUME PickerInv
  PROVE  /\ \A mode \in {"Screen", "Window"} : OpenChooser(mode) \/ ChangeMode(mode) => PickerInv'
         /\ LeaveChooser \/ ChooseMarked => PickerInv'
         /\ \A direction \in Directions : FocusWindowInDirection(direction) => PickerInv'
         /\ \A i \in DOMAIN layout : CursorEntered(i) => PickerInv'
  <1>0. PickerTypes /\ ListIsGood /\ MarkIsGood
    BY DEF PickerInv
  <1>1. ASSUME NEW mode \in {"Screen", "Window"}, OpenChooser(mode) \/ ChangeMode(mode)
        PROVE  PickerInv'
    <2>1. /\ EnterMode(mode) /\ mouseHover' \in BOOLEAN
          /\ UNCHANGED <<desktop, cursor, layout, focus, picked, scenes>>
      BY <1>0, <1>1 DEF OpenChooser, ChangeMode, PickerTypes
    <2> QED BY <2>1, EnterModeInv
  <1>2. ASSUME LeaveChooser \/ ChooseMarked PROVE PickerInv'
    <2>1. Closes /\ picked'.kind \in {"none", "display", "window"}
      BY <1>0, <1>2 DEF LeaveChooser, ChooseMarked, PickerTypes
    <2>2. /\ picker' = "closed" /\ listed' = <<>> /\ hovered' = <<>>
          /\ marked' = [mode |-> "closed", window |-> <<>>]
          /\ UNCHANGED <<desktop, cursor, layout, mouseHover, focus, stale, scenes>>
      BY <2>1 DEF Closes
    <2>3. PickerTypes'
      BY <1>0, <2>1, <2>2 DEF PickerTypes
    <2>4. ListIsGood'
      BY <2>2, EmptyList DEF ListIsGood
    <2>5. MarkIsGood'
      BY <2>2 DEF MarkIsGood
    <2> QED BY <2>3, <2>4, <2>5 DEF PickerInv
  <1>3. ASSUME focus' \in DOMAIN layout,
               UNCHANGED <<desktop, cursor, layout, picker, listed, hovered, mouseHover, marked>>,
               UNCHANGED <<picked, stale, scenes>>
        PROVE  PickerInv'
    <2>1. PickerTypes'
      BY <1>0, <1>3 DEF PickerTypes
    <2>2. ListIsGood'
      BY <1>0, <1>3 DEF ListIsGood, DistinctIds, SelectableWindows
    <2>3. MarkIsGood'
      BY <1>0, <1>3 DEF MarkIsGood
    <2> QED BY <2>1, <2>2, <2>3 DEF PickerInv
  <1>4. ASSUME NEW direction \in Directions, FocusWindowInDirection(direction) PROVE PickerInv'
    <2>1. layout \in Seq(Position) /\ focus \in DOMAIN layout
      BY <1>0, WindowPickerAssumption DEF PickerTypes
    <2>2. focus' \in DOMAIN layout
      BY <1>4, <2>1, FocusStays DEF FocusWindowInDirection
    <2> QED BY <1>3, <1>4, <2>2 DEF FocusWindowInDirection
  <1>5. ASSUME NEW i \in DOMAIN layout, CursorEntered(i) PROVE PickerInv'
    BY <1>3, <1>5 DEF CursorEntered
  <1> QED BY <1>1, <1>2, <1>4, <1>5

LEMMA PickerNextInv ==
  ASSUME PickerInv, PickerNext \/ UNCHANGED pickerVars
  PROVE  PickerInv'
  <1>1. CASE PickerNext
    BY <1>1, ListActionsInv, ModeActionsInv DEF PickerNext
  <1>2. CASE UNCHANGED pickerVars
    <2>1. PickerTypes /\ ListIsGood /\ MarkIsGood
      BY DEF PickerInv
    <2>2. PickerTypes'
      BY <1>2, <2>1 DEF PickerTypes, pickerVars
    <2>3. ListIsGood'
      BY <1>2, <2>1 DEF ListIsGood, DistinctIds, SelectableWindows, pickerVars
    <2>4. MarkIsGood'
      BY <1>2, <2>1 DEF MarkIsGood, pickerVars
    <2> QED BY <2>2, <2>3, <2>4 DEF PickerInv
  <1> QED BY <1>1, <1>2

LEMMA PickerInvFollows == PickerInv => PickerTypeOK /\ PickerTellsTheTruth
  <1> SUFFICES ASSUME PickerInv PROVE PickerTypeOK /\ PickerTellsTheTruth
    OBVIOUS
  <1>1. PickerTypes /\ ListIsGood /\ MarkIsGood
    BY DEF PickerInv
  <1>2. marked.window = hovered /\ marked.mode = picker
    BY <1>1 DEF MarkIsGood
  <1>3. PickerTypeOK
    <2>1. Len(hovered) <= 1
      <3>1. CASE hovered = <<>>
        BY <3>1
      <3>2. CASE hovered # <<>>
        <4>1. PICK i : hovered = <<listed[i]>>
          BY <1>1, <3>2 DEF MarkIsGood
        <4> DEFINE w == listed[i]
        <4>2. hovered = <<w>>
          BY <4>1
        <4> HIDE DEF w
        <4> QED BY <4>2
      <3> QED BY <3>1, <3>2
    <2> QED BY <1>1, <1>2, <2>1 DEF PickerTypeOK, PickerTypes
  <1>4. listed \in Seq(DesktopWindow) /\ DistinctIds(listed)
    BY <1>1 DEF ListIsGood
  <1>5. \A i \in DOMAIN listed :
          CycleWindow(listed, CycleWindow(listed, listed[i].id, TRUE)[1].id, FALSE) = <<listed[i]>>
    BY <1>4, CycleBack
  <1>6. layout \in Seq(Position)
    BY <1>1, WindowPickerAssumption DEF PickerTypes
  <1>7. \A i \in DOMAIN layout : /\ FocusTarget("Left", FocusTarget("Right", i)) = i
                                 /\ FocusTarget("Up", FocusTarget("Down", i)) = i
    BY <1>6, FocusGoesBack
  <1>8. ASSUME picker = "Window", ~stale
        PROVE  /\ {listed[i] : i \in DOMAIN listed} = Visible(SelectableWindows)
               /\ InOrder(listed, SelectableWindows)
               /\ hovered # <<>> => hovered[1] \in {listed[i] : i \in DOMAIN listed}
               /\ mouseHover =>
                    hovered = IF SeenAtCursor = {} THEN <<>>
                              ELSE <<SelectableWindows[CHOOSE i \in SeenAtCursor : TRUE]>>
    <2> DEFINE w == SelectableWindows
    <2>1. /\ w \in Seq(DesktopWindow)
          /\ \A i \in DOMAIN w : \E j \in DOMAIN desktop : w[i] = desktop[j]
          /\ desktop \in Seq(DesktopWindow)
      BY <1>1, SelectableAreThere, DesktopIsGood DEF PickerTypes
    <2>2. listed = VisibleWindows(w)
      BY <1>1, <1>8 DEF ListIsGood
    <2>3. SeenAtCursor = SeenAt(w, cursor.x, cursor.y)
      BY DEF SeenAtCursor
    <2> HIDE DEF w
    <2>4. {listed[i] : i \in DOMAIN listed} = {w[i] : i \in ShownPlaces(w, Len(w))} /\ InOrder(listed, w)
      BY <2>1, <2>2, VisibleWindowsExact
    <2>5. Visible(w) = {w[i] : i \in ShownPlaces(w, Len(w))}
      BY <2>1, VisibleExact
    <2>6. hovered # <<>> => hovered[1] \in {listed[i] : i \in DOMAIN listed}
      <3> SUFFICES ASSUME hovered # <<>> PROVE hovered[1] \in {listed[i] : i \in DOMAIN listed}
        OBVIOUS
      <3>1. PICK i \in DOMAIN listed : hovered = <<listed[i]>>
        BY <1>1 DEF MarkIsGood
      <3> DEFINE v == listed[i]
      <3>2. v \in {listed[k] : k \in DOMAIN listed} /\ hovered = <<v>>
        BY <3>1
      <3> HIDE DEF v
      <3>3. hovered[1] = v
        BY <3>2
      <3> QED BY <3>2, <3>3
    <2>7. cursor.x \in Int /\ cursor.y \in Int
      BY <1>1, WindowPickerAssumption DEF PickerTypes, Position
    <2>8. mouseHover => hovered = IF SeenAtCursor = {} THEN <<>>
                                  ELSE <<w[CHOOSE i \in SeenAtCursor : TRUE]>>
      <3> DEFINE px == cursor.x
                 py == cursor.y
      <3>1. mouseHover => hovered = WindowAtCursor(VisibleWindows(w), px, py)
        BY <1>1, <1>8, <2>2 DEF MarkIsGood
      <3>2. px \in Int /\ py \in Int /\ SeenAtCursor = SeenAt(w, px, py)
        BY <2>3, <2>7
      <3> HIDE DEF px, py
      <3>3. WindowAtCursor(VisibleWindows(w), px, py) =
              IF SeenAt(w, px, py) = {} THEN <<>>
              ELSE <<w[CHOOSE i \in SeenAt(w, px, py) : TRUE]>>
        BY <2>1, <3>2, CursorFindsTheSeen
      <3> QED BY <3>1, <3>2, <3>3
    <2> QED BY <2>4, <2>5, <2>6, <2>8 DEF w
  <1>9. PickerTellsTheTruth
    BY <1>2, <1>5, <1>7, <1>8 DEF PickerTellsTheTruth
  <1> QED BY <1>3, <1>9

--------------------------------------------------------------------------------
(* The sharer's screens. *)

\* The chooser's part of what holds in every state of a room, and the overlays'.
ScreensInv == PickerInv /\ OverlayInv

\* The sharer chooses among what there is to see: what is marked is what would be shared, the
\* list has the windows of which a point can be seen, in their order, the mouse marks the one
\* that is seen there, and the arrow keys go round and back (lib.rs 116-257 and 565-656,
\* window_manager.rs 570-641); and the windows over the monitors are where they belong.
THEOREM TheScreensAreAsShown == RoomSpec => []ScreensAreAsShown
  <1>1. RoomInit => ScreensInv
    BY PickerInitInv, OverlayInitInv DEF RoomInit, ScreensInv
  <1>2. ScreensInv /\ [RoomNext]_allVars => ScreensInv'
    <2> SUFFICES ASSUME ScreensInv, [RoomNext]_allVars PROVE ScreensInv'
      OBVIOUS
    <2>1. [PickerNext]_pickerVars /\ [OverlayNext]_overlayVars
      BY DEF RoomNext, PeopleNext, OverNext, WatchNext, allVars, overVars
    <2>2. PickerNext \/ UNCHANGED pickerVars
      BY <2>1
    <2> QED BY <2>1, <2>2, PickerNextInv, OverlayNextInv DEF ScreensInv
  <1>3. ScreensInv => ScreensAreAsShown
    BY PickerInvFollows, OverlayInvFollows DEF ScreensInv, ScreensAreAsShown
  <1> QED BY <1>1, <1>2, <1>3, PTL DEF RoomSpec

--------------------------------------------------------------------------------
(* The pointers on a picture (Pointers). *)

\* The events that wait, those that say something of a guest, and those that say that the
\* guest is there, or is not.
PersonNews == {m \in [what : {"connected", "disconnected"}, who : SUBSET Guests] :
                  \E g \in Guests : m.who = {g}}
WindowNews == [what : {"open", "close"}, who : SUBSET Guests]
AnyNews == PersonNews \cup WindowNews

NewsOfGuest(g) ==
  {m \in AnyNews : (m.what \in {"connected", "disconnected"} /\ g \in m.who) \/ m.what = "open"}
ThereSays(g) == {m \in NewsOfGuest(g) : m.what # "disconnected" /\ g \in m.who}
GoneSays(g) == {m \in NewsOfGuest(g) : m.what = "disconnected" \/ g \notin m.who}

\* A picture: names are told apart, and colours while there were enough, since those of the
\* guests came from the pool and are not in it.
IsPicture(pic) ==
  /\ pic = [up |-> pic.up, pointers |-> pic.pointers, pool |-> pic.pool, ranOut |-> pic.ranOut]
  /\ pic.up \in BOOLEAN /\ pic.ranOut \in BOOLEAN /\ pic.pool \in Seq(Colors)
  /\ Shows(pic) \subseteq Guests \cup {Me}
  /\ \A p \in Shows(pic) : pic.pointers[p].color \in Colors

ColorsAreKept(pic) ==
  /\ Me \in Shows(pic) => pic.pointers[Me].color = SharerColor
  /\ ~pic.ranOut =>
       /\ IsInjective(pic.pool) /\ ToSet(pic.pool) \subseteq ToSet(Palette)
       /\ \A p \in Shows(pic) \ {Me} :
            pic.pointers[p].color \in ToSet(Palette) \ ToSet(pic.pool)
       /\ ToldApart(pic, "color")

GoodPicture(pic) == IsPicture(pic) /\ ToldApart(pic, "name") /\ ColorsAreKept(pic)

\* The last event that says something of a guest says what is so; where none is left, a
\* picture that is shown says it.
EventsTellPresence ==
  \A g \in Guests :
     \/ Lacks(roomEvents, NewsOfGuest(g))
     \/ EndsIn(roomEvents, NewsOfGuest(g), IF g \in present THEN ThereSays(g) ELSE GoneSays(g))

PictureTells(pic) ==
  pic.up => /\ Me \in Shows(pic)
            /\ \A g \in Guests :
                 Lacks(roomEvents, NewsOfGuest(g)) => (g \in Shows(pic) <=> g \in present)

PointersInv ==
  /\ present \subseteq Guests /\ controllers \subseteq Guests /\ roomEvents \in Seq(AnyNews)
  /\ comings \in 0..MaxComings /\ screens \in 0..MaxScreens
  /\ GoodPicture(overlay) /\ GoodPicture(screen)
  /\ ~overlay.up => overlay = Down
  /\ overlay.up => controllers = Shows(overlay) \ {Me}
  /\ EventsTellPresence /\ PictureTells(overlay) /\ PictureTells(screen)

\* The name is one that nobody has: a number is free because more are tried than are used.
LEMMA NameIsFree ==
  ASSUME NEW name, NEW S, name.last \in Seq(S), NEW used, IsFiniteSet(used)
  PROVE  VisibleName(name, used) \notin used
  <1> DEFINE N == Len(name.last)
             c == Cardinality(used)
             spelled == {i \in 0..N : Candidate(name, i, 1) \notin used}
             tried == 2..(c + 2)
             numbered == {i \in tried : Candidate(name, N, i) \notin used}
             least(T) == CHOOSE i \in T : \A j \in T : i <= j
  <1>1. N \in Nat /\ c \in Nat
    BY LenProperties, FS_CardinalityType
  <1>2. ASSUME NEW T, T \subseteq Nat, T # {} PROVE least(T) \in T
    BY <1>2, LeastNumber
  <1>3. spelled \subseteq Nat /\ numbered \subseteq Nat
    BY <1>1
  <1>4. CASE spelled # {}
    <2>1. VisibleName(name, used) = Candidate(name, least(spelled), 1)
      BY <1>4 DEF VisibleName
    <2>2. least(spelled) \in spelled
      <3> HIDE DEF spelled, least
      <3> QED BY <1>2, <1>3, <1>4
    <2> HIDE DEF least
    <2> QED BY <2>1, <2>2
  <1>5. CASE spelled = {}
    <2>1. VisibleName(name, used) = Candidate(name, N, least(numbered))
      BY <1>5 DEF VisibleName
    <2>2. numbered # {}
      <3> SUFFICES ASSUME numbered = {} PROVE FALSE
        OBVIOUS
      <3> DEFINE f == [i \in tried |-> Candidate(name, N, i)]
      <3>1. f \in [tried -> used]
        OBVIOUS
      <3>2. 2..(2 + c) = 2..(c + 2)
        BY <1>1
      <3>3. IsFiniteSet(tried) /\ Cardinality(tried) = c + 1
        <4> HIDE DEF c
        <4>1. IsFiniteSet(2..(2 + c)) /\ Cardinality(2..(2 + c)) = c + 1
          BY <1>1, NumbersBetween
        <4> QED BY <3>2, <4>1
      <3>4. Cardinality(used) < Cardinality(tried)
        BY <1>1, <3>3
      <3>5. \E x, y \in tried : x # y /\ f[x] = f[y]
        <4> HIDE DEF tried, f, c
        <4> QED BY <3>1, <3>3, <3>4, FS_PigeonHole
      <3>6. PICK x \in tried, y \in tried : x # y /\ f[x] = f[y]
        BY <3>5
      <3>7. Candidate(name, N, x).number = Candidate(name, N, y).number
        BY <3>6
      <3> QED BY <3>6, <3>7 DEF Candidate
    <2>3. least(numbered) \in numbered
      <3> HIDE DEF numbered, least
      <3> QED BY <1>2, <1>3, <2>2
    <2> HIDE DEF least
    <2> QED BY <2>1, <2>3
  <1> QED BY <1>4, <1>5

\* What is added to a picture.
LEMMA AddedFacts ==
  ASSUME NEW pic, IsPicture(pic), NEW who \in Guests \cup {Me}, who \notin Shows(pic)
  PROVE  LET new == AddParticipant(pic, who) IN
         /\ new = [up |-> new.up, pointers |-> new.pointers, pool |-> new.pool, ranOut |-> new.ranOut]
         /\ new.up = pic.up /\ Shows(new) = Shows(pic) \cup {who}
         /\ \A p \in Shows(pic) : p # who /\ new.pointers[p] = pic.pointers[p]
         /\ new.pointers[who].name = VisibleName(NameOf(who), NamesOn(pic))
         /\ new.pointers[who].color = ColorFor(pic, who)
         /\ new.pool = IF who = Me \/ pic.pool = <<>> THEN pic.pool ELSE Tail(pic.pool)
         /\ new.ranOut = (pic.ranOut \/ (who # Me /\ pic.pool = <<>>))
  <1> DEFINE pointer == [name |-> VisibleName(NameOf(who), NamesOn(pic)),
                         color |-> ColorFor(pic, who)]
             points == [p \in DOMAIN pic.pointers \cup {who} |->
                          IF p = who THEN pointer ELSE pic.pointers[p]]
             left == IF who = Me \/ pic.pool = <<>> THEN pic.pool ELSE Tail(pic.pool)
             out == pic.ranOut \/ (who # Me /\ pic.pool = <<>>)
             new == AddParticipant(pic, who)
  <1>1. new = [pic EXCEPT !.pointers = points, !.pool = left, !.ranOut = out]
    BY DEF AddParticipant
  <1>2. pic = [up |-> pic.up, pointers |-> pic.pointers, pool |-> pic.pool, ranOut |-> pic.ranOut]
    BY DEF IsPicture
  <1>3. new = [up |-> pic.up, pointers |-> points, pool |-> left, ranOut |-> out]
    <2> HIDE DEF points, left, out, new
    <2> QED BY <1>1, <1>2
  <1>4. /\ new.up = pic.up /\ new.pointers = points /\ new.pool = left /\ new.ranOut = out
    <2> HIDE DEF points, left, out, new
    <2> QED BY <1>3
  <1>5. /\ DOMAIN points = Shows(pic) \cup {who}
        /\ \A p \in Shows(pic) : p # who /\ points[p] = pic.pointers[p]
        /\ points[who].name = pointer.name /\ points[who].color = pointer.color
    <2> HIDE DEF pointer
    <2> QED BY DEF Shows
  <1>6. pointer.name = VisibleName(NameOf(who), NamesOn(pic)) /\ pointer.color = ColorFor(pic, who)
    OBVIOUS
  <1> HIDE DEF points, left, out, new, pointer
  <1>7. new = [up |-> new.up, pointers |-> new.pointers, pool |-> new.pool, ranOut |-> new.ranOut]
    BY <1>3, <1>4
  <1> QED BY <1>4, <1>5, <1>6, <1>7 DEF new, left, out, Shows

LEMMA NewNameDiffers ==
  ASSUME NEW pic, IsPicture(pic), NEW who \in Guests \cup {Me}
  PROVE  \A p \in Shows(pic) : pic.pointers[p].name # VisibleName(NameOf(who), NamesOn(pic))
  <1>1. \E S : NameOf(who).last \in Seq(S)
    <2>1. CASE who = Me
      <3>1. NameOf(who).last = <<>> /\ <<>> \in Seq(STRING)
        BY <2>1, EmptySeq DEF NameOf
      <3> QED BY <3>1
    <2>2. CASE who # Me
      BY <2>2, PointersAssumption DEF NameOf
    <2> QED BY <2>1, <2>2
  <1>2. IsFiniteSet(NamesOn(pic))
    <2> DEFINE f == [p \in Shows(pic) |-> pic.pointers[p].name]
    <2>1. IsFiniteSet(Guests \cup {Me})
      BY PointersAssumption, FS_AddElement
    <2>2. IsFiniteSet(Shows(pic))
      BY <2>1, FS_Subset DEF IsPicture
    <2>3. f \in Surjection(Shows(pic), NamesOn(pic))
      BY DEF Surjection, NamesOn
    <2> HIDE DEF f
    <2> QED BY <2>2, <2>3, FS_Surjection
  <1>3. PICK S : NameOf(who).last \in Seq(S)
    BY <1>1
  <1>4. VisibleName(NameOf(who), NamesOn(pic)) \notin NamesOn(pic)
    BY <1>2, <1>3, NameIsFree
  <1> QED BY <1>4 DEF NamesOn

LEMMA PaletteFacts ==
  /\ Palette \in Seq(Colors) /\ IsInjective(Palette) /\ ToSet(Palette) \subseteq Colors
  /\ SharerColor \in Colors \ ToSet(Palette) /\ DefaultColor \in Colors \ ToSet(Palette)
  <1>1. Palette \in Seq(STRING) /\ DOMAIN Palette = 1..Len(Palette) /\ Len(Palette) \in Nat
    BY PointersAssumption, LenProperties
  <1>2. \A i \in 1..Len(Palette) : Palette[i] \in ToSet(Palette)
    BY <1>1 DEF ToSet
  <1>3. Palette \in Seq(Colors)
    <2>1. Palette = [i \in 1..Len(Palette) |-> Palette[i]]
      BY <1>1
    <2>2. Palette \in [1..Len(Palette) -> Colors]
      BY <1>2, <2>1 DEF Colors
    <2> QED BY <1>1, <2>2, IsASeq
  <1> QED BY <1>3, PointersAssumption DEF Colors, SharerColor, DefaultColor

\* What is good stays so when somebody is added, ...
LEMMA AddingKeeps ==
  ASSUME NEW pic, GoodPicture(pic), NEW who \in Guests \cup {Me}
  PROVE  LET new == AddParticipant(pic, who) IN
         GoodPicture(new) /\ new.up = pic.up /\ Shows(new) = Shows(pic) \cup {who}
  <1> DEFINE new == AddParticipant(pic, who)
  <1>1. CASE who \in Shows(pic)
    <2>1. new = pic
      BY <1>1 DEF AddParticipant
    <2> HIDE DEF new
    <2>2. GoodPicture(new) /\ new.up = pic.up /\ Shows(new) = Shows(pic) \cup {who}
      BY <1>1, <2>1
    <2> QED BY <2>2 DEF new
  <1>2. CASE who \notin Shows(pic)
    <2>1. IsPicture(pic)
      BY DEF GoodPicture
    <2>2. /\ new = [up |-> new.up, pointers |-> new.pointers, pool |-> new.pool, ranOut |-> new.ranOut]
          /\ new.up = pic.up /\ Shows(new) = Shows(pic) \cup {who}
          /\ \A p \in Shows(pic) : p # who /\ new.pointers[p] = pic.pointers[p]
          /\ new.pointers[who].name = VisibleName(NameOf(who), NamesOn(pic))
          /\ new.pointers[who].color = ColorFor(pic, who)
          /\ new.pool = IF who = Me \/ pic.pool = <<>> THEN pic.pool ELSE Tail(pic.pool)
          /\ new.ranOut = (pic.ranOut \/ (who # Me /\ pic.pool = <<>>))
      BY <1>2, <2>1, AddedFacts
    <2> HIDE DEF new
    <2>3. pic.pool \in Seq(Colors) /\ pic.up \in BOOLEAN /\ pic.ranOut \in BOOLEAN
      BY <2>1 DEF IsPicture
    <2>4. pic.pool # <<>> =>
            /\ Head(pic.pool) \in Colors /\ Tail(pic.pool) \in Seq(Colors)
            /\ Head(pic.pool) \in ToSet(pic.pool)
            /\ ToSet(Tail(pic.pool)) \subseteq ToSet(pic.pool)
            /\ IsInjective(pic.pool) =>
                 IsInjective(Tail(pic.pool)) /\ Head(pic.pool) \notin ToSet(Tail(pic.pool))
      <3> SUFFICES ASSUME pic.pool # <<>>
                   PROVE  /\ Head(pic.pool) \in Colors /\ Tail(pic.pool) \in Seq(Colors)
                          /\ Head(pic.pool) \in ToSet(pic.pool)
                          /\ ToSet(Tail(pic.pool)) \subseteq ToSet(pic.pool)
                          /\ IsInjective(pic.pool) =>
                               IsInjective(Tail(pic.pool)) /\ Head(pic.pool) \notin ToSet(Tail(pic.pool))
        OBVIOUS
      <3>1. /\ pic.pool[1] \in Colors /\ Head(pic.pool) = pic.pool[1] /\ Tail(pic.pool) \in Seq(Colors)
            /\ Len(pic.pool) \in Nat \ {0} /\ Len(Tail(pic.pool)) = Len(pic.pool) - 1
            /\ \A i \in 1..(Len(pic.pool) - 1) : Tail(pic.pool)[i] = pic.pool[i + 1]
        BY <2>3, HeadTail
      <3>2. DOMAIN pic.pool = 1..Len(pic.pool) /\ DOMAIN Tail(pic.pool) = 1..(Len(pic.pool) - 1)
        BY <2>3, <3>1, LenProperties
      <3>3. /\ 1 \in 1..Len(pic.pool)
            /\ \A i \in 1..(Len(pic.pool) - 1) : i + 1 \in 1..Len(pic.pool) /\ i + 1 # 1
            /\ \A i, j \in 1..(Len(pic.pool) - 1) : i + 1 = j + 1 => i = j
        BY <3>1
      <3> DEFINE rest == Tail(pic.pool)
      <3> HIDE DEF rest
      <3>4. DOMAIN rest = 1..(Len(pic.pool) - 1) /\ \A i \in DOMAIN rest : rest[i] = pic.pool[i + 1]
        BY <3>1, <3>2 DEF rest
      <3>5. ToSet(rest) \subseteq ToSet(pic.pool)
        BY <3>2, <3>3, <3>4 DEF ToSet
      <3>6. ASSUME IsInjective(pic.pool) PROVE IsInjective(rest) /\ pic.pool[1] \notin ToSet(rest)
        <4>1. \A i, j \in 1..Len(pic.pool) : pic.pool[i] = pic.pool[j] => i = j
          BY <3>2, <3>6 DEF IsInjective
        <4>2. IsInjective(rest)
          <5> SUFFICES ASSUME NEW i \in DOMAIN rest, NEW j \in DOMAIN rest, rest[i] = rest[j]
                       PROVE  i = j
            BY DEF IsInjective
          <5>1. i + 1 \in 1..Len(pic.pool) /\ j + 1 \in 1..Len(pic.pool) /\ i \in Nat /\ j \in Nat
            BY <3>3, <3>4
          <5>2. pic.pool[i + 1] = pic.pool[j + 1]
            BY <3>4
          <5>3. i + 1 = j + 1
            BY <4>1, <5>1, <5>2
          <5> QED BY <5>1, <5>3
        <4>3. pic.pool[1] \notin ToSet(rest)
          BY <3>3, <3>4, <4>1 DEF ToSet
        <4> QED BY <4>2, <4>3
      <3>7. pic.pool[1] \in ToSet(pic.pool)
        BY <3>2, <3>3 DEF ToSet
      <3> QED BY <3>1, <3>5, <3>6, <3>7 DEF rest
    <2>5. ColorFor(pic, who) \in Colors
      BY <2>4, PaletteFacts DEF ColorFor
    <2>6. IsPicture(new)
      <3>1. new.pool \in Seq(Colors)
        BY <2>2, <2>3, <2>4
      <3>2. Shows(new) \subseteq Guests \cup {Me}
        BY <2>1, <2>2 DEF IsPicture
      <3>3. \A p \in Shows(new) : new.pointers[p].color \in Colors
        BY <2>1, <2>2, <2>5 DEF IsPicture
      <3>4. new.ranOut \in BOOLEAN /\ new.up \in BOOLEAN
        BY <2>2, <2>3
      <3> QED BY <2>2, <3>1, <3>2, <3>3, <3>4 DEF IsPicture
    <2>7. ToldApart(new, "name")
      <3>1. \A p \in Shows(pic) : pic.pointers[p].name # VisibleName(NameOf(who), NamesOn(pic))
        BY <2>1, NewNameDiffers
      <3>2. \A p, q \in Shows(pic) : p # q => pic.pointers[p].name # pic.pointers[q].name
        BY DEF GoodPicture, ToldApart
      <3>3. \A p, q \in Shows(new) : p # q => new.pointers[p].name # new.pointers[q].name
        BY <2>2, <3>1, <3>2
      <3> QED BY <3>3 DEF ToldApart
    <2>8. ColorsAreKept(new)
      <3>0. ColorsAreKept(pic)
        BY DEF GoodPicture
      <3>1. Me \in Shows(new) => new.pointers[Me].color = SharerColor
        BY <2>2, <3>0 DEF ColorsAreKept, ColorFor
      <3>2. ASSUME ~new.ranOut
            PROVE  /\ IsInjective(new.pool) /\ ToSet(new.pool) \subseteq ToSet(Palette)
                   /\ \A p \in Shows(new) \ {Me} :
                        new.pointers[p].color \in ToSet(Palette) \ ToSet(new.pool)
                   /\ ToldApart(new, "color")
        <4>1. ~pic.ranOut /\ (who = Me \/ pic.pool # <<>>)
          BY <2>2, <3>2
        <4>2. /\ IsInjective(pic.pool) /\ ToSet(pic.pool) \subseteq ToSet(Palette)
              /\ \A p \in Shows(pic) \ {Me} :
                   pic.pointers[p].color \in ToSet(Palette) \ ToSet(pic.pool)
              /\ \A p, q \in Shows(pic) : p # q => pic.pointers[p].color # pic.pointers[q].color
          BY <3>0, <4>1 DEF ColorsAreKept, ToldApart
        <4>3. CASE who = Me
          <5>1. new.pool = pic.pool /\ new.pointers[who].color = SharerColor
            BY <2>2, <4>3 DEF ColorFor
          <5>2. SharerColor \notin ToSet(Palette)
            BY PaletteFacts
          <5>3. \A p \in Shows(pic) : p # Me
            BY <1>2, <4>3
          <5>4. \A p, q \in Shows(new) : p # q => new.pointers[p].color # new.pointers[q].color
            BY <2>2, <4>2, <4>3, <5>1, <5>2, <5>3
          <5> QED BY <2>2, <4>2, <4>3, <5>1, <5>4 DEF ToldApart
        <4>4. CASE who # Me
          <5>1. new.pool = Tail(pic.pool) /\ new.pointers[who].color = Head(pic.pool)
            BY <2>2, <4>1, <4>4 DEF ColorFor
          <5>2. /\ Head(pic.pool) \in ToSet(Palette) \ ToSet(new.pool)
                /\ Head(pic.pool) \in ToSet(pic.pool) /\ IsInjective(new.pool)
                /\ ToSet(new.pool) \subseteq ToSet(pic.pool)
            BY <2>4, <4>1, <4>2, <4>4, <5>1
          <5>3. \A p \in Shows(pic) : pic.pointers[p].color # Head(pic.pool)
            <6> TAKE p \in Shows(pic)
            <6>1. CASE p = Me
              BY <3>0, <5>2, <6>1, PaletteFacts DEF ColorsAreKept
            <6>2. CASE p # Me
              BY <4>2, <5>2, <6>2
            <6> QED BY <6>1, <6>2
          <5>4. \A p, q \in Shows(new) : p # q => new.pointers[p].color # new.pointers[q].color
            BY <2>2, <4>2, <5>1, <5>3
          <5>5. \A p \in Shows(new) \ {Me} :
                   new.pointers[p].color \in ToSet(Palette) \ ToSet(new.pool)
            BY <2>2, <4>2, <5>1, <5>2
          <5> QED BY <4>2, <5>2, <5>4, <5>5 DEF ToldApart
        <4> QED BY <4>3, <4>4
      <3> QED BY <3>1, <3>2 DEF ColorsAreKept
    <2>9. GoodPicture(new) /\ new.up = pic.up /\ Shows(new) = Shows(pic) \cup {who}
      BY <2>2, <2>6, <2>7, <2>8 DEF GoodPicture
    <2> QED BY <2>9 DEF new
  <1> QED BY <1>1, <1>2

\* ... and when a guest is removed, whose colour goes back.
LEMMA RemovingKeeps ==
  ASSUME NEW pic, GoodPicture(pic), NEW who \in Guests
  PROVE  LET new == RemoveParticipant(pic, who) IN
         GoodPicture(new) /\ new.up = pic.up /\ Shows(new) = Shows(pic) \ {who}
  <1> DEFINE new == RemoveParticipant(pic, who)
  <1>1. CASE who \notin Shows(pic)
    <2>1. new = pic
      BY <1>1 DEF RemoveParticipant
    <2> HIDE DEF new
    <2>2. GoodPicture(new) /\ new.up = pic.up /\ Shows(new) = Shows(pic) \ {who}
      BY <1>1, <2>1
    <2> QED BY <2>2 DEF new
  <1>2. CASE who \in Shows(pic)
    <2> DEFINE points == [p \in DOMAIN pic.pointers \ {who} |-> pic.pointers[p]]
               shade == pic.pointers[who].color
               left == Append(pic.pool, shade)
    <2>1. IsPicture(pic) /\ ColorsAreKept(pic)
      BY DEF GoodPicture
    <2>2. new = [pic EXCEPT !.pointers = points, !.pool = left]
      BY <1>2 DEF RemoveParticipant
    <2>3. pic = [up |-> pic.up, pointers |-> pic.pointers, pool |-> pic.pool, ranOut |-> pic.ranOut]
      BY <2>1 DEF IsPicture
    <2>4. new = [up |-> pic.up, pointers |-> points, pool |-> left, ranOut |-> pic.ranOut]
      <3> HIDE DEF points, left, new
      <3> QED BY <2>2, <2>3
    <2>5. /\ new.up = pic.up /\ new.pointers = points /\ new.pool = left /\ new.ranOut = pic.ranOut
          /\ new = [up |-> new.up, pointers |-> new.pointers, pool |-> new.pool, ranOut |-> new.ranOut]
      <3> HIDE DEF points, left, new
      <3> QED BY <2>4
    <2>6. Shows(new) = Shows(pic) \ {who} /\ \A p \in Shows(new) : new.pointers[p] = pic.pointers[p]
      <3> HIDE DEF new
      <3> QED BY <2>5 DEF Shows
    <2> HIDE DEF new, points
    <2>7. shade \in Colors /\ pic.pool \in Seq(Colors) /\ who # Me
      BY <1>2, <2>1, PointersAssumption DEF IsPicture
    <2> HIDE DEF shade
    <2>8. /\ left \in Seq(Colors) /\ Len(pic.pool) \in Nat /\ DOMAIN pic.pool = 1..Len(pic.pool)
          /\ DOMAIN left = 1..(Len(pic.pool) + 1) /\ left[Len(pic.pool) + 1] = shade
          /\ \A i \in 1..Len(pic.pool) : left[i] = pic.pool[i]
      BY <2>7, AppendProperties, LenProperties
    <2> HIDE DEF left
    <2>9. /\ \A i \in 1..(Len(pic.pool) + 1) : i = Len(pic.pool) + 1 \/ i \in 1..Len(pic.pool)
          /\ Len(pic.pool) + 1 \notin 1..Len(pic.pool)
      BY <2>8
    <2>10. \A x \in ToSet(left) : x = shade \/ x \in ToSet(pic.pool)
      <3> TAKE x \in ToSet(left)
      <3>1. PICK i \in 1..(Len(pic.pool) + 1) : x = left[i]
        BY <2>8 DEF ToSet
      <3> QED BY <2>8, <2>9, <3>1 DEF ToSet
    <2>11. IsPicture(new)
      BY <2>1, <2>5, <2>6, <2>8 DEF IsPicture
    <2>12. ToldApart(new, "name")
      <3>1. \A p, q \in Shows(pic) : p # q => pic.pointers[p].name # pic.pointers[q].name
        BY DEF GoodPicture, ToldApart
      <3>2. \A p, q \in Shows(new) : p # q => new.pointers[p].name # new.pointers[q].name
        BY <2>6, <3>1
      <3> QED BY <3>2 DEF ToldApart
    <2>13. ColorsAreKept(new)
      <3>1. Me \in Shows(new) => new.pointers[Me].color = SharerColor
        BY <2>1, <2>6 DEF ColorsAreKept
      <3>2. ASSUME ~new.ranOut
            PROVE  /\ IsInjective(new.pool) /\ ToSet(new.pool) \subseteq ToSet(Palette)
                   /\ \A p \in Shows(new) \ {Me} :
                        new.pointers[p].color \in ToSet(Palette) \ ToSet(new.pool)
                   /\ ToldApart(new, "color")
        <4>1. /\ IsInjective(pic.pool) /\ ToSet(pic.pool) \subseteq ToSet(Palette)
              /\ \A p \in Shows(pic) \ {Me} :
                   pic.pointers[p].color \in ToSet(Palette) \ ToSet(pic.pool)
              /\ \A p, q \in Shows(pic) : p # q => pic.pointers[p].color # pic.pointers[q].color
          BY <2>1, <2>5, <3>2 DEF ColorsAreKept, ToldApart
        <4>2. shade \in ToSet(Palette) \ ToSet(pic.pool)
          BY <1>2, <2>7, <4>1 DEF shade
        <4>3. IsInjective(left)
          <5>1. \A i, j \in 1..Len(pic.pool) : pic.pool[i] = pic.pool[j] => i = j
            BY <2>8, <4>1 DEF IsInjective
          <5>2. \A i \in 1..Len(pic.pool) : pic.pool[i] # shade
            BY <2>8, <4>2 DEF ToSet
          <5>3. \A i, j \in 1..(Len(pic.pool) + 1) : left[i] = left[j] => i = j
            <6> TAKE i \in 1..(Len(pic.pool) + 1), j \in 1..(Len(pic.pool) + 1)
            <6>1. CASE i = Len(pic.pool) + 1 \/ j = Len(pic.pool) + 1
              BY <2>8, <2>9, <5>2, <6>1
            <6>2. CASE i # Len(pic.pool) + 1 /\ j # Len(pic.pool) + 1
              <7>1. i \in 1..Len(pic.pool) /\ j \in 1..Len(pic.pool)
                BY <2>9, <6>2
              <7> QED BY <2>8, <5>1, <7>1
            <6> QED BY <6>1, <6>2
          <5> QED BY <2>8, <5>3 DEF IsInjective
        <4>4. \A p \in Shows(new) \ {Me} :
                 new.pointers[p].color \in ToSet(Palette) \ ToSet(left)
          <5> TAKE p \in Shows(new) \ {Me}
          <5>1. p \in Shows(pic) \ {Me} /\ p # who /\ new.pointers[p] = pic.pointers[p]
            BY <2>6
          <5>2. pic.pointers[p].color # shade
            BY <1>2, <4>1, <5>1 DEF shade
          <5> QED BY <2>10, <4>1, <5>1, <5>2
        <4>5. \A p, q \in Shows(new) : p # q => new.pointers[p].color # new.pointers[q].color
          BY <2>6, <4>1
        <4>6. ToSet(left) \subseteq ToSet(Palette)
          BY <2>10, <4>1, <4>2
        <4> QED BY <2>5, <4>3, <4>4, <4>5, <4>6 DEF ToldApart
      <3> QED BY <3>1, <3>2 DEF ColorsAreKept
    <2>14. GoodPicture(new) /\ new.up = pic.up /\ Shows(new) = Shows(pic) \ {who}
      BY <2>5, <2>6, <2>11, <2>12, <2>13 DEF GoodPicture
    <2> QED BY <2>14 DEF new
  <1> QED BY <1>1, <1>2

\* The pictures after each of the first k comers: what the recursion of AddInOrder comes to.
AddedTo(pic, comers, k, f) ==
  f = [i \in 0..k |-> IF i = 0 THEN pic ELSE AddParticipant(f[i - 1], comers[i])]

LEMMA OneMoreAdded ==
  ASSUME NEW pic, NEW comers, NEW k \in Nat, NEW f, AddedTo(pic, comers, k, f)
  PROVE  \E h : AddedTo(pic, comers, k + 1, h)
  <1> DEFINE next(e, i) == IF i = 0 THEN pic ELSE AddParticipant(e[i - 1], comers[i])
             h == [i \in 0..(k + 1) |-> IF i = k + 1 THEN next(f, i) ELSE f[i]]
  <1>1. \A i \in 0..k : f[i] = next(f, i)
    <2>1. f = [i \in 0..k |-> next(f, i)]
      BY DEF AddedTo
    <2> HIDE DEF next
    <2> QED BY <2>1
  <1>2. \A i \in 0..k : h[i] = f[i]
    <2> HIDE DEF next
    <2> QED OBVIOUS
  <1>3. \A i \in 0..(k + 1) : i # 0 => i - 1 \in 0..k
    OBVIOUS
  <1>4. \A i \in 0..(k + 1) : next(h, i) = next(f, i)
    <2> HIDE DEF h
    <2> QED BY <1>2, <1>3
  <1>5. \A i \in 0..(k + 1) : h[i] = next(h, i)
    <2>1. \A i \in 0..(k + 1) : h[i] = next(f, i)
      <3> HIDE DEF next
      <3>1. \A i \in 0..(k + 1) : i # k + 1 => i \in 0..k
        OBVIOUS
      <3> QED BY <1>1, <3>1
    <2> HIDE DEF h, next
    <2> QED BY <2>1, <1>4
  <1>6. h = [i \in 0..(k + 1) |-> next(h, i)]
    <2>1. h = [i \in 0..(k + 1) |-> h[i]]
      <3> HIDE DEF next
      <3> QED OBVIOUS
    <2> HIDE DEF h, next
    <2> QED BY <2>1, <1>5
  <1>7. AddedTo(pic, comers, k + 1, h)
    <2> HIDE DEF h
    <2> QED BY <1>6 DEF AddedTo
  <1> QED BY <1>7

LEMMA AddedExists ==
  ASSUME NEW pic, NEW comers, NEW n \in Nat
  PROVE  \E f : AddedTo(pic, comers, n, f)
  <1> DEFINE T == {k \in Nat : ~\E f : AddedTo(pic, comers, k, f)}
  <1> SUFFICES ASSUME T # {} PROVE FALSE
    OBVIOUS
  <1>1. PICK k \in T : \A j \in T : k <= j
    <2>1. T \subseteq Nat
      OBVIOUS
    <2> HIDE DEF T
    <2> QED BY <2>1, LeastNumber
  <1>2. k # 0
    <2> DEFINE e == [i \in 0..0 |-> pic]
    <2>1. e = [i \in 0..0 |-> IF i = 0 THEN pic ELSE AddParticipant(e[i - 1], comers[i])]
      OBVIOUS
    <2>2. AddedTo(pic, comers, 0, e)
      <3> HIDE DEF e
      <3> QED BY <2>1 DEF AddedTo
    <2> HIDE DEF e
    <2> QED BY <2>2
  <1>3. k - 1 \in Nat /\ ~(k <= k - 1) /\ k - 1 + 1 = k
    BY <1>2
  <1>4. k - 1 \notin T
    BY <1>1, <1>3
  <1>5. PICK f : AddedTo(pic, comers, k - 1, f)
    BY <1>3, <1>4
  <1>6. \E h : AddedTo(pic, comers, (k - 1) + 1, h)
    BY <1>3, <1>5, OneMoreAdded
  <1> QED BY <1>3, <1>6

LEMMA AddedIs ==
  ASSUME NEW pic, NEW comers, Len(comers) \in Nat
  PROVE  \E f : AddedTo(pic, comers, Len(comers), f) /\ AddInOrder(pic, comers) = f[Len(comers)]
  <1> DEFINE after[i \in 0..Len(comers)] ==
               IF i = 0 THEN pic ELSE AddParticipant(after[i - 1], comers[i])
  <1>1. AddInOrder(pic, comers) = after[Len(comers)]
    BY DEF AddInOrder
  <1>2. after = CHOOSE f : AddedTo(pic, comers, Len(comers), f)
    BY DEF AddedTo
  <1> HIDE DEF after
  <1>3. AddedTo(pic, comers, Len(comers), after)
    BY <1>2, AddedExists
  <1> QED BY <1>1, <1>3

\* What adding the first k comers makes of a picture.
FirstAdded(pic, comers, k, new) ==
  /\ GoodPicture(new) /\ new.up = pic.up
  /\ Shows(new) = Shows(pic) \cup {comers[i] : i \in 1..k}

LEMMA AddInOrderKeeps ==
  ASSUME NEW pic, GoodPicture(pic), NEW comers \in Seq(Guests)
  PROVE  LET new == AddInOrder(pic, comers) IN
         GoodPicture(new) /\ new.up = pic.up /\ Shows(new) = Shows(pic) \cup ToSet(comers)
  <1> DEFINE n == Len(comers)
  <1>1. n \in Nat /\ DOMAIN comers = 1..n /\ \A i \in 1..n : comers[i] \in Guests
    BY LenProperties, ElementOfSeq
  <1>2. PICK f : AddedTo(pic, comers, n, f) /\ AddInOrder(pic, comers) = f[n]
    BY <1>1, AddedIs
  <1>3. f[0] = pic /\ \A i \in 1..n : f[i] = AddParticipant(f[i - 1], comers[i])
    <2>1. 0 \in 0..n /\ \A i \in 1..n : i \in 0..n /\ i # 0
      BY <1>1
    <2> HIDE DEF n
    <2> QED BY <1>2, <2>1 DEF AddedTo
  <1> DEFINE T == {k \in 0..n : ~FirstAdded(pic, comers, k, f[k])}
  <1> HIDE DEF n
  <1>4. T = {}
    <2> SUFFICES ASSUME T # {} PROVE FALSE
      OBVIOUS
    <2>1. PICK k \in T : \A j \in T : k <= j
      <3>1. T \subseteq Nat
        BY <1>1
      <3> HIDE DEF T
      <3> QED BY <3>1, LeastNumber
    <2>2. FirstAdded(pic, comers, 0, f[0])
      <3>1. {comers[i] : i \in 1..0} = {}
        OBVIOUS
      <3> QED BY <1>3, <3>1 DEF FirstAdded
    <2>3. k \in 1..n /\ k - 1 \in 0..n /\ ~(k <= k - 1)
      BY <1>1, <2>1, <2>2
    <2>4. FirstAdded(pic, comers, k - 1, f[k - 1])
      BY <2>1, <2>3
    <2>5. /\ GoodPicture(f[k - 1]) /\ f[k - 1].up = pic.up
          /\ Shows(f[k - 1]) = Shows(pic) \cup {comers[i] : i \in 1..(k - 1)}
      BY <2>4 DEF FirstAdded
    <2>6. comers[k] \in Guests \cup {Me} /\ f[k] = AddParticipant(f[k - 1], comers[k])
      BY <1>1, <1>3, <2>3
    <2>7. /\ GoodPicture(f[k]) /\ f[k].up = f[k - 1].up
          /\ Shows(f[k]) = Shows(f[k - 1]) \cup {comers[k]}
      <3> DEFINE last == f[k - 1]
                 who == comers[k]
      <3>1. GoodPicture(last) /\ who \in Guests \cup {Me} /\ f[k] = AddParticipant(last, who)
        BY <2>5, <2>6
      <3> HIDE DEF last, who
      <3>2. /\ GoodPicture(f[k]) /\ f[k].up = last.up
            /\ Shows(f[k]) = Shows(last) \cup {who}
        BY <3>1, AddingKeeps
      <3> QED BY <3>2 DEF last, who
    <2>8. {comers[i] : i \in 1..k} = {comers[i] : i \in 1..(k - 1)} \cup {comers[k]}
      <3>1. 1..k = 1..(k - 1) \cup {k}
        BY <2>3
      <3> QED BY <3>1
    <2>9. FirstAdded(pic, comers, k, f[k])
      BY <2>5, <2>7, <2>8 DEF FirstAdded
    <2> QED BY <2>1, <2>9
  <1>5. n \in 0..n
    BY <1>1
  <1>6. FirstAdded(pic, comers, n, f[n])
    BY <1>4, <1>5
  <1>7. ToSet(comers) = {comers[i] : i \in 1..n}
    BY <1>1 DEF ToSet
  <1> QED BY <1>2, <1>6, <1>7 DEF FirstAdded

\* An order of some guests has each of them.
LEMMA OrderOf ==
  ASSUME NEW S, S \subseteq Guests, NEW order \in SetToSeqs(S)
  PROVE  order \in Seq(Guests) /\ ToSet(order) = S
  <1> DEFINE c == Cardinality(S)
  <1>1. IsFiniteSet(S) /\ c \in Nat
    BY PointersAssumption, FS_Subset, FS_CardinalityType
  <1>2. IsFiniteSet(1..c) /\ Cardinality(1..c) = c
    BY <1>1, NumbersBetween
  <1>3. order \in [1..c -> S] /\ \A i, j \in 1..c : i # j => order[i] # order[j]
    BY DEF SetToSeqs
  <1>4. order \in Injection(1..c, S)
    BY <1>3 DEF Injection, IsInjective
  <1>5. order \in Surjection(1..c, S)
    <2>1. Cardinality(1..c) = Cardinality(S)
      BY <1>2
    <2> HIDE DEF c
    <2> QED BY <1>1, <1>2, <1>4, <2>1, FS_Injection, FS_Bijection
  <1> HIDE DEF c
  <1>6. order \in Seq(Guests)
    <2>1. order \in [1..c -> Guests]
      BY <1>3
    <2> QED BY <1>1, <2>1, IsASeq
  <1>7. ToSet(order) = S
    BY <1>3, <1>5 DEF ToSet, Surjection
  <1> QED BY <1>6, <1>7

\* A fresh manager, and what a picture is when it is set up.
LEMMA FreshPicture ==
  ASSUME NEW isUp \in BOOLEAN
  PROVE  GoodPicture(NewManager(isUp)) /\ NewManager(isUp).up = isUp /\ Shows(NewManager(isUp)) = {}
  <1> DEFINE pic == NewManager(isUp)
  <1>1. pic = [up |-> isUp, pointers |-> NoPointers, pool |-> Palette, ranOut |-> FALSE]
    BY DEF NewManager
  <1>2. DOMAIN NoPointers = {}
    BY DEF NoPointers
  <1> HIDE DEF pic
  <1>3. /\ pic.up = isUp /\ pic.pointers = NoPointers /\ pic.pool = Palette /\ pic.ranOut = FALSE
        /\ Shows(pic) = {}
    BY <1>1, <1>2 DEF Shows
  <1>4. pic = [up |-> pic.up, pointers |-> pic.pointers, pool |-> pic.pool, ranOut |-> pic.ranOut]
    BY <1>1, <1>3
  <1>5. IsPicture(pic)
    BY <1>3, <1>4, PaletteFacts DEF IsPicture
  <1>6. ToldApart(pic, "name") /\ ToldApart(pic, "color")
    BY <1>3 DEF ToldApart
  <1>7. ColorsAreKept(pic)
    BY <1>3, <1>6, PaletteFacts DEF ColorsAreKept
  <1> QED BY <1>3, <1>5, <1>6, <1>7 DEF GoodPicture, pic

LEMMA WindowIsBuilt ==
  ASSUME NEW S, S \subseteq Guests, NEW order \in SetToSeqs(S)
  PROVE  LET new == BuildInitialState(order) IN
         GoodPicture(new) /\ new.up /\ Shows(new) = S \cup {Me}
  <1> DEFINE fresh == NewManager(TRUE)
             pic == AddInOrder(fresh, order)
  <1>1. order \in Seq(Guests) /\ ToSet(order) = S
    BY OrderOf
  <1>2. GoodPicture(fresh) /\ fresh.up = TRUE /\ Shows(fresh) = {}
    BY FreshPicture
  <1>3. GoodPicture(pic) /\ pic.up = TRUE /\ Shows(pic) = S
    <2> HIDE DEF fresh
    <2>1. GoodPicture(pic) /\ pic.up = fresh.up /\ Shows(pic) = Shows(fresh) \cup ToSet(order)
      BY <1>1, <1>2, AddInOrderKeeps
    <2> HIDE DEF pic
    <2> QED BY <1>1, <1>2, <2>1
  <1>4. Me \in Guests \cup {Me} /\ BuildInitialState(order) = AddParticipant(pic, Me)
    BY DEF BuildInitialState
  <1> HIDE DEF pic
  <1> QED BY <1>3, <1>4, AddingKeeps

LEMMA OverlayIsBuilt ==
  ASSUME NEW S, S \subseteq Guests, NEW order \in SetToSeqs(S)
  PROVE  LET new == AddInOrder(AddParticipant([Down EXCEPT !.up = TRUE], Me), order) IN
         GoodPicture(new) /\ new.up /\ Shows(new) = S \cup {Me}
  <1> DEFINE fresh == NewManager(TRUE)
             pic == AddParticipant(fresh, Me)
  <1>1. [Down EXCEPT !.up = TRUE] = fresh
    <2>1. PICK no, yes : no = FALSE /\ yes = TRUE
      OBVIOUS
    <2>2. /\ Down = [up |-> no, pointers |-> NoPointers, pool |-> Palette, ranOut |-> no]
          /\ fresh = [up |-> yes, pointers |-> NoPointers, pool |-> Palette, ranOut |-> no]
      BY <2>1, Zenon DEF Down, NewManager
    <2> HIDE DEF fresh
    <2>3. [Down EXCEPT !.up = yes] = fresh
      BY <2>2
    <2> QED BY <2>1, <2>3, Zenon
  <1>2. order \in Seq(Guests) /\ ToSet(order) = S
    BY OrderOf
  <1>3. GoodPicture(fresh) /\ fresh.up = TRUE /\ Shows(fresh) = {}
    BY FreshPicture
  <1>4. Me \in Guests \cup {Me}
    OBVIOUS
  <1>5. GoodPicture(pic) /\ pic.up = TRUE /\ Shows(pic) = {Me}
    <2> HIDE DEF fresh
    <2> QED BY <1>3, <1>4, AddingKeeps
  <1> HIDE DEF pic
  <1>6. LET new == AddInOrder(pic, order) IN
        GoodPicture(new) /\ new.up /\ Shows(new) = S \cup {Me}
    BY <1>2, <1>5, AddInOrderKeeps
  <1> QED BY <1>1, <1>6 DEF pic

LEMMA DownFacts == GoodPicture(Down) /\ ~Down.up
  BY FreshPicture DEF Down

\* What an event says of a guest.
SaysOf(g, isThere) == IF isThere THEN ThereSays(g) ELSE GoneSays(g)

LEMMA SaysFacts ==
  \A g \in Guests : ThereSays(g) \subseteq NewsOfGuest(g) /\ GoneSays(g) \subseteq NewsOfGuest(g)
  BY DEF ThereSays, GoneSays

\* The event loop is told something.
LEMMA NewsIsSent ==
  ASSUME PointersInv, NEW m \in AnyNews, roomEvents' = Append(roomEvents, m),
         UNCHANGED <<overlay, controllers, screen>>, present' \subseteq Guests,
         comings' \in 0..MaxComings, screens' \in 0..MaxScreens,
         \A g \in Guests : IF m \in NewsOfGuest(g) THEN m \in SaysOf(g, g \in present')
                           ELSE g \in present <=> g \in present'
  PROVE  PointersInv'
  <1> USE DEF PointersInv
  <1>1. roomEvents \in Seq(AnyNews) /\ roomEvents' \in Seq(AnyNews)
    BY AppendQueue
  <1>2. ASSUME NEW g \in Guests
        PROVE  /\ Lacks(roomEvents', NewsOfGuest(g)) =>
                    Lacks(roomEvents, NewsOfGuest(g)) /\ (g \in present <=> g \in present')
               /\ \/ Lacks(roomEvents', NewsOfGuest(g))
                  \/ EndsIn(roomEvents', NewsOfGuest(g), SaysOf(g, g \in present'))
    <2> DEFINE S == NewsOfGuest(g)
               T == SaysOf(g, g \in present)
               U == SaysOf(g, g \in present')
    <2>1. Lacks(roomEvents, S) \/ EndsIn(roomEvents, S, T)
      BY DEF EventsTellPresence, SaysOf
    <2>2. IF m \in S THEN m \in U ELSE g \in present <=> g \in present'
      OBVIOUS
    <2>3. m \notin S => T = U
      BY <2>2
    <2> HIDE DEF S, T, U
    <2>4. /\ Lacks(roomEvents', S) <=> Lacks(roomEvents, S) /\ m \notin S
          /\ m \in U => EndsIn(roomEvents', S, U)
          /\ m \notin S /\ EndsIn(roomEvents, S, U) => EndsIn(roomEvents', S, U)
      BY <1>1, AppendQueue
    <2>5. Lacks(roomEvents', S) => Lacks(roomEvents, S) /\ (g \in present <=> g \in present')
      BY <2>2, <2>4
    <2>6. Lacks(roomEvents', S) \/ EndsIn(roomEvents', S, U)
      BY <2>1, <2>2, <2>3, <2>4
    <2> QED BY <2>5, <2>6 DEF S, U
  <1>3. EventsTellPresence'
    BY <1>2 DEF EventsTellPresence, SaysOf
  <1>4. PictureTells(overlay)' /\ PictureTells(screen)'
    BY <1>2 DEF PictureTells
  <1>5. GoodPicture(overlay)' /\ GoodPicture(screen)'
    OBVIOUS
  <1> QED BY <1>1, <1>3, <1>4, <1>5

\* An event is handled: what is then no longer waiting said what is so.
LEMMA NewsIsHeard ==
  ASSUME PointersInv, NEW what, NextEvent(what)
  PROVE  /\ Head(roomEvents) \in AnyNews /\ Head(roomEvents).what = what
         /\ roomEvents' \in Seq(AnyNews) /\ present' = present
         /\ present' \subseteq Guests /\ comings' \in 0..MaxComings /\ screens' \in 0..MaxScreens
         /\ EventsTellPresence'
         /\ \A g \in Guests :
              Lacks(roomEvents', NewsOfGuest(g)) =>
                \/ Lacks(roomEvents, NewsOfGuest(g)) /\ Head(roomEvents) \notin NewsOfGuest(g)
                \/ Head(roomEvents) \in SaysOf(g, g \in present)
  <1>1. /\ roomEvents # <<>> /\ Head(roomEvents).what = what /\ roomEvents' = Tail(roomEvents)
        /\ UNCHANGED <<present, comings, screens>>
    BY DEF NextEvent
  <1>2. roomEvents \in Seq(AnyNews)
    BY DEF PointersInv
  <1>3. Head(roomEvents) \in AnyNews /\ roomEvents' \in Seq(AnyNews)
    BY <1>1, <1>2, TailQueue
  <1>4. ASSUME NEW g \in Guests
        PROVE  /\ \/ Lacks(roomEvents', NewsOfGuest(g))
                  \/ EndsIn(roomEvents', NewsOfGuest(g), SaysOf(g, g \in present'))
               /\ Lacks(roomEvents', NewsOfGuest(g)) =>
                    \/ Lacks(roomEvents, NewsOfGuest(g)) /\ Head(roomEvents) \notin NewsOfGuest(g)
                    \/ Head(roomEvents) \in SaysOf(g, g \in present)
    <2> DEFINE S == NewsOfGuest(g)
               T == SaysOf(g, g \in present)
    <2>1. Lacks(roomEvents, S) \/ EndsIn(roomEvents, S, T)
      BY DEF PointersInv, EventsTellPresence, SaysOf
    <2>2. SaysOf(g, g \in present') = T /\ T \subseteq S
      BY <1>1, SaysFacts DEF SaysOf
    <2> HIDE DEF S, T
    <2>3. /\ Lacks(roomEvents, S) <=> Head(roomEvents) \notin S /\ Lacks(roomEvents', S)
          /\ EndsIn(roomEvents, S, T) =>
               EndsIn(roomEvents', S, T) \/ (Head(roomEvents) \in T /\ Lacks(roomEvents', S))
      BY <1>1, <1>2, TailQueue
    <2>4. EndsIn(roomEvents', S, T) => ~Lacks(roomEvents', S)
      BY <2>2, EndsIsNotLacks
    <2>5. /\ Lacks(roomEvents', S) \/ EndsIn(roomEvents', S, T)
          /\ Lacks(roomEvents', S) =>
               (Lacks(roomEvents, S) /\ Head(roomEvents) \notin S) \/ Head(roomEvents) \in T
      BY <2>1, <2>3, <2>4
    <2> QED BY <2>2, <2>5 DEF S, T
  <1>5. EventsTellPresence'
    BY <1>4 DEF EventsTellPresence, SaysOf
  <1>6. present' \subseteq Guests /\ comings' \in 0..MaxComings /\ screens' \in 0..MaxScreens
    BY <1>1 DEF PointersInv
  <1> QED BY <1>1, <1>3, <1>4, <1>5, <1>6

\* The parts of the invariant once an event is handled.
LEMMA AfterNews ==
  ASSUME PointersInv, NEW what, NextEvent(what), controllers' \subseteq Guests,
         GoodPicture(overlay'), GoodPicture(screen'), ~overlay'.up => overlay' = Down,
         overlay'.up => controllers' = Shows(overlay') \ {Me},
         PictureTells(overlay)', PictureTells(screen)'
  PROVE  PointersInv'
  BY NewsIsHeard DEF PointersInv

\* An event about one guest.
LEMMA PersonIs ==
  ASSUME roomEvents # <<>>, Head(roomEvents) \in AnyNews,
         Head(roomEvents).what \in {"connected", "disconnected"}
  PROVE  Newcomer \in Guests /\ Head(roomEvents).who = {Newcomer}
  <1>1. Head(roomEvents) \in PersonNews
    BY DEF AnyNews, WindowNews
  <1>2. PICK g \in Guests : Head(roomEvents).who = {g}
    BY <1>1 DEF PersonNews
  <1>3. \E x : x \in Head(roomEvents).who
    BY <1>2
  <1>4. Newcomer \in Head(roomEvents).who
    BY <1>3 DEF Newcomer
  <1> QED BY <1>2, <1>4

LEMMA GuestComesKeeps ==
  ASSUME PointersInv, NEW g \in Guests, GuestComes(g) PROVE PointersInv'
  <1> DEFINE m == NewsOf("connected", {g})
  <1>1. /\ g \notin present /\ comings < MaxComings
        /\ present' = present \cup {g} /\ comings' = comings + 1
        /\ roomEvents' = Append(roomEvents, m)
        /\ UNCHANGED <<overlay, controllers, screen, screens>>
    BY DEF GuestComes, ToEventLoop
  <1>2. m.what = "connected" /\ m.who = {g} /\ m \in [what : {"connected", "disconnected"}, who : SUBSET Guests]
    BY DEF NewsOf
  <1> HIDE DEF m
  <1>3. m \in AnyNews
    BY <1>2 DEF AnyNews, PersonNews
  <1>4. /\ present' \subseteq Guests /\ comings' \in 0..MaxComings /\ screens' \in 0..MaxScreens
    BY <1>1, PointersAssumption DEF PointersInv
  <1>5. \A h \in Guests : IF m \in NewsOfGuest(h) THEN m \in SaysOf(h, h \in present')
                          ELSE h \in present <=> h \in present'
    <2> TAKE h \in Guests
    <2>1. CASE h = g
      <3>1. m \in ThereSays(h) /\ h \in present'
        BY <1>1, <1>2, <1>3, <2>1 DEF ThereSays, NewsOfGuest
      <3> QED BY <3>1 DEF SaysOf, ThereSays
    <2>2. CASE h # g
      <3>1. m \notin NewsOfGuest(h)
        BY <1>2, <2>2 DEF NewsOfGuest
      <3> QED BY <1>1, <2>2, <3>1
    <2> QED BY <2>1, <2>2
  <1> QED BY <1>1, <1>3, <1>4, <1>5, NewsIsSent

LEMMA GuestGoesKeeps ==
  ASSUME PointersInv, NEW g \in Guests, GuestGoes(g) PROVE PointersInv'
  <1> DEFINE m == NewsOf("disconnected", {g})
  <1>1. /\ g \in present /\ comings < MaxComings
        /\ present' = present \ {g} /\ comings' = comings + 1
        /\ roomEvents' = Append(roomEvents, m)
        /\ UNCHANGED <<overlay, controllers, screen, screens>>
    BY DEF GuestGoes, ToEventLoop
  <1>2. m.what = "disconnected" /\ m.who = {g} /\ m \in [what : {"connected", "disconnected"}, who : SUBSET Guests]
    BY DEF NewsOf
  <1> HIDE DEF m
  <1>3. m \in AnyNews
    BY <1>2 DEF AnyNews, PersonNews
  <1>4. /\ present' \subseteq Guests /\ comings' \in 0..MaxComings /\ screens' \in 0..MaxScreens
    BY <1>1, PointersAssumption DEF PointersInv
  <1>5. \A h \in Guests : IF m \in NewsOfGuest(h) THEN m \in SaysOf(h, h \in present')
                          ELSE h \in present <=> h \in present'
    <2> TAKE h \in Guests
    <2>1. CASE h = g
      <3>1. m \in GoneSays(h) /\ h \notin present'
        BY <1>1, <1>2, <1>3, <2>1 DEF GoneSays, NewsOfGuest
      <3> QED BY <3>1 DEF SaysOf, GoneSays
    <2>2. CASE h # g
      <3>1. m \notin NewsOfGuest(h)
        BY <1>2, <2>2 DEF NewsOfGuest
      <3> QED BY <1>1, <2>2, <3>1
    <2> QED BY <2>1, <2>2
  <1> QED BY <1>1, <1>3, <1>4, <1>5, NewsIsSent

LEMMA CollectRemoteParticipantsKeeps ==
  ASSUME PointersInv, CollectRemoteParticipants PROVE PointersInv'
  <1> DEFINE m == NewsOf("open", present)
  <1>1. /\ screens < MaxScreens /\ screens' = screens + 1
        /\ roomEvents' = Append(roomEvents, m)
        /\ UNCHANGED <<overlay, controllers, screen, present, comings>>
    BY DEF CollectRemoteParticipants, ToEventLoop
  <1>2. m.what = "open" /\ m.who = present /\ m \in AnyNews
    BY DEF NewsOf, PointersInv, AnyNews, WindowNews
  <1> HIDE DEF m
  <1>3. /\ present' \subseteq Guests /\ comings' \in 0..MaxComings /\ screens' \in 0..MaxScreens
    BY <1>1, PointersAssumption DEF PointersInv
  <1>4. \A h \in Guests : m \in NewsOfGuest(h) /\ m \in SaysOf(h, h \in present')
    BY <1>1, <1>2 DEF NewsOfGuest, SaysOf, ThereSays, GoneSays
  <1> QED BY <1>1, <1>2, <1>3, <1>4, NewsIsSent

LEMMA GuestStopsSharingKeeps ==
  ASSUME PointersInv, GuestStopsSharing PROVE PointersInv'
  <1> DEFINE m == NewsOf("close", {})
  <1>1. /\ roomEvents' = Append(roomEvents, m)
        /\ UNCHANGED <<overlay, controllers, screen, present, comings, screens>>
    BY DEF GuestStopsSharing, ToEventLoop
  <1>2. m.what = "close" /\ m \in AnyNews
    BY DEF NewsOf, AnyNews, WindowNews
  <1> HIDE DEF m
  <1>3. /\ present' \subseteq Guests /\ comings' \in 0..MaxComings /\ screens' \in 0..MaxScreens
    BY <1>1 DEF PointersInv
  <1>4. \A h \in Guests : m \notin NewsOfGuest(h) /\ (h \in present <=> h \in present')
    BY <1>1, <1>2 DEF NewsOfGuest
  <1> QED BY <1>1, <1>2, <1>3, <1>4, NewsIsSent

\* A picture that is shown is told of a newcomer, ...
LEMMA PictureHearsOfNewcomer ==
  ASSUME PointersInv, NextEvent("connected"), NEW pic, GoodPicture(pic), PictureTells(pic)
  PROVE  LET new == Update(pic, Newcomer, AddParticipant) IN
         /\ GoodPicture(new) /\ new.up = pic.up
         /\ Shows(new) = IF pic.up THEN Shows(pic) \cup {Newcomer} ELSE Shows(pic)
         /\ pic.up => Me \in Shows(new)
         /\ pic.up => \A g \in Guests :
              Lacks(roomEvents', NewsOfGuest(g)) => (g \in Shows(new) <=> g \in present')
  <1> DEFINE new == Update(pic, Newcomer, AddParticipant)
  <1>1. /\ Head(roomEvents) \in AnyNews /\ Head(roomEvents).what = "connected" /\ present' = present
        /\ \A g \in Guests :
              Lacks(roomEvents', NewsOfGuest(g)) =>
                \/ Lacks(roomEvents, NewsOfGuest(g)) /\ Head(roomEvents) \notin NewsOfGuest(g)
                \/ Head(roomEvents) \in SaysOf(g, g \in present)
    BY NewsIsHeard
  <1>2. Newcomer \in Guests /\ Head(roomEvents).who = {Newcomer}
    BY <1>1, PersonIs DEF NextEvent
  <1>3. CASE ~pic.up
    <2>1. new = pic
      BY <1>3 DEF Update
    <2> HIDE DEF new
    <2>2. GoodPicture(new) /\ new.up = pic.up /\ Shows(new) = Shows(pic)
      BY <2>1
    <2> QED BY <1>3, <2>2 DEF new
  <1>4. CASE pic.up
    <2>1. new = AddParticipant(pic, Newcomer)
      BY <1>4 DEF Update
    <2>2. GoodPicture(new) /\ new.up = pic.up /\ Shows(new) = Shows(pic) \cup {Newcomer}
      <3> HIDE DEF new
      <3> QED BY <1>2, <2>1, AddingKeeps
    <2> HIDE DEF new
    <2>3. /\ Me \in Shows(pic)
          /\ \A g \in Guests : Lacks(roomEvents, NewsOfGuest(g)) => (g \in Shows(pic) <=> g \in present)
      BY <1>4 DEF PictureTells
    <2>4. ASSUME NEW g \in Guests, Lacks(roomEvents', NewsOfGuest(g))
          PROVE  g \in Shows(new) <=> g \in present'
      <3>1. CASE g = Newcomer
        <4>1. Head(roomEvents) \in NewsOfGuest(g)
          BY <1>1, <1>2, <3>1 DEF NewsOfGuest
        <4>2. Head(roomEvents) \in SaysOf(g, g \in present)
          BY <1>1, <2>4, <4>1
        <4>3. g \in present
          BY <1>1, <1>2, <3>1, <4>2 DEF SaysOf, GoneSays
        <4> QED BY <1>1, <2>2, <3>1, <4>3
      <3>2. CASE g # Newcomer
        <4>1. Head(roomEvents) \notin NewsOfGuest(g)
          BY <1>1, <1>2, <3>2 DEF NewsOfGuest
        <4>2. Lacks(roomEvents, NewsOfGuest(g))
          BY <1>1, <2>4, <4>1, SaysFacts DEF SaysOf
        <4> QED BY <1>1, <2>2, <2>3, <3>2, <4>2
      <3> QED BY <3>1, <3>2
    <2> QED BY <1>4, <2>2, <2>3, <2>4 DEF new
  <1> QED BY <1>3, <1>4

LEMMA ParticipantConnectedKeeps ==
  ASSUME PointersInv, ParticipantConnected PROVE PointersInv'
  <1>1. /\ NextEvent("connected")
        /\ overlay' = Update(overlay, Newcomer, AddParticipant)
        /\ controllers' = IF overlay.up /\ Newcomer \notin Shows(overlay)
                          THEN controllers \cup {Newcomer} ELSE controllers
        /\ screen' = Update(screen, Newcomer, AddParticipant)
    BY DEF ParticipantConnected
  <1>2. /\ controllers \subseteq Guests /\ GoodPicture(overlay) /\ GoodPicture(screen)
        /\ ~overlay.up => overlay = Down
        /\ overlay.up => controllers = Shows(overlay) \ {Me}
        /\ PictureTells(overlay) /\ PictureTells(screen)
    BY DEF PointersInv
  <1>3. /\ GoodPicture(overlay') /\ overlay'.up = overlay.up
        /\ Shows(overlay') = IF overlay.up THEN Shows(overlay) \cup {Newcomer} ELSE Shows(overlay)
        /\ overlay.up => Me \in Shows(overlay')
        /\ overlay.up => \A g \in Guests :
             Lacks(roomEvents', NewsOfGuest(g)) => (g \in Shows(overlay') <=> g \in present')
    BY <1>1, <1>2, PictureHearsOfNewcomer
  <1>4. /\ GoodPicture(screen') /\ screen'.up = screen.up
        /\ screen.up => Me \in Shows(screen')
        /\ screen.up => \A g \in Guests :
             Lacks(roomEvents', NewsOfGuest(g)) => (g \in Shows(screen') <=> g \in present')
    BY <1>1, <1>2, PictureHearsOfNewcomer
  <1>5. Newcomer \in Guests /\ Newcomer # Me
    BY <1>1, NewsIsHeard, PersonIs, PointersAssumption DEF NextEvent
  <1>6. ~overlay'.up => overlay' = Down
    <2>1. ~overlay.up => overlay' = overlay
      BY <1>1 DEF Update
    <2> QED BY <1>2, <1>3, <2>1
  <1>7. overlay'.up => controllers' = Shows(overlay') \ {Me}
    <2> SUFFICES ASSUME overlay.up PROVE controllers' = Shows(overlay') \ {Me}
      BY <1>3
    <2>1. Shows(overlay') = Shows(overlay) \cup {Newcomer} /\ controllers = Shows(overlay) \ {Me}
      BY <1>2, <1>3
    <2>2. CASE Newcomer \in Shows(overlay)
      BY <1>1, <2>1, <2>2
    <2>3. CASE Newcomer \notin Shows(overlay)
      BY <1>1, <1>5, <2>1, <2>3
    <2> QED BY <2>2, <2>3
  <1>8. controllers' \subseteq Guests
    BY <1>1, <1>2, <1>5
  <1>9. PictureTells(overlay)' /\ PictureTells(screen)'
    BY <1>3, <1>4 DEF PictureTells
  <1> QED BY <1>1, <1>3, <1>4, <1>6, <1>7, <1>8, <1>9, AfterNews

\* ... and of one who is gone.
LEMMA PictureHearsOfGone ==
  ASSUME PointersInv, NextEvent("disconnected"), NEW pic, GoodPicture(pic), PictureTells(pic)
  PROVE  LET new == Update(pic, Newcomer, RemoveParticipant) IN
         /\ GoodPicture(new) /\ new.up = pic.up
         /\ Shows(new) = IF pic.up THEN Shows(pic) \ {Newcomer} ELSE Shows(pic)
         /\ pic.up => Me \in Shows(new)
         /\ pic.up => \A g \in Guests :
              Lacks(roomEvents', NewsOfGuest(g)) => (g \in Shows(new) <=> g \in present')
  <1> DEFINE new == Update(pic, Newcomer, RemoveParticipant)
  <1>1. /\ Head(roomEvents) \in AnyNews /\ Head(roomEvents).what = "disconnected" /\ present' = present
        /\ \A g \in Guests :
              Lacks(roomEvents', NewsOfGuest(g)) =>
                \/ Lacks(roomEvents, NewsOfGuest(g)) /\ Head(roomEvents) \notin NewsOfGuest(g)
                \/ Head(roomEvents) \in SaysOf(g, g \in present)
    BY NewsIsHeard
  <1>2. Newcomer \in Guests /\ Head(roomEvents).who = {Newcomer} /\ Newcomer # Me
    BY <1>1, PersonIs, PointersAssumption DEF NextEvent
  <1>3. CASE ~pic.up
    <2>1. new = pic
      BY <1>3 DEF Update
    <2> HIDE DEF new
    <2>2. GoodPicture(new) /\ new.up = pic.up /\ Shows(new) = Shows(pic)
      BY <2>1
    <2> QED BY <1>3, <2>2 DEF new
  <1>4. CASE pic.up
    <2>1. new = RemoveParticipant(pic, Newcomer)
      BY <1>4 DEF Update
    <2>2. GoodPicture(new) /\ new.up = pic.up /\ Shows(new) = Shows(pic) \ {Newcomer}
      <3> HIDE DEF new
      <3> QED BY <1>2, <2>1, RemovingKeeps
    <2> HIDE DEF new
    <2>3. /\ Me \in Shows(pic)
          /\ \A g \in Guests : Lacks(roomEvents, NewsOfGuest(g)) => (g \in Shows(pic) <=> g \in present)
      BY <1>4 DEF PictureTells
    <2>4. ASSUME NEW g \in Guests, Lacks(roomEvents', NewsOfGuest(g))
          PROVE  g \in Shows(new) <=> g \in present'
      <3>1. CASE g = Newcomer
        <4>1. Head(roomEvents) \in NewsOfGuest(g)
          BY <1>1, <1>2, <3>1 DEF NewsOfGuest
        <4>2. Head(roomEvents) \in SaysOf(g, g \in present)
          BY <1>1, <2>4, <4>1
        <4>3. g \notin present
          BY <1>1, <1>2, <3>1, <4>2 DEF SaysOf, ThereSays
        <4> QED BY <1>1, <2>2, <3>1, <4>3
      <3>2. CASE g # Newcomer
        <4>1. Head(roomEvents) \notin NewsOfGuest(g)
          BY <1>1, <1>2, <3>2 DEF NewsOfGuest
        <4>2. Lacks(roomEvents, NewsOfGuest(g))
          BY <1>1, <2>4, <4>1, SaysFacts DEF SaysOf
        <4> QED BY <1>1, <2>2, <2>3, <3>2, <4>2
      <3> QED BY <3>1, <3>2
    <2> QED BY <1>2, <1>4, <2>2, <2>3, <2>4 DEF new
  <1> QED BY <1>3, <1>4

LEMMA ParticipantDisconnectedKeeps ==
  ASSUME PointersInv, ParticipantDisconnected PROVE PointersInv'
  <1>1. /\ NextEvent("disconnected")
        /\ overlay' = Update(overlay, Newcomer, RemoveParticipant)
        /\ controllers' = controllers \ {Newcomer}
        /\ screen' = Update(screen, Newcomer, RemoveParticipant)
    BY DEF ParticipantDisconnected
  <1>2. /\ controllers \subseteq Guests /\ GoodPicture(overlay) /\ GoodPicture(screen)
        /\ ~overlay.up => overlay = Down
        /\ overlay.up => controllers = Shows(overlay) \ {Me}
        /\ PictureTells(overlay) /\ PictureTells(screen)
    BY DEF PointersInv
  <1>3. /\ GoodPicture(overlay') /\ overlay'.up = overlay.up
        /\ Shows(overlay') = IF overlay.up THEN Shows(overlay) \ {Newcomer} ELSE Shows(overlay)
        /\ overlay.up => Me \in Shows(overlay')
        /\ overlay.up => \A g \in Guests :
             Lacks(roomEvents', NewsOfGuest(g)) => (g \in Shows(overlay') <=> g \in present')
    BY <1>1, <1>2, PictureHearsOfGone
  <1>4. /\ GoodPicture(screen') /\ screen'.up = screen.up
        /\ screen.up => Me \in Shows(screen')
        /\ screen.up => \A g \in Guests :
             Lacks(roomEvents', NewsOfGuest(g)) => (g \in Shows(screen') <=> g \in present')
    BY <1>1, <1>2, PictureHearsOfGone
  <1>5. ~overlay'.up => overlay' = Down
    <2>1. ~overlay.up => overlay' = overlay
      BY <1>1 DEF Update
    <2> QED BY <1>2, <1>3, <2>1
  <1>6. overlay'.up => controllers' = Shows(overlay') \ {Me}
    BY <1>1, <1>2, <1>3
  <1>7. controllers' \subseteq Guests
    BY <1>1, <1>2
  <1>8. PictureTells(overlay)' /\ PictureTells(screen)'
    BY <1>3, <1>4 DEF PictureTells
  <1> QED BY <1>1, <1>3, <1>4, <1>5, <1>6, <1>7, <1>8, AfterNews

LEMMA WindowOpensKeeps ==
  ASSUME PointersInv, WindowOpens PROVE PointersInv'
  <1>1. PICK order \in SetToSeqs(Head(roomEvents).who) : screen' = BuildInitialState(order)
    BY DEF WindowOpens
  <1>2. NextEvent("open") /\ overlay' = Down /\ controllers' = {}
    BY DEF WindowOpens, Cleared
  <1>3. /\ Head(roomEvents) \in AnyNews /\ Head(roomEvents).what = "open" /\ present' = present
        /\ \A g \in Guests :
              Lacks(roomEvents', NewsOfGuest(g)) =>
                \/ Lacks(roomEvents, NewsOfGuest(g)) /\ Head(roomEvents) \notin NewsOfGuest(g)
                \/ Head(roomEvents) \in SaysOf(g, g \in present)
    BY <1>2, NewsIsHeard
  <1>4. Head(roomEvents).who \subseteq Guests
    BY <1>3 DEF AnyNews, PersonNews, WindowNews
  <1>5. GoodPicture(screen') /\ screen'.up /\ Shows(screen') = Head(roomEvents).who \cup {Me}
    BY <1>1, <1>4, WindowIsBuilt
  <1>6. \A g \in Guests : Lacks(roomEvents', NewsOfGuest(g)) => (g \in Shows(screen') <=> g \in present')
    <2> TAKE g \in Guests
    <2> HAVE Lacks(roomEvents', NewsOfGuest(g))
    <2>1. Head(roomEvents) \in NewsOfGuest(g)
      BY <1>3 DEF NewsOfGuest
    <2>2. Head(roomEvents) \in SaysOf(g, g \in present)
      BY <1>3, <2>1
    <2>3. g \in Head(roomEvents).who <=> g \in present
      BY <1>3, <2>2 DEF SaysOf, ThereSays, GoneSays
    <2> QED BY <1>3, <1>5, <2>3, PointersAssumption
  <1>7. GoodPicture(overlay') /\ ~overlay'.up
    BY <1>2, DownFacts
  <1>8. PictureTells(overlay)' /\ PictureTells(screen)'
    BY <1>5, <1>6, <1>7 DEF PictureTells
  <1> QED BY <1>2, <1>5, <1>7, <1>8, AfterNews

LEMMA WindowClosesKeeps ==
  ASSUME PointersInv, WindowCloses PROVE PointersInv'
  <1>1. NextEvent("close") /\ screen' = Down /\ UNCHANGED <<overlay, controllers>>
    BY DEF WindowCloses
  <1>2. /\ Head(roomEvents) \in AnyNews /\ Head(roomEvents).what = "close" /\ present' = present
        /\ \A g \in Guests :
              Lacks(roomEvents', NewsOfGuest(g)) =>
                \/ Lacks(roomEvents, NewsOfGuest(g)) /\ Head(roomEvents) \notin NewsOfGuest(g)
                \/ Head(roomEvents) \in SaysOf(g, g \in present)
    BY <1>1, NewsIsHeard
  <1>3. \A g \in Guests : Lacks(roomEvents', NewsOfGuest(g)) => Lacks(roomEvents, NewsOfGuest(g))
    <2>1. \A g \in Guests : Head(roomEvents) \notin SaysOf(g, g \in present)
      BY <1>2 DEF SaysOf, ThereSays, GoneSays, NewsOfGuest
    <2> QED BY <1>2, <2>1
  <1>4. PictureTells(overlay)'
    BY <1>1, <1>2, <1>3 DEF PointersInv, PictureTells
  <1>5. PictureTells(screen)' /\ GoodPicture(screen')
    BY <1>1, DownFacts DEF PictureTells
  <1>6. /\ controllers' \subseteq Guests /\ GoodPicture(overlay')
        /\ ~overlay'.up => overlay' = Down
        /\ overlay'.up => controllers' = Shows(overlay') \ {Me}
    BY <1>1 DEF PointersInv
  <1> QED BY <1>1, <1>4, <1>5, <1>6, AfterNews

\* Where no event is sent or handled.
LEMMA NoNews ==
  ASSUME PointersInv, UNCHANGED <<present, roomEvents, comings>>, controllers' \subseteq Guests,
         screens' \in 0..MaxScreens,
         GoodPicture(overlay'), GoodPicture(screen'), ~overlay'.up => overlay' = Down,
         overlay'.up => controllers' = Shows(overlay') \ {Me},
         PictureTells(overlay)', PictureTells(screen)'
  PROVE  PointersInv'
  BY DEF PointersInv, EventsTellPresence

LEMMA SetsUpOverlayMakes ==
  ASSUME PointersInv, SetsUpOverlay(Down)
  PROVE  /\ UNCHANGED <<present, roomEvents, comings>> /\ screens' \in 0..MaxScreens
         /\ controllers' \subseteq Guests /\ controllers' = Shows(overlay') \ {Me}
         /\ GoodPicture(overlay') /\ overlay'.up /\ PictureTells(overlay)'
  <1>1. PICK order \in SetToSeqs(present) :
               overlay' = AddInOrder(AddParticipant([Down EXCEPT !.up = TRUE], Me), order)
    BY DEF SetsUpOverlay
  <1>2. /\ screens < MaxScreens /\ screens' = screens + 1 /\ controllers' = present
        /\ UNCHANGED <<present, roomEvents, comings>>
    BY DEF SetsUpOverlay
  <1>3. present \subseteq Guests /\ screens \in 0..MaxScreens
    BY DEF PointersInv
  <1>4. GoodPicture(overlay') /\ overlay'.up /\ Shows(overlay') = present \cup {Me}
    BY <1>1, <1>3, OverlayIsBuilt
  <1>5. PictureTells(overlay)'
    BY <1>2, <1>4, PointersAssumption DEF PictureTells
  <1>6. screens' \in 0..MaxScreens
    BY <1>2, <1>3, PointersAssumption
  <1> QED BY <1>2, <1>3, <1>4, <1>5, <1>6, PointersAssumption

LEMMA ShareStartsKeeps ==
  ASSUME PointersInv, ShareStarts PROVE PointersInv'
  <1>1. SetsUpOverlay(Down) /\ screen' = Down
    BY DEF ShareStarts, PointersInv
  <1>2. PictureTells(screen)' /\ GoodPicture(screen')
    BY <1>1, DownFacts DEF PictureTells
  <1> QED BY <1>1, <1>2, SetsUpOverlayMakes, NoNews

LEMMA OverlayMovesKeeps ==
  ASSUME PointersInv, OverlayMoves PROVE PointersInv'
  <1>1. SetsUpOverlay(Down) /\ UNCHANGED screen
    BY DEF OverlayMoves, Cleared
  <1>2. UNCHANGED <<present, roomEvents>>
    BY <1>1, SetsUpOverlayMakes
  <1>3. PictureTells(screen)' /\ GoodPicture(screen')
    BY <1>1, <1>2 DEF PointersInv, PictureTells
  <1> QED BY <1>1, <1>3, SetsUpOverlayMakes, NoNews

LEMMA ShareStopsKeeps ==
  ASSUME PointersInv, ShareStops PROVE PointersInv'
  <1>1. /\ overlay' = Down /\ controllers' = {}
        /\ UNCHANGED <<present, roomEvents, screen, comings, screens>>
    BY DEF ShareStops, Cleared
  <1>2. PictureTells(overlay)' /\ GoodPicture(overlay') /\ ~overlay'.up
    BY <1>1, DownFacts DEF PictureTells
  <1>3. PictureTells(screen)' /\ GoodPicture(screen') /\ screens' \in 0..MaxScreens
    BY <1>1 DEF PointersInv, PictureTells
  <1> QED BY <1>1, <1>2, <1>3, NoNews

LEMMA PointersInitially == PointersInit => PointersInv
  <1> SUFFICES ASSUME PointersInit PROVE PointersInv
    OBVIOUS
  <1>1. /\ present = {} /\ roomEvents = <<>> /\ overlay = Down /\ controllers = {} /\ screen = Down
        /\ comings = 0 /\ screens = 0
    BY DEF PointersInit
  <1>2. roomEvents \in Seq(AnyNews)
    BY <1>1, EmptySeq
  <1>3. EventsTellPresence
    BY <1>1, EmptyQueue DEF EventsTellPresence
  <1>4. 0 \in 0..MaxComings /\ 0 \in 0..MaxScreens
    BY PointersAssumption
  <1> QED BY <1>1, <1>2, <1>3, <1>4, DownFacts DEF PointersInv, PictureTells

LEMMA PointersInvariant ==
  ASSUME PointersInv, PointersNext \/ UNCHANGED pointerVars
  PROVE  PointersInv'
  <1>1. CASE UNCHANGED pointerVars
    BY <1>1 DEF PointersInv, EventsTellPresence, PictureTells, pointerVars
  <1>2. CASE PointersNext
    BY <1>2, GuestComesKeeps, GuestGoesKeeps, CollectRemoteParticipantsKeeps,
       GuestStopsSharingKeeps, ParticipantConnectedKeeps, ParticipantDisconnectedKeeps,
       WindowOpensKeeps, WindowClosesKeeps, ShareStartsKeeps, OverlayMovesKeeps, ShareStopsKeeps
       DEF PointersNext
  <1> QED BY <1>1, <1>2

LEMMA PointersShown == PointersInv => PointersTypeOK /\ PointersFollowRoom
  <1> SUFFICES ASSUME PointersInv PROVE PointersTypeOK /\ PointersFollowRoom
    OBVIOUS
  <1>1. roomEvents \in Seq(AnyNews) /\ GoodPicture(overlay) /\ GoodPicture(screen)
    BY DEF PointersInv
  <1>2. \A i \in DOMAIN roomEvents :
          /\ roomEvents[i].what \in {"connected", "disconnected", "open", "close"}
          /\ roomEvents[i].who \subseteq Guests
    <2> TAKE i \in DOMAIN roomEvents
    <2>1. roomEvents[i] \in AnyNews
      BY <1>1, LenProperties, ElementOfSeq
    <2> QED BY <2>1 DEF AnyNews, PersonNews, WindowNews
  <1>3. ASSUME NEW picture \in {overlay, screen}
        PROVE  /\ picture.up \in BOOLEAN /\ picture.ranOut \in BOOLEAN
               /\ Shows(picture) \subseteq Guests \cup {Me}
               /\ \A p \in Shows(picture) : picture.pointers[p].color \in Colors
               /\ ToSet(picture.pool) \subseteq Colors
    <2>1. IsPicture(picture)
      BY <1>1 DEF GoodPicture
    <2>2. ToSet(picture.pool) \subseteq Colors
      <3>1. picture.pool \in Seq(Colors)
        BY <2>1 DEF IsPicture
      <3>2. \A i \in DOMAIN picture.pool : picture.pool[i] \in Colors
        BY <3>1, LenProperties, ElementOfSeq
      <3> QED BY <3>2 DEF ToSet
    <2> QED BY <2>1, <2>2 DEF IsPicture
  <1>4. PointersTypeOK
    BY <1>2, <1>3 DEF PointersTypeOK, PointersInv
  <1>5. ASSUME NEW picture \in {overlay, screen}, picture.up
        PROVE  /\ roomEvents = <<>> => Shows(picture) = present \cup {Me}
               /\ ToldApart(picture, "name")
               /\ ~picture.ranOut => ToldApart(picture, "color")
               /\ picture = overlay => controllers = Shows(overlay) \ {Me}
    <2>1. ToldApart(picture, "name") /\ (~picture.ranOut => ToldApart(picture, "color"))
      BY <1>1 DEF GoodPicture, ColorsAreKept
    <2>2. PictureTells(picture) /\ present \subseteq Guests
      BY DEF PointersInv
    <2>3. roomEvents = <<>> => Shows(picture) = present \cup {Me}
      BY <1>3, <1>5, <2>2, EmptyQueue DEF PictureTells
    <2>4. picture = overlay => controllers = Shows(overlay) \ {Me}
      BY <1>5 DEF PointersInv
    <2> QED BY <2>1, <2>3, <2>4
  <1>6. PointersFollowRoom
    BY <1>5 DEF PointersFollowRoom
  <1> QED BY <1>4, <1>6

--------------------------------------------------------------------------------
(* When the overlay is drawn (Redraw). *)

\* A frame takes at most a period once the thread no longer skips activities.
Period == Interval + Lag

\* How long it may take until the next frame if nothing more is heard, and whatever is.
NextFrame == IF asked THEN Lag - askedFor ELSE (Interval - waited) + Lag
NextFrameYet ==
  IF asked THEN Lag - askedFor
  ELSE (IF sinceActivity < Interval THEN 2 * Interval - sinceActivity ELSE Interval - waited) + Lag

\* The frames that may not be enough when l were lost and c clicks are sent: those that will
\* be lost, and those that begin only some of the clicks.
ToBeLost(l) == (MaxLost - l) * Period
NotEnough(l, c) == ((MaxLost - l) + (IF c > 1 THEN c - 1 ELSE 0)) * Period
AllDrawn == Interval + (MaxLost + MaxClicks + 1) * Period

LongestWait == 2 * Interval + Lag
LostWaits(l) == (MaxLost - l) * LongestWait

RedrawTypes ==
  /\ signals \in Nat /\ sinceActivity \in 0..(RestsAfter + 1) /\ waited \in 0..Interval
  /\ asked \in BOOLEAN /\ askedFor \in 0..Lag
  /\ spot \in [Pointing -> 0..MaxSpots] /\ showing \subseteq Pointing
  /\ shownFor \in [Pointing -> 0..(HidesAfter + 1)]
  /\ clicksSent \in Nat /\ clicked \in 0..MaxClicks /\ clicksSent <= clicked
  /\ ripples \in Seq(0..(RippleTime + 1)) /\ Len(ripples) <= MaxAnimations
  /\ canvas = [pointers |-> canvas.pointers, ripples |-> Len(ripples)]
  /\ canvas.pointers \in [Pointing -> 0..MaxSpots]
  /\ behind \in Nat /\ lost \in 0..MaxLost

\* The ripples are in the order in which they began.
OldestFirst(ages) == \A i, j \in DOMAIN ages : i < j => ages[i] >= ages[j]

\* Once the thread has heard all activities: what there is to draw, to end or to hide began so
\* soon after the last that was accepted that the thread does not rest before it is done.
ChangesAreDrawn ==
  /\ behind > 0 => sinceActivity <= AllDrawn
  /\ ~UpToDate => sinceActivity + NextFrame + NotEnough(lost, clicksSent) <= AllDrawn
RipplesEnd ==
  \A i \in DOMAIN ripples :
    IF ripples[i] <= RippleTime THEN sinceActivity + ToBeLost(lost) <= ripples[i] + AllDrawn
    ELSE sinceActivity + NextFrame + ToBeLost(lost) <= RippleTime + 1 + AllDrawn + Period
StoppedAreHidden ==
  \A p \in showing :
    IF shownFor[p] <= HidesAfter THEN sinceActivity <= shownFor[p] + Interval
    ELSE sinceActivity + NextFrame <= HidesAfter + 1 + Interval + Period
HeardAll == ChangesAreDrawn /\ RipplesEnd /\ StoppedAreHidden

DrawnInTime == behind + NextFrameYet + LostWaits(lost) <= Patience

RedrawInv == RedrawTypes /\ OldestFirst(ripples) /\ DrawnInTime /\ (signals = 0 => HeardAll)

LEMMA RedrawNumbers ==
  /\ Interval \in Nat \ {0} /\ Lag \in Nat /\ RippleTime \in Nat /\ HidesAfter \in Nat
  /\ RestsAfter \in Nat /\ MaxAnimations \in Nat \ {0} /\ IsFiniteSet(Pointing)
  /\ MaxLost \in Nat /\ MaxSpots \in Nat /\ MaxClicks \in Nat
  /\ Period \in Nat /\ Period = Interval + Lag /\ AllDrawn \in Nat /\ Interval <= AllDrawn
  /\ LongestWait \in Nat /\ LongestWait = 2 * Interval + Lag
  /\ RippleTime + 1 + AllDrawn + Period <= RestsAfter
  /\ HidesAfter + 1 + Interval + Period <= RestsAfter
  <1>1. /\ Interval \in Nat \ {0} /\ Lag \in Nat /\ RippleTime \in Nat /\ HidesAfter \in Nat
        /\ RestsAfter \in Nat /\ MaxAnimations \in Nat \ {0} /\ IsFiniteSet(Pointing)
        /\ MaxLost \in Nat /\ MaxSpots \in Nat /\ MaxClicks \in Nat
        /\ RestsAfter > HidesAfter + 2 * Interval + Lag
        /\ RestsAfter > RippleTime + Interval + (MaxLost + MaxClicks + 2) * Period
    BY RedrawAssumption DEF Period
  <1>2. Period \in Nat /\ Period = Interval + Lag
    BY <1>1 DEF Period
  <1> DEFINE n == MaxLost + MaxClicks + 1
  <1>3. n \in Nat /\ MaxLost + MaxClicks + 2 = n + 1
    BY <1>1
  <1> HIDE DEF n
  <1>4. n * Period \in Nat /\ (n + 1) * Period = n * Period + Period
    BY <1>2, <1>3, Products
  <1>5. AllDrawn = Interval + n * Period
    BY DEF AllDrawn, n
  <1>6. RestsAfter > RippleTime + Interval + (n * Period + Period)
    BY <1>1, <1>3, <1>4
  <1>7. AllDrawn \in Nat /\ Interval <= AllDrawn
    BY <1>1, <1>4, <1>5
  <1>8. RippleTime + 1 + AllDrawn + Period <= RestsAfter
    BY <1>1, <1>2, <1>4, <1>5, <1>6
  <1>9. HidesAfter + 1 + Interval + Period <= RestsAfter
    BY <1>1, <1>2
  <1>10. LongestWait \in Nat /\ LongestWait = 2 * Interval + Lag
    BY <1>1 DEF LongestWait
  <1> QED BY <1>1, <1>2, <1>7, <1>8, <1>9, <1>10

LEMMA FrameNumbers ==
  ASSUME NEW l \in 0..MaxLost, NEW c \in Nat, c <= MaxClicks
  PROVE  /\ ToBeLost(l) \in Nat /\ NotEnough(l, c) \in Nat /\ ToBeLost(l) <= NotEnough(l, c)
         /\ NotEnough(l, c) + Interval + Period <= AllDrawn
         /\ l < MaxLost => /\ ToBeLost(l + 1) + Period = ToBeLost(l)
                           /\ NotEnough(l + 1, c) + Period = NotEnough(l, c)
                           /\ LostWaits(l + 1) + LongestWait = LostWaits(l)
         /\ \A d \in Nat : 1 <= d /\ d < c => NotEnough(l, d) + Period <= NotEnough(l, c)
         /\ LostWaits(l) \in Nat /\ LostWaits(l) + LongestWait <= Patience /\ Patience \in Nat
  <1> DEFINE extra(d) == IF d > 1 THEN d - 1 ELSE 0
             left == MaxLost - l
             few == left + extra(c)
             most == MaxLost + MaxClicks
  <1>1. /\ Period \in Nat /\ LongestWait \in Nat /\ MaxLost \in Nat /\ MaxClicks \in Nat
        /\ Interval \in Nat /\ LongestWait = 2 * Interval + Lag /\ Lag \in Nat
    BY RedrawNumbers
  <1>2. left \in Nat /\ few \in Nat /\ left <= few /\ few <= most /\ most \in Nat /\ left <= MaxLost
    BY <1>1
  <1>3. ToBeLost(l) = left * Period /\ NotEnough(l, c) = few * Period /\ LostWaits(l) = left * LongestWait
    BY DEF ToBeLost, NotEnough, LostWaits
  <1>4. AllDrawn = Interval + (most + 1) * Period /\ Patience = (MaxLost + 1) * LongestWait
    BY DEF AllDrawn, Patience, LongestWait
  <1>5. l < MaxLost =>
          /\ ToBeLost(l + 1) = (left - 1) * Period /\ NotEnough(l + 1, c) = (few - 1) * Period
          /\ LostWaits(l + 1) = (left - 1) * LongestWait
          /\ left - 1 \in Nat /\ few - 1 \in Nat /\ left - 1 + 1 = left /\ few - 1 + 1 = few
    <2> SUFFICES ASSUME l < MaxLost
                 PROVE  /\ ToBeLost(l + 1) = (left - 1) * Period
                        /\ NotEnough(l + 1, c) = (few - 1) * Period
                        /\ LostWaits(l + 1) = (left - 1) * LongestWait
                        /\ left - 1 \in Nat /\ few - 1 \in Nat
                        /\ left - 1 + 1 = left /\ few - 1 + 1 = few
      OBVIOUS
    <2>1. MaxLost - (l + 1) = left - 1 /\ (MaxLost - (l + 1)) + extra(c) = few - 1
      BY <1>1
    <2>2. left - 1 \in Nat /\ few - 1 \in Nat /\ left - 1 + 1 = left /\ few - 1 + 1 = few
      BY <1>1
    <2>3. NotEnough(l + 1, c) = ((MaxLost - (l + 1)) + extra(c)) * Period
      BY DEF NotEnough
    <2>4. ToBeLost(l + 1) = (MaxLost - (l + 1)) * Period /\ LostWaits(l + 1) = (MaxLost - (l + 1)) * LongestWait
      BY DEF ToBeLost, LostWaits
    <2> HIDE DEF extra, few, left
    <2> QED BY <2>1, <2>2, <2>3, <2>4
  <1>6. ASSUME NEW d \in Nat, 1 <= d, d < c
        PROVE  NotEnough(l, d) + Period <= NotEnough(l, c)
    <2> DEFINE fewer == left + extra(d)
    <2>1. NotEnough(l, d) = fewer * Period
      BY DEF NotEnough
    <2>2. fewer \in Nat /\ fewer + 1 <= few /\ fewer + 1 \in Nat
      BY <1>1, <1>6
    <2> HIDE DEF fewer, few
    <2>3. (fewer + 1) * Period = fewer * Period + Period /\ (fewer + 1) * Period <= few * Period
      BY <1>1, <1>2, <2>2, Products
    <2> QED BY <1>3, <2>1, <2>3
  <1> HIDE DEF extra, left, few, most
  <1>7. /\ left * Period \in Nat /\ few * Period \in Nat /\ left * Period <= few * Period
        /\ few * Period <= most * Period /\ (most + 1) * Period = most * Period + Period
        /\ most * Period \in Nat
    BY <1>1, <1>2, Products
  <1>8. /\ left * LongestWait \in Nat /\ left * LongestWait <= MaxLost * LongestWait
        /\ (MaxLost + 1) * LongestWait = MaxLost * LongestWait + LongestWait
        /\ MaxLost * LongestWait \in Nat
    BY <1>1, <1>2, Products
  <1>9. ASSUME l < MaxLost
        PROVE  /\ (left - 1) * Period + Period = left * Period
               /\ (few - 1) * Period + Period = few * Period
               /\ (left - 1) * LongestWait + LongestWait = left * LongestWait
    <2> DEFINE lessLeft == left - 1
               lessFew == few - 1
    <2>1. lessLeft \in Nat /\ lessFew \in Nat /\ lessLeft + 1 = left /\ lessFew + 1 = few
      BY <1>5, <1>9
    <2> HIDE DEF lessLeft, lessFew
    <2>2. /\ (lessLeft + 1) * Period = lessLeft * Period + Period
          /\ (lessFew + 1) * Period = lessFew * Period + Period
          /\ (lessLeft + 1) * LongestWait = lessLeft * LongestWait + LongestWait
      BY <1>1, <2>1, Products
    <2> QED BY <2>1, <2>2 DEF lessLeft, lessFew
  <1>10. NotEnough(l, c) + Interval + Period <= AllDrawn
    BY <1>1, <1>3, <1>4, <1>7
  <1>11. LostWaits(l) + LongestWait <= Patience /\ Patience \in Nat
    BY <1>1, <1>3, <1>4, <1>8
  <1> QED BY <1>3, <1>5, <1>6, <1>7, <1>8, <1>9, <1>10, <1>11

\* The types, number by number.
LEMMA RedrawFacts ==
  RedrawTypes => /\ signals \in Nat /\ sinceActivity \in Nat /\ sinceActivity <= RestsAfter + 1
                 /\ waited \in Nat /\ waited <= Interval /\ asked \in BOOLEAN
                 /\ askedFor \in Nat /\ askedFor <= Lag
                 /\ clicksSent \in Nat /\ clicksSent <= MaxClicks /\ behind \in Nat
                 /\ lost \in 0..MaxLost /\ showing \subseteq Pointing
                 /\ Len(ripples) \in Nat /\ DOMAIN ripples = 1..Len(ripples)
                 /\ \A i \in DOMAIN ripples : ripples[i] \in Nat /\ ripples[i] <= RippleTime + 1
                 /\ \A p \in Pointing : shownFor[p] \in Nat /\ shownFor[p] <= HidesAfter + 1
  <1> SUFFICES ASSUME RedrawTypes
               PROVE  /\ signals \in Nat /\ sinceActivity \in Nat /\ sinceActivity <= RestsAfter + 1
                      /\ waited \in Nat /\ waited <= Interval /\ asked \in BOOLEAN
                      /\ askedFor \in Nat /\ askedFor <= Lag
                      /\ clicksSent \in Nat /\ clicksSent <= MaxClicks /\ behind \in Nat
                      /\ lost \in 0..MaxLost /\ showing \subseteq Pointing
                      /\ Len(ripples) \in Nat /\ DOMAIN ripples = 1..Len(ripples)
                      /\ \A i \in DOMAIN ripples : ripples[i] \in Nat /\ ripples[i] <= RippleTime + 1
                      /\ \A p \in Pointing : shownFor[p] \in Nat /\ shownFor[p] <= HidesAfter + 1
    OBVIOUS
  <1>1. /\ RestsAfter \in Nat /\ Interval \in Nat /\ Lag \in Nat /\ MaxClicks \in Nat
        /\ RippleTime \in Nat /\ HidesAfter \in Nat /\ MaxLost \in Nat
    BY RedrawNumbers
  <1>2. /\ signals \in Nat /\ sinceActivity \in 0..(RestsAfter + 1) /\ waited \in 0..Interval
        /\ asked \in BOOLEAN /\ askedFor \in 0..Lag /\ clicksSent \in Nat /\ behind \in Nat
        /\ clicked \in 0..MaxClicks /\ clicksSent <= clicked /\ lost \in 0..MaxLost
        /\ showing \subseteq Pointing
    BY DEF RedrawTypes
  <1>3. /\ sinceActivity \in Nat /\ sinceActivity <= RestsAfter + 1
        /\ waited \in Nat /\ waited <= Interval /\ askedFor \in Nat /\ askedFor <= Lag
        /\ clicksSent <= MaxClicks
    BY <1>1, <1>2
  <1>4. Len(ripples) \in Nat /\ DOMAIN ripples = 1..Len(ripples)
        /\ \A i \in 1..Len(ripples) : ripples[i] \in 0..(RippleTime + 1)
    <2>1. ripples \in Seq(0..(RippleTime + 1))
      BY DEF RedrawTypes
    <2> QED BY <2>1, LenProperties, ElementOfSeq
  <1>5. \A i \in 1..Len(ripples) : ripples[i] \in Nat /\ ripples[i] <= RippleTime + 1
    BY <1>1, <1>4
  <1>6. \A p \in Pointing : shownFor[p] \in Nat /\ shownFor[p] <= HidesAfter + 1
    <2>1. \A p \in Pointing : shownFor[p] \in 0..(HidesAfter + 1)
      BY DEF RedrawTypes
    <2> QED BY <1>1, <2>1
  <1> QED BY <1>2, <1>3, <1>4, <1>5, <1>6

LEMMA FrameTimes ==
  RedrawTypes => /\ NextFrame \in Nat /\ NextFrame <= Period
                 /\ NextFrameYet \in Nat /\ NextFrameYet <= LongestWait
  <1> SUFFICES ASSUME RedrawTypes
               PROVE  /\ NextFrame \in Nat /\ NextFrame <= Period
                      /\ NextFrameYet \in Nat /\ NextFrameYet <= LongestWait
    OBVIOUS
  <1>1. /\ waited \in 0..Interval /\ asked \in BOOLEAN /\ askedFor \in 0..Lag
        /\ sinceActivity \in 0..(RestsAfter + 1)
    BY DEF RedrawTypes
  <1>2. CASE asked
    BY <1>1, <1>2, RedrawNumbers DEF NextFrame, NextFrameYet
  <1>3. CASE ~asked
    <2>1. NextFrame = (Interval - waited) + Lag
      BY <1>3 DEF NextFrame
    <2>2. NextFrameYet = (IF sinceActivity < Interval THEN 2 * Interval - sinceActivity
                          ELSE Interval - waited) + Lag
      BY <1>3 DEF NextFrameYet
    <2> QED BY <1>1, <2>1, <2>2, RedrawNumbers
  <1> QED BY <1>1, <1>2, <1>3

LEMMA FrameTimesNext == (RedrawTypes => /\ NextFrame \in Nat /\ NextFrame <= Period
                                        /\ NextFrameYet \in Nat /\ NextFrameYet <= LongestWait)'
  BY FrameTimes, PTL

\* Within an interval of the last activity that was accepted it is as good as new.
LEMMA HeardLately == RedrawTypes /\ sinceActivity < Interval => HeardAll
  <1> SUFFICES ASSUME RedrawTypes, sinceActivity < Interval PROVE HeardAll
    OBVIOUS
  <1>1. /\ sinceActivity \in Nat /\ clicksSent \in Nat /\ clicksSent <= MaxClicks
        /\ lost \in 0..MaxLost /\ behind \in Nat /\ showing \subseteq Pointing
    BY RedrawFacts
  <1>2. /\ Interval \in Nat /\ Period \in Nat /\ AllDrawn \in Nat /\ Interval <= AllDrawn
        /\ RippleTime \in Nat /\ HidesAfter \in Nat
    BY RedrawNumbers
  <1>3. NextFrame \in Nat /\ NextFrame <= Period
    BY FrameTimes
  <1>4. /\ ToBeLost(lost) \in Nat /\ NotEnough(lost, clicksSent) \in Nat
        /\ ToBeLost(lost) <= NotEnough(lost, clicksSent)
        /\ NotEnough(lost, clicksSent) + Interval + Period <= AllDrawn
    BY <1>1, FrameNumbers
  <1>5. ChangesAreDrawn
    BY <1>1, <1>2, <1>3, <1>4 DEF ChangesAreDrawn
  <1>6. RipplesEnd
    <2> SUFFICES ASSUME NEW i \in DOMAIN ripples
                 PROVE  IF ripples[i] <= RippleTime
                        THEN sinceActivity + ToBeLost(lost) <= ripples[i] + AllDrawn
                        ELSE sinceActivity + NextFrame + ToBeLost(lost)
                               <= RippleTime + 1 + AllDrawn + Period
      BY DEF RipplesEnd
    <2>1. ripples[i] \in Nat
      BY RedrawFacts
    <2> QED BY <1>1, <1>2, <1>3, <1>4, <2>1
  <1>7. StoppedAreHidden
    <2> SUFFICES ASSUME NEW p \in showing
                 PROVE  IF shownFor[p] <= HidesAfter THEN sinceActivity <= shownFor[p] + Interval
                        ELSE sinceActivity + NextFrame <= HidesAfter + 1 + Interval + Period
      BY DEF StoppedAreHidden
    <2>1. shownFor[p] \in Nat
      BY <1>1, RedrawFacts
    <2> QED BY <1>1, <1>2, <1>3, <2>1
  <1> QED BY <1>5, <1>6, <1>7 DEF HeardAll

LEMMA HeardLatelyNext == (RedrawTypes /\ sinceActivity < Interval => HeardAll)'
  BY HeardLately, PTL

\* Something changes, and the thread is told.
LEMMA ActivityKeeps ==
  ASSUME RedrawInv, Activity, ElseSame,
         spot' \in [Pointing -> 0..MaxSpots], showing' \subseteq Pointing,
         shownFor' \in [Pointing -> 0..(HidesAfter + 1)],
         clicksSent' \in Nat, clicked' \in 0..MaxClicks, clicksSent' <= clicked', UNCHANGED ripples
  PROVE  RedrawInv'
  <1>1. /\ signals' = signals + 1 /\ signals \in Nat
        /\ UNCHANGED <<sinceActivity, waited, asked, askedFor, canvas, behind, lost, ripples>>
    BY DEF Activity, ElseSame, threadVars, canvasVars, RedrawInv, RedrawTypes
  <1>2. RedrawTypes'
    BY <1>1 DEF RedrawInv, RedrawTypes
  <1>3. DrawnInTime' /\ OldestFirst(ripples')
    BY <1>1 DEF RedrawInv, DrawnInTime, NextFrameYet
  <1>4. signals' # 0
    BY <1>1
  <1> QED BY <1>2, <1>3, <1>4 DEF RedrawInv

LEMMA SetPositionKeeps ==
  ASSUME RedrawInv, NEW p \in Pointing, SetPosition(p) PROVE RedrawInv'
  <1>1. /\ spot[p] < MaxSpots /\ spot' = [spot EXCEPT ![p] = @ + 1]
        /\ showing' = showing \cup {p} /\ shownFor' = [shownFor EXCEPT ![p] = 0]
        /\ Activity /\ ElseSame /\ UNCHANGED <<clicksSent, ripples, clicked>>
    BY DEF SetPosition, clickVars
  <1>2. /\ spot \in [Pointing -> 0..MaxSpots] /\ showing \subseteq Pointing
        /\ shownFor \in [Pointing -> 0..(HidesAfter + 1)]
        /\ clicksSent \in Nat /\ clicked \in 0..MaxClicks /\ clicksSent <= clicked
    BY DEF RedrawInv, RedrawTypes
  <1>3. spot[p] + 1 \in 0..MaxSpots /\ 0 \in 0..(HidesAfter + 1)
    BY <1>1, <1>2, RedrawNumbers
  <1>4. spot' \in [Pointing -> 0..MaxSpots] /\ shownFor' \in [Pointing -> 0..(HidesAfter + 1)]
    BY <1>1, <1>2, <1>3
  <1> QED BY <1>1, <1>2, <1>4, ActivityKeeps

LEMMA HideKeeps ==
  ASSUME RedrawInv, NEW p \in Pointing, Hide(p) PROVE RedrawInv'
  <1>1. /\ showing' = showing \ {p} /\ shownFor' = [shownFor EXCEPT ![p] = 0]
        /\ Activity /\ ElseSame /\ UNCHANGED <<spot, clicksSent, ripples, clicked>>
    BY DEF Hide, clickVars
  <1>2. /\ spot \in [Pointing -> 0..MaxSpots] /\ showing \subseteq Pointing
        /\ shownFor \in [Pointing -> 0..(HidesAfter + 1)]
        /\ clicksSent \in Nat /\ clicked \in 0..MaxClicks /\ clicksSent <= clicked
    BY DEF RedrawInv, RedrawTypes
  <1>3. 0 \in 0..(HidesAfter + 1)
    BY RedrawNumbers
  <1>4. shownFor' \in [Pointing -> 0..(HidesAfter + 1)] /\ showing' \subseteq Pointing
    BY <1>1, <1>2, <1>3
  <1> QED BY <1>1, <1>2, <1>4, ActivityKeeps

LEMMA TriggerClickAnimationKeeps ==
  ASSUME RedrawInv, TriggerClickAnimation PROVE RedrawInv'
  <1>1. /\ clicked < MaxClicks /\ clicked' = clicked + 1 /\ clicksSent' = clicksSent + 1
        /\ Activity /\ ElseSame /\ UNCHANGED <<spot, showing, shownFor, ripples>>
    BY DEF TriggerClickAnimation, stateVars
  <1>2. /\ spot \in [Pointing -> 0..MaxSpots] /\ showing \subseteq Pointing
        /\ shownFor \in [Pointing -> 0..(HidesAfter + 1)]
        /\ clicksSent \in Nat /\ clicked \in 0..MaxClicks /\ clicksSent <= clicked
    BY DEF RedrawInv, RedrawTypes
  <1>3. clicked' \in 0..MaxClicks /\ clicksSent' \in Nat /\ clicksSent' <= clicked'
    BY <1>1, <1>2, RedrawNumbers
  <1> QED BY <1>1, <1>2, <1>3, ActivityKeeps

LEMMA ThreadHearsKeeps ==
  ASSUME RedrawInv, ThreadHears PROVE RedrawInv'
  <1>1. /\ signals > 0 /\ signals' = signals - 1 /\ waited' = 0
        /\ UNCHANGED <<spot, showing, shownFor, clicksSent, ripples, clicked, canvas, behind, lost>>
        /\ \/ sinceActivity < Interval /\ UNCHANGED <<sinceActivity, asked, askedFor>>
           \/ /\ ~(sinceActivity < Interval) /\ sinceActivity' = 0 /\ asked' = TRUE
              /\ askedFor' = IF asked THEN askedFor ELSE 0
    BY DEF ThreadHears, Accepts, Request, stateVars, clickVars, canvasVars
  <1>2. /\ signals \in Nat /\ sinceActivity \in 0..(RestsAfter + 1) /\ waited \in 0..Interval
        /\ asked \in BOOLEAN /\ askedFor \in 0..Lag
    BY DEF RedrawInv, RedrawTypes
  <1>3. /\ signals' \in Nat /\ sinceActivity' \in 0..(RestsAfter + 1) /\ waited' \in 0..Interval
        /\ asked' \in BOOLEAN /\ askedFor' \in 0..Lag /\ sinceActivity' < Interval
    <2>1. /\ Interval \in Nat \ {0} /\ RestsAfter \in Nat /\ Lag \in Nat
      BY RedrawNumbers
    <2>2. 0 \in 0..Interval /\ 0 \in 0..Lag /\ 0 \in 0..(RestsAfter + 1) /\ 0 < Interval
      BY <2>1
    <2>3. signals' \in Nat
      BY <1>1, <1>2
    <2>4. CASE sinceActivity < Interval /\ UNCHANGED <<sinceActivity, asked, askedFor>>
      BY <1>1, <1>2, <2>2, <2>3, <2>4
    <2>5. CASE /\ ~(sinceActivity < Interval) /\ sinceActivity' = 0 /\ asked' = TRUE
               /\ askedFor' = IF asked THEN askedFor ELSE 0
      BY <1>1, <1>2, <2>2, <2>3, <2>5
    <2> QED BY <1>1, <2>4, <2>5
  <1>4. RedrawTypes'
    BY <1>1, <1>3 DEF RedrawInv, RedrawTypes
  <1>5. HeardAll'
    BY <1>3, <1>4, HeardLatelyNext
  <1>6. NextFrameYet' <= NextFrameYet /\ NextFrameYet' \in Nat /\ NextFrameYet \in Nat
    <2>1. NextFrameYet' \in Nat /\ NextFrameYet \in Nat
      BY <1>4, FrameTimes, FrameTimesNext DEF RedrawInv
    <2>2. CASE sinceActivity < Interval
      BY <1>1, <2>1, <2>2 DEF NextFrameYet
    <2>3. CASE ~(sinceActivity < Interval) /\ asked
      <3>1. asked' = TRUE /\ askedFor' = askedFor
        BY <1>1, <2>3
      <3>2. NextFrameYet' = Lag - askedFor /\ NextFrameYet = Lag - askedFor
        BY <2>3, <3>1 DEF NextFrameYet
      <3> QED BY <2>1, <3>2
    <2>4. CASE ~(sinceActivity < Interval) /\ ~asked
      <3>1. NextFrameYet' = Lag - 0 /\ NextFrameYet = (Interval - waited) + Lag
        BY <1>1, <2>4 DEF NextFrameYet
      <3> QED BY <1>2, <3>1, RedrawNumbers
    <2> QED BY <2>2, <2>3, <2>4
  <1>7. DrawnInTime'
    <2>1. behind \in Nat /\ LostWaits(lost) \in Nat /\ Patience \in Nat
      <3>1. clicksSent \in Nat /\ clicksSent <= MaxClicks /\ lost \in 0..MaxLost /\ behind \in Nat
        BY RedrawFacts DEF RedrawInv
      <3> QED BY <3>1, FrameNumbers
    <2>2. behind + NextFrameYet + LostWaits(lost) <= Patience
      BY DEF RedrawInv, DrawnInTime
    <2>3. behind' = behind /\ lost' = lost
      BY <1>1
    <2> QED BY <1>6, <2>1, <2>2, <2>3 DEF DrawnInTime
  <1>8. OldestFirst(ripples')
    BY <1>1 DEF RedrawInv
  <1> QED BY <1>4, <1>5, <1>7, <1>8 DEF RedrawInv

\* The thread rests only when there is nothing left to do.
LEMMA NothingWhenResting ==
  ASSUME RedrawInv, signals = 0, sinceActivity > RestsAfter
  PROVE  UpToDate /\ showing = {} /\ ripples = <<>> /\ behind = 0
  <1>1. RedrawTypes /\ ChangesAreDrawn /\ RipplesEnd /\ StoppedAreHidden
    BY DEF RedrawInv, HeardAll
  <1>2. /\ sinceActivity \in Nat /\ clicksSent \in Nat /\ clicksSent <= MaxClicks
        /\ lost \in 0..MaxLost /\ behind \in Nat /\ showing \subseteq Pointing
        /\ Len(ripples) \in Nat /\ DOMAIN ripples = 1..Len(ripples)
        /\ \A i \in DOMAIN ripples : ripples[i] \in Nat /\ ripples[i] <= RippleTime + 1
        /\ \A p \in Pointing : shownFor[p] \in Nat /\ shownFor[p] <= HidesAfter + 1
    BY <1>1, RedrawFacts
  <1>3. /\ Interval \in Nat /\ Period \in Nat /\ AllDrawn \in Nat /\ RestsAfter \in Nat
        /\ RippleTime \in Nat /\ HidesAfter \in Nat
        /\ RippleTime + 1 + AllDrawn + Period <= RestsAfter
        /\ HidesAfter + 1 + Interval + Period <= RestsAfter
    BY RedrawNumbers
  <1>4. NextFrame \in Nat
    BY <1>1, FrameTimes
  <1>5. ToBeLost(lost) \in Nat /\ NotEnough(lost, clicksSent) \in Nat
    BY <1>2, FrameNumbers
  <1>6. behind = 0
    BY <1>1, <1>2, <1>3 DEF ChangesAreDrawn
  <1>7. UpToDate
    BY <1>1, <1>2, <1>3, <1>4, <1>5 DEF ChangesAreDrawn
  <1>8. ripples = <<>>
    <2>1. \A i \in DOMAIN ripples : FALSE
      <3> SUFFICES ASSUME NEW i \in DOMAIN ripples PROVE FALSE
        OBVIOUS
      <3>1. IF ripples[i] <= RippleTime THEN sinceActivity + ToBeLost(lost) <= ripples[i] + AllDrawn
            ELSE sinceActivity + NextFrame + ToBeLost(lost) <= RippleTime + 1 + AllDrawn + Period
        BY <1>1 DEF RipplesEnd
      <3>2. ripples[i] \in Nat
        BY <1>2
      <3> QED BY <1>2, <1>3, <1>4, <1>5, <3>1, <3>2
    <2>2. Len(ripples) = 0
      BY <1>2, <2>1
    <2>3. ripples \in Seq(0..(RippleTime + 1))
      BY <1>1 DEF RedrawTypes
    <2> QED BY <2>2, <2>3, EmptySeq
  <1>9. showing = {}
    <2> SUFFICES ASSUME NEW p \in showing PROVE FALSE
      OBVIOUS
    <2>1. IF shownFor[p] <= HidesAfter THEN sinceActivity <= shownFor[p] + Interval
          ELSE sinceActivity + NextFrame <= HidesAfter + 1 + Interval + Period
      BY <1>1 DEF StoppedAreHidden
    <2>2. shownFor[p] \in Nat
      BY <1>2
    <2> QED BY <1>2, <1>3, <1>4, <2>1, <2>2
  <1> QED BY <1>6, <1>7, <1>8, <1>9

LEMMA ThreadTimesOutKeeps ==
  ASSUME RedrawInv, ThreadTimesOut PROVE RedrawInv'
  <1>1. /\ signals = 0 /\ waited = Interval /\ waited' = 0
        /\ UNCHANGED <<signals, sinceActivity, spot, showing, shownFor, clicksSent, ripples, clicked,
                       canvas, behind, lost>>
        /\ IF sinceActivity > RestsAfter THEN UNCHANGED <<asked, askedFor>>
           ELSE asked' = TRUE /\ askedFor' = IF asked THEN askedFor ELSE 0
    BY DEF ThreadTimesOut, Request, stateVars, clickVars, canvasVars
  <1>2. /\ sinceActivity \in Nat /\ asked \in BOOLEAN /\ askedFor \in Nat /\ askedFor <= Lag
        /\ clicksSent \in Nat /\ clicksSent <= MaxClicks /\ lost \in 0..MaxLost /\ behind \in Nat
        /\ askedFor \in 0..Lag
    BY RedrawFacts DEF RedrawInv, RedrawTypes
  <1>3. Interval \in Nat \ {0} /\ Lag \in Nat /\ RestsAfter \in Nat
    BY RedrawNumbers
  <1>4. waited' \in 0..Interval /\ asked' \in BOOLEAN /\ askedFor' \in 0..Lag
    <2>1. 0 \in 0..Interval /\ 0 \in 0..Lag
      BY <1>3
    <2>2. CASE sinceActivity > RestsAfter
      BY <1>1, <1>2, <2>1, <2>2
    <2>3. CASE ~(sinceActivity > RestsAfter)
      BY <1>1, <1>2, <2>1, <2>3
    <2> QED BY <2>2, <2>3
  <1>5. RedrawTypes' /\ OldestFirst(ripples')
    BY <1>1, <1>4 DEF RedrawInv, RedrawTypes
  <1>6. /\ NextFrame \in Nat /\ NextFrameYet \in Nat /\ NextFrame' \in Nat /\ NextFrameYet' \in Nat
        /\ NextFrameYet' <= LongestWait
    BY <1>5, FrameTimes, FrameTimesNext DEF RedrawInv
  <1>7. /\ LostWaits(lost) \in Nat /\ LostWaits(lost) + LongestWait <= Patience /\ Patience \in Nat
        /\ ToBeLost(lost) \in Nat /\ NotEnough(lost, clicksSent) \in Nat
    BY <1>2, FrameNumbers
  <1>8. CASE sinceActivity > RestsAfter
    <2>1. UpToDate /\ showing = {} /\ ripples = <<>> /\ behind = 0
      BY <1>1, <1>8, NothingWhenResting
    <2>2. UpToDate' /\ showing' = {} /\ ripples' = <<>> /\ behind' = 0
      BY <1>1, <2>1 DEF UpToDate, Truth
    <2>3. HeardAll'
      BY <2>2 DEF HeardAll, ChangesAreDrawn, RipplesEnd, StoppedAreHidden
    <2>4. DrawnInTime'
      BY <1>1, <1>6, <1>7, <2>2, RedrawNumbers DEF DrawnInTime
    <2> QED BY <1>5, <2>3, <2>4 DEF RedrawInv
  <1>9. CASE ~(sinceActivity > RestsAfter)
    <2>1. asked' = TRUE /\ askedFor' = IF asked THEN askedFor ELSE 0
      BY <1>1, <1>9
    <2>2. NextFrame' <= NextFrame
      <3>1. NextFrame' = Lag - askedFor'
        BY <2>1 DEF NextFrame
      <3>2. CASE asked
        BY <1>6, <2>1, <3>1, <3>2 DEF NextFrame
      <3>3. CASE ~asked
        <4>1. NextFrame = (Interval - waited) + Lag /\ askedFor' = 0
          BY <2>1, <3>3 DEF NextFrame
        <4> QED BY <1>1, <1>3, <3>1, <4>1
      <3> QED BY <3>2, <3>3
    <2>3. NextFrameYet' <= NextFrameYet
      <3>1. NextFrameYet' = Lag - askedFor'
        BY <2>1 DEF NextFrameYet
      <3>2. CASE asked
        BY <1>6, <2>1, <3>1, <3>2 DEF NextFrameYet
      <3>3. CASE ~asked
        <4>1. /\ askedFor' = 0
              /\ NextFrameYet = (IF sinceActivity < Interval THEN 2 * Interval - sinceActivity
                                 ELSE Interval - waited) + Lag
          BY <2>1, <3>3 DEF NextFrameYet
        <4> QED BY <1>1, <1>2, <1>3, <3>1, <4>1
      <3> QED BY <3>2, <3>3
    <2>4. DrawnInTime'
      <3>1. behind + NextFrameYet + LostWaits(lost) <= Patience
        BY DEF RedrawInv, DrawnInTime
      <3>2. behind' = behind /\ lost' = lost
        BY <1>1
      <3> QED BY <1>2, <1>6, <1>7, <2>3, <3>1, <3>2 DEF DrawnInTime
    <2>5. ChangesAreDrawn /\ RipplesEnd /\ StoppedAreHidden
      BY <1>1 DEF RedrawInv, HeardAll
    <2>6. UpToDate' = UpToDate
      BY <1>1 DEF UpToDate, Truth
    <2>7. ChangesAreDrawn'
      <3>1. behind' = behind /\ sinceActivity' = sinceActivity /\ lost' = lost /\ clicksSent' = clicksSent
        BY <1>1
      <3> QED BY <1>2, <1>6, <1>7, <2>2, <2>5, <2>6, <3>1, RedrawNumbers DEF ChangesAreDrawn
    <2>8. RipplesEnd'
      <3> SUFFICES ASSUME NEW i \in DOMAIN ripples
                   PROVE  IF ripples[i] <= RippleTime
                          THEN sinceActivity + ToBeLost(lost) <= ripples[i] + AllDrawn
                          ELSE sinceActivity + NextFrame' + ToBeLost(lost)
                                 <= RippleTime + 1 + AllDrawn + Period
        BY <1>1 DEF RipplesEnd
      <3>1. IF ripples[i] <= RippleTime THEN sinceActivity + ToBeLost(lost) <= ripples[i] + AllDrawn
            ELSE sinceActivity + NextFrame + ToBeLost(lost) <= RippleTime + 1 + AllDrawn + Period
        BY <2>5 DEF RipplesEnd
      <3> QED BY <1>2, <1>6, <1>7, <2>2, <3>1, RedrawNumbers
    <2>9. StoppedAreHidden'
      <3> SUFFICES ASSUME NEW p \in showing
                   PROVE  IF shownFor[p] <= HidesAfter THEN sinceActivity <= shownFor[p] + Interval
                          ELSE sinceActivity + NextFrame' <= HidesAfter + 1 + Interval + Period
        BY <1>1 DEF StoppedAreHidden
      <3>1. IF shownFor[p] <= HidesAfter THEN sinceActivity <= shownFor[p] + Interval
            ELSE sinceActivity + NextFrame <= HidesAfter + 1 + Interval + Period
        BY <2>5 DEF StoppedAreHidden
      <3>2. CASE shownFor[p] <= HidesAfter
        BY <3>1, <3>2
      <3>3. CASE ~(shownFor[p] <= HidesAfter)
        <4>1. sinceActivity + NextFrame <= HidesAfter + 1 + Interval + Period
          BY <3>1, <3>3
        <4>2. sinceActivity + NextFrame' <= HidesAfter + 1 + Interval + Period
          <5>1. HidesAfter \in Nat /\ Interval \in Nat /\ Period \in Nat
            BY RedrawNumbers
          <5>2. PICK n : n = NextFrame'
            OBVIOUS
          <5>3. n \in Nat /\ NextFrame \in Nat /\ n <= NextFrame /\ sinceActivity \in Nat
            BY <1>2, <1>6, <2>2, <5>2
          <5>4. sinceActivity + n <= HidesAfter + 1 + Interval + Period
            BY <4>1, <5>1, <5>3
          <5> QED BY <5>2, <5>4
        <4> QED BY <3>3, <4>2
      <3> QED BY <3>2, <3>3
    <2> QED BY <1>5, <2>4, <2>7, <2>8, <2>9 DEF RedrawInv, HeardAll
  <1> QED BY <1>8, <1>9

LEMMA TickKeeps ==
  ASSUME RedrawInv, Tick PROVE RedrawInv'
  <1>1. /\ signals = 0 /\ waited < Interval /\ (asked => askedFor < Lag)
        /\ waited' = waited + 1
        /\ sinceActivity' = UpTo(sinceActivity, RestsAfter)
        /\ askedFor' = IF asked THEN askedFor + 1 ELSE 0
        /\ shownFor' = [p \in Pointing |->
                            IF p \in showing THEN UpTo(shownFor[p], HidesAfter) ELSE 0]
        /\ ripples' = [i \in DOMAIN ripples |-> UpTo(ripples[i], RippleTime)]
        /\ behind' = IF UpToDate THEN 0 ELSE behind + 1
        /\ UNCHANGED <<signals, asked, spot, showing, clicksSent, clicked, canvas, lost>>
    BY DEF Tick
  <1>2. RedrawTypes /\ ChangesAreDrawn /\ RipplesEnd /\ StoppedAreHidden /\ OldestFirst(ripples) /\ DrawnInTime
    BY <1>1 DEF RedrawInv, HeardAll
  <1>3. /\ sinceActivity \in Nat /\ sinceActivity <= RestsAfter + 1
        /\ waited \in Nat /\ waited <= Interval /\ asked \in BOOLEAN
        /\ askedFor \in Nat /\ askedFor <= Lag
        /\ clicksSent \in Nat /\ clicksSent <= MaxClicks /\ behind \in Nat
        /\ lost \in 0..MaxLost /\ showing \subseteq Pointing
        /\ Len(ripples) \in Nat /\ DOMAIN ripples = 1..Len(ripples)
        /\ \A i \in DOMAIN ripples : ripples[i] \in Nat /\ ripples[i] <= RippleTime + 1
        /\ \A p \in Pointing : shownFor[p] \in Nat /\ shownFor[p] <= HidesAfter + 1
    BY <1>2, RedrawFacts
  <1>4. /\ Interval \in Nat \ {0} /\ Lag \in Nat /\ RippleTime \in Nat /\ HidesAfter \in Nat
        /\ RestsAfter \in Nat /\ Period \in Nat /\ Period = Interval + Lag
        /\ AllDrawn \in Nat /\ Interval <= AllDrawn
        /\ LongestWait \in Nat /\ LongestWait = 2 * Interval + Lag
        /\ RippleTime + 1 + AllDrawn + Period <= RestsAfter
    BY RedrawNumbers
  <1>22. /\ sinceActivity \in Nat /\ askedFor \in Nat /\ waited \in Nat /\ behind \in Nat
        /\ clicksSent \in Nat
    BY <1>3
  <1>5. ASSUME NEW limit \in Nat, NEW age \in Nat, age <= limit + 1
        PROVE  /\ UpTo(age, limit) \in Nat /\ UpTo(age, limit) <= limit + 1
               /\ age <= UpTo(age, limit) /\ UpTo(age, limit) <= age + 1
               /\ age <= limit => UpTo(age, limit) = age + 1
    BY <1>5 DEF UpTo
  <1>6. /\ sinceActivity' \in Nat /\ sinceActivity' <= RestsAfter + 1
        /\ sinceActivity <= sinceActivity' /\ sinceActivity' <= sinceActivity + 1
        /\ sinceActivity <= RestsAfter => sinceActivity' = sinceActivity + 1
    BY <1>1, <1>3, <1>4, <1>5
  <1>7. \A p \in Pointing :
          /\ shownFor'[p] \in Nat /\ shownFor'[p] <= HidesAfter + 1
          /\ p \in showing =>
               /\ shownFor[p] <= HidesAfter => shownFor'[p] = shownFor[p] + 1
               /\ shownFor[p] > HidesAfter => shownFor'[p] > HidesAfter
    <2> TAKE p \in Pointing
    <2>1. shownFor'[p] = IF p \in showing THEN UpTo(shownFor[p], HidesAfter) ELSE 0
      BY <1>1
    <2>2. shownFor[p] \in Nat /\ shownFor[p] <= HidesAfter + 1
      BY <1>3
    <2>3. /\ UpTo(shownFor[p], HidesAfter) \in Nat /\ UpTo(shownFor[p], HidesAfter) <= HidesAfter + 1
          /\ shownFor[p] <= UpTo(shownFor[p], HidesAfter)
          /\ shownFor[p] <= HidesAfter => UpTo(shownFor[p], HidesAfter) = shownFor[p] + 1
      BY <1>4, <1>5, <2>2
    <2> QED BY <1>4, <2>1, <2>2, <2>3
  <1>8. /\ DOMAIN ripples' = DOMAIN ripples
        /\ \A i \in DOMAIN ripples :
             /\ ripples'[i] \in Nat /\ ripples'[i] <= RippleTime + 1 /\ ripples[i] <= ripples'[i]
             /\ ripples'[i] = UpTo(ripples[i], RippleTime)
             /\ ripples[i] <= RippleTime => ripples'[i] = ripples[i] + 1
    <2>1. DOMAIN ripples' = DOMAIN ripples /\ \A i \in DOMAIN ripples : ripples'[i] = UpTo(ripples[i], RippleTime)
      BY <1>1
    <2>2. \A i \in DOMAIN ripples :
            /\ UpTo(ripples[i], RippleTime) \in Nat /\ UpTo(ripples[i], RippleTime) <= RippleTime + 1
            /\ ripples[i] <= UpTo(ripples[i], RippleTime)
            /\ ripples[i] <= RippleTime => UpTo(ripples[i], RippleTime) = ripples[i] + 1
      BY <1>3, <1>4, <1>5
    <2> QED BY <2>1, <2>2
  <1>9. ripples' \in Seq(0..(RippleTime + 1)) /\ Len(ripples') = Len(ripples)
    <2>1. \A i \in DOMAIN ripples : UpTo(ripples[i], RippleTime) \in 0..(RippleTime + 1)
      BY <1>4, <1>8
    <2>2. ripples' \in [1..Len(ripples) -> 0..(RippleTime + 1)]
      BY <1>1, <1>3, <2>1
    <2>3. ripples' \in Seq(0..(RippleTime + 1))
      <3> DEFINE S == 0..(RippleTime + 1)
                 n == Len(ripples)
      <3>1. n \in Nat /\ ripples' \in [1..n -> S]
        BY <1>3, <2>2
      <3> HIDE DEF S, n
      <3>2. ripples' \in Seq(S)
        BY <3>1, SeqDef
      <3> QED BY <3>2 DEF S
    <2>4. DOMAIN ripples' = 1..Len(ripples') /\ Len(ripples') \in Nat
      BY <2>3, LenProperties
    <2> QED BY <1>3, <1>8, <2>3, <2>4
  <1>10. /\ waited' \in 0..Interval /\ askedFor' \in 0..Lag /\ sinceActivity' \in 0..(RestsAfter + 1)
         /\ behind' \in Nat
    BY <1>1, <1>3, <1>4, <1>6
  <1>11. shownFor' \in [Pointing -> 0..(HidesAfter + 1)]
    <2>1. \A p \in Pointing : shownFor'[p] \in 0..(HidesAfter + 1)
      BY <1>4, <1>7
    <2>2. shownFor' = [p \in Pointing |-> shownFor'[p]]
      BY <1>1
    <2> QED BY <2>1, <2>2
  <1>12. RedrawTypes'
    BY <1>1, <1>2, <1>9, <1>10, <1>11 DEF RedrawTypes
  <1>13. OldestFirst(ripples')
    <2> SUFFICES ASSUME NEW i \in DOMAIN ripples, NEW j \in DOMAIN ripples, i < j
                 PROVE  ripples'[i] >= ripples'[j]
      BY <1>8 DEF OldestFirst
    <2>1. ripples[i] >= ripples[j] /\ ripples[i] \in Nat /\ ripples[j] \in Nat
      BY <1>2, <1>3 DEF OldestFirst
    <2>2. ripples'[i] = UpTo(ripples[i], RippleTime) /\ ripples'[j] = UpTo(ripples[j], RippleTime)
      BY <1>8
    <2>3. ripples[i] <= RippleTime + 1 /\ ripples[j] <= RippleTime + 1
      BY <1>3
    <2> QED BY <1>4, <2>1, <2>2, <2>3 DEF UpTo
  <1>14. /\ NextFrame \in Nat /\ NextFrame' \in Nat /\ NextFrame' = NextFrame - 1
         /\ NextFrame' <= Period
    <2>1. NextFrame \in Nat /\ NextFrame' \in Nat /\ NextFrame' <= Period
      BY <1>2, <1>12, FrameTimes, FrameTimesNext
    <2>2. CASE asked
      BY <1>1, <1>3, <1>4, <2>1, <2>2 DEF NextFrame
    <2>3. CASE ~asked
      <3>1. NextFrame = (Interval - waited) + Lag /\ NextFrame' = (Interval - (waited + 1)) + Lag
        BY <1>1, <2>3 DEF NextFrame
      <3> QED BY <1>3, <1>4, <2>1, <3>1
    <2> QED BY <2>2, <2>3
  <1>15. /\ NextFrameYet \in Nat /\ NextFrameYet' \in Nat /\ NextFrameYet' + 1 <= NextFrameYet
         /\ NextFrameYet' <= LongestWait
    <2>1. NextFrameYet \in Nat /\ NextFrameYet' \in Nat /\ NextFrameYet' <= LongestWait
      BY <1>2, <1>12, FrameTimes, FrameTimesNext
    <2>2. CASE asked
      <3>1. NextFrameYet = Lag - askedFor /\ NextFrameYet' = Lag - (askedFor + 1)
        BY <1>1, <2>2 DEF NextFrameYet
      <3> QED BY <1>3, <1>4, <2>1, <3>1
    <2>3. CASE ~asked
      <3>1. NextFrameYet = (IF sinceActivity < Interval THEN 2 * Interval - sinceActivity
                            ELSE Interval - waited) + Lag
        BY <2>3 DEF NextFrameYet
      <3>2. NextFrameYet' = (IF sinceActivity' < Interval THEN 2 * Interval - sinceActivity'
                             ELSE Interval - (waited + 1)) + Lag
        BY <1>1, <2>3 DEF NextFrameYet
      <3>3. Interval <= RestsAfter
        BY <1>4
      <3>4. CASE sinceActivity >= Interval
        <4>1. ~(sinceActivity < Interval) /\ ~(sinceActivity' < Interval)
          BY <1>22, <1>4, <1>6, <3>4
        <4>2. NextFrameYet = (Interval - waited) + Lag /\ NextFrameYet' = (Interval - (waited + 1)) + Lag
          BY <3>1, <3>2, <4>1
        <4> QED BY <1>22, <1>4, <2>1, <4>2
      <3>5. CASE sinceActivity < Interval
        <4>1. NextFrameYet = 2 * Interval - sinceActivity + Lag /\ sinceActivity' = sinceActivity + 1
          BY <1>22, <1>4, <1>6, <3>1, <3>3, <3>5
        <4>2. \/ NextFrameYet' = 2 * Interval - (sinceActivity + 1) + Lag
              \/ NextFrameYet' = (Interval - (waited + 1)) + Lag
          BY <3>2, <4>1
        <4> DEFINE yet == NextFrameYet
                   then == NextFrameYet'
        <4>3. yet \in Nat /\ then \in Nat /\ then <= LongestWait
          BY <2>1
        <4>4. yet = 2 * Interval - sinceActivity + Lag
          BY <4>1
        <4>5. \/ then = 2 * Interval - (sinceActivity + 1) + Lag
              \/ then = (Interval - (waited + 1)) + Lag
          BY <4>2
        <4> HIDE DEF yet, then
        <4>6. then + 1 <= yet
          BY <1>22, <1>4, <3>5, <4>3, <4>4, <4>5
        <4> QED BY <4>3, <4>6 DEF yet, then
      <3> QED BY <1>22, <1>4, <3>4, <3>5
    <2> QED BY <2>2, <2>3
  <1>16. /\ LostWaits(lost) \in Nat /\ LostWaits(lost) + LongestWait <= Patience /\ Patience \in Nat
         /\ ToBeLost(lost) \in Nat /\ NotEnough(lost, clicksSent) \in Nat
    BY <1>3, FrameNumbers
  <1>17. DrawnInTime'
    <2>1. behind + NextFrameYet + LostWaits(lost) <= Patience
      BY <1>2 DEF DrawnInTime
    <2>2. behind' \in Nat /\ (behind' = 0 \/ behind' = behind + 1)
      BY <1>1, <1>22
    <2>3. behind' + NextFrameYet' + LostWaits(lost) <= Patience
      <3> DEFINE yet == NextFrameYet
                 then == NextFrameYet'
                 delay == behind'
                 waits == LostWaits(lost)
      <3>1. /\ yet \in Nat /\ then \in Nat /\ then + 1 <= yet /\ waits \in Nat /\ then <= LongestWait
            /\ delay \in Nat /\ (delay = 0 \/ delay = behind + 1) /\ behind + yet + waits <= Patience
            /\ waits + LongestWait <= Patience
        BY <1>15, <1>16, <2>1, <2>2
      <3> HIDE DEF yet, then, delay, waits
      <3>2. delay + then + waits <= Patience
        BY <1>22, <1>4, <1>16, <3>1
      <3> QED BY <3>2 DEF yet, then, delay, waits
    <2> QED BY <1>1, <2>3 DEF DrawnInTime
  <1>18. UpToDate' = UpToDate
    BY <1>1 DEF UpToDate, Truth
  <1>19. ChangesAreDrawn'
    <2>1. CASE UpToDate
      BY <1>1, <1>18, <2>1 DEF ChangesAreDrawn
    <2>2. CASE ~UpToDate
      <3>1. sinceActivity + NextFrame + NotEnough(lost, clicksSent) <= AllDrawn
        BY <1>2, <2>2 DEF ChangesAreDrawn
      <3>2. sinceActivity' + NextFrame' + NotEnough(lost, clicksSent) <= AllDrawn
        <4> DEFINE next == NextFrame
                   then == NextFrame'
                   more == NotEnough(lost, clicksSent)
                   since == sinceActivity'
        <4>1. /\ next \in Nat /\ then \in Nat /\ then = next - 1 /\ more \in Nat
              /\ since \in Nat /\ since <= sinceActivity + 1
              /\ sinceActivity + next + more <= AllDrawn
          BY <1>6, <1>14, <1>16, <3>1
        <4> HIDE DEF next, then, more, since
        <4>2. since + then + more <= AllDrawn
          BY <1>22, <1>4, <4>1
        <4> QED BY <4>2 DEF next, then, more, since
      <3>3. sinceActivity' <= AllDrawn
        BY <1>4, <1>6, <1>14, <1>16, <3>2
      <3>4. lost' = lost /\ clicksSent' = clicksSent
        BY <1>1
      <3> QED BY <3>2, <3>3, <3>4 DEF ChangesAreDrawn
    <2> QED BY <2>1, <2>2
  <1>20. RipplesEnd'
    <2> SUFFICES ASSUME NEW i \in DOMAIN ripples
                 PROVE  IF ripples'[i] <= RippleTime
                        THEN sinceActivity' + ToBeLost(lost) <= ripples'[i] + AllDrawn
                        ELSE sinceActivity' + NextFrame' + ToBeLost(lost)
                               <= RippleTime + 1 + AllDrawn + Period
      BY <1>1, <1>8 DEF RipplesEnd
    <2>1. IF ripples[i] <= RippleTime THEN sinceActivity + ToBeLost(lost) <= ripples[i] + AllDrawn
          ELSE sinceActivity + NextFrame + ToBeLost(lost) <= RippleTime + 1 + AllDrawn + Period
      BY <1>2 DEF RipplesEnd
    <2>2. /\ ripples[i] \in Nat /\ ripples'[i] \in Nat /\ ripples[i] <= ripples'[i]
          /\ ripples'[i] <= RippleTime + 1
          /\ ripples[i] <= RippleTime => ripples'[i] = ripples[i] + 1
      BY <1>3, <1>8
    <2>3. CASE ripples[i] <= RippleTime
      <3>1. sinceActivity' + ToBeLost(lost) <= ripples'[i] + AllDrawn
        <4>1. sinceActivity + ToBeLost(lost) <= ripples[i] + AllDrawn /\ ripples'[i] = ripples[i] + 1
          BY <2>1, <2>2, <2>3
        <4> QED BY <1>22, <1>4, <1>6, <1>16, <2>2, <4>1
      <3>2. sinceActivity' + NextFrame' + ToBeLost(lost) <= RippleTime + 1 + AllDrawn + Period
        BY <1>4, <1>6, <1>14, <1>16, <2>2, <3>1
      <3> QED BY <3>1, <3>2
    <2>4. CASE ~(ripples[i] <= RippleTime)
      <3>1. ~(ripples'[i] <= RippleTime)
        BY <1>4, <2>2, <2>4
      <3>2. sinceActivity + NextFrame + ToBeLost(lost) <= RippleTime + 1 + AllDrawn + Period
        BY <2>1, <2>4
      <3>3. sinceActivity' + NextFrame' + ToBeLost(lost) <= RippleTime + 1 + AllDrawn + Period
        BY <1>22, <1>4, <1>6, <1>14, <1>16, <3>2
      <3> QED BY <3>1, <3>3
    <2> QED BY <2>3, <2>4
  <1>21. StoppedAreHidden'
    <2> SUFFICES ASSUME NEW p \in showing
                 PROVE  IF shownFor'[p] <= HidesAfter THEN sinceActivity' <= shownFor'[p] + Interval
                        ELSE sinceActivity' + NextFrame' <= HidesAfter + 1 + Interval + Period
      BY <1>1 DEF StoppedAreHidden
    <2>1. IF shownFor[p] <= HidesAfter THEN sinceActivity <= shownFor[p] + Interval
          ELSE sinceActivity + NextFrame <= HidesAfter + 1 + Interval + Period
      BY <1>2 DEF StoppedAreHidden
    <2>2. /\ shownFor[p] \in Nat /\ shownFor'[p] \in Nat /\ shownFor'[p] <= HidesAfter + 1
          /\ shownFor[p] <= HidesAfter => shownFor'[p] = shownFor[p] + 1
          /\ shownFor[p] > HidesAfter => shownFor'[p] > HidesAfter
      BY <1>3, <1>7
    <2>3. CASE shownFor[p] <= HidesAfter
      <3>1. sinceActivity' <= shownFor'[p] + Interval
        BY <1>3, <1>4, <1>6, <2>1, <2>2, <2>3
      <3>2. sinceActivity' + NextFrame' <= HidesAfter + 1 + Interval + Period
        BY <1>4, <1>6, <1>14, <2>2, <3>1
      <3> QED BY <3>1, <3>2
    <2>4. CASE ~(shownFor[p] <= HidesAfter)
      <3>1. ~(shownFor'[p] <= HidesAfter)
        BY <1>4, <2>2, <2>4
      <3>2. sinceActivity + NextFrame <= HidesAfter + 1 + Interval + Period
        BY <2>1, <2>4
      <3>3. sinceActivity' + NextFrame' <= HidesAfter + 1 + Interval + Period
        <4> DEFINE next == NextFrame
                   then == NextFrame'
                   since == sinceActivity'
        <4>1. /\ next \in Nat /\ then \in Nat /\ then = next - 1 /\ since \in Nat
              /\ since <= sinceActivity + 1
              /\ sinceActivity + next <= HidesAfter + 1 + Interval + Period
          BY <1>6, <1>14, <3>2
        <4> HIDE DEF next, then, since
        <4>2. since + then <= HidesAfter + 1 + Interval + Period
          BY <1>22, <1>4, <4>1
        <4> QED BY <4>2 DEF next, then, since
      <3> QED BY <3>1, <3>3
    <2> QED BY <2>3, <2>4
  <1> QED BY <1>12, <1>13, <1>17, <1>19, <1>20, <1>21 DEF RedrawInv, HeardAll

\* Of ripples in order, the ones that are taken are those that have not run out.
LEMMA StillRunningFacts ==
  ASSUME NEW ages \in Seq(0..(RippleTime + 1)), OldestFirst(ages)
  PROVE  /\ StillRunning(ages) \in Seq(0..(RippleTime + 1)) /\ OldestFirst(StillRunning(ages))
         /\ Len(StillRunning(ages)) <= Len(ages)
         /\ \A i \in DOMAIN StillRunning(ages) :
              /\ StillRunning(ages)[i] <= RippleTime
              /\ \E j \in DOMAIN ages : StillRunning(ages)[i] = ages[j]
  <1> DEFINE S == 0..(RippleTime + 1)
             n == Len(ages)
             Over(k) == \A i \in 1..(k - 1) : ages[i] > RippleTime
             Begins(k) == Over(k) /\ (k <= n => ages[k] <= RippleTime)
             first == CHOOSE k \in 1..(n + 1) : Begins(k)
             rest == StillRunning(ages)
  <1>1. RippleTime \in Nat
    BY RedrawNumbers
  <1>2. n \in Nat /\ DOMAIN ages = 1..n /\ \A i \in 1..n : ages[i] \in S
    BY LenProperties, ElementOfSeq
  <1>3. rest = SubSeq(ages, first, n)
    BY DEF StillRunning
  <1>4. \E k \in 1..(n + 1) : Begins(k)
    <2> DEFINE Going == {k \in 1..(n + 1) : k <= n => ages[k] <= RippleTime}
    <2>1. Going \subseteq Nat /\ n + 1 \in Going
      BY <1>2
    <2>2. PICK k \in Going : \A y \in Going : k <= y
      <3> HIDE DEF Going
      <3> QED BY <2>1, LeastNumber
    <2>3. k \in 1..(n + 1) /\ (k <= n => ages[k] <= RippleTime)
      BY <2>2
    <2>4. ASSUME NEW i \in 1..(k - 1) PROVE ages[i] > RippleTime
      <3>1. i \in 1..n /\ i < k /\ k \in Nat
        BY <1>2, <2>3
      <3>2. i \notin Going
        <4> HIDE DEF Going
        <4> QED BY <2>2, <3>1
      <3>3. ~(ages[i] <= RippleTime)
        BY <1>2, <3>1, <3>2
      <3>4. ages[i] \in Nat
        BY <1>1, <1>2, <3>1
      <3> QED BY <1>1, <3>3, <3>4
    <2> QED BY <2>3, <2>4
  <1>5. first \in 1..(n + 1) /\ Begins(first)
    <2> HIDE DEF Begins
    <2> QED BY <1>4
  <1> HIDE DEF rest, first, n, S
  <1>6. first \in Nat /\ 1 <= first /\ first <= n + 1
    BY <1>2, <1>5
  <1>7. /\ rest \in Seq(S) /\ Len(rest) = IF first <= n THEN n - first + 1 ELSE 0
        /\ \A i \in 1..(n - first + 1) : rest[i] = ages[first + i - 1]
    <2>1. \A i \in first..n : ages[i] \in S
      BY <1>2, <1>6
    <2> QED BY <1>2, <1>3, <1>6, <2>1, SubSeqProperties
  <1>8. DOMAIN rest = 1..(n - first + 1) /\ Len(rest) <= n
    <2>1. DOMAIN rest = 1..Len(rest)
      BY <1>7, LenProperties
    <2> QED BY <1>2, <1>6, <1>7, <2>1
  <1>9. ASSUME NEW i \in DOMAIN rest
        PROVE  /\ first + i - 1 \in 1..n /\ rest[i] = ages[first + i - 1]
               /\ first <= first + i - 1 /\ first <= n
    BY <1>2, <1>6, <1>7, <1>8
  <1>10. ASSUME NEW i \in 1..n, NEW j \in 1..n, i <= j
         PROVE  ages[i] >= ages[j] /\ ages[i] \in Nat /\ ages[j] \in Nat
    <2>1. ages[i] \in Nat /\ ages[j] \in Nat
      BY <1>1, <1>2 DEF S
    <2>2. i < j => ages[i] >= ages[j]
      BY <1>2 DEF OldestFirst
    <2> QED BY <1>2, <1>10, <2>1, <2>2
  <1>11. OldestFirst(rest)
    <2> SUFFICES ASSUME NEW i \in DOMAIN rest, NEW j \in DOMAIN rest, i < j PROVE rest[i] >= rest[j]
      BY DEF OldestFirst
    <2>1. /\ first + i - 1 \in 1..n /\ rest[i] = ages[first + i - 1]
          /\ first + j - 1 \in 1..n /\ rest[j] = ages[first + j - 1]
      BY <1>9
    <2>2. first + i - 1 <= first + j - 1
      BY <1>2, <1>6, <1>8
    <2> QED BY <1>10, <2>1, <2>2
  <1>12. ASSUME NEW i \in DOMAIN rest
         PROVE  rest[i] <= RippleTime /\ \E j \in DOMAIN ages : rest[i] = ages[j]
    <2>1. /\ first + i - 1 \in 1..n /\ rest[i] = ages[first + i - 1]
          /\ first <= first + i - 1 /\ first <= n
      BY <1>9
    <2>2. first \in 1..n /\ ages[first] <= RippleTime
      BY <1>2, <1>5, <1>6, <2>1
    <2>3. ages[first] >= ages[first + i - 1] /\ ages[first] \in Nat /\ ages[first + i - 1] \in Nat
      BY <1>10, <2>1, <2>2
    <2> QED BY <1>1, <1>2, <2>1, <2>2, <2>3
  <1> QED BY <1>7, <1>8, <1>11, <1>12 DEF rest, S, n

\* What a frame hides; and when it tells of no pointer, it has hidden none.
LEMMA FrameHides ==
  ASSUME RedrawInv, HideInactive
  PROVE  /\ signals' \in Nat /\ showing' \subseteq Pointing /\ spot' = spot
         /\ shownFor' \in [Pointing -> 0..(HidesAfter + 1)]
         /\ signals' = 0 => /\ signals = 0 /\ showing' = showing /\ shownFor' = shownFor
                            /\ \A p \in showing : ~(shownFor[p] > HidesAfter)
  <1> DEFINE expired == {p \in showing : shownFor[p] > HidesAfter}
  <1>1. /\ showing' = showing \ expired
        /\ shownFor' = [p \in Pointing |-> IF p \in expired THEN 0 ELSE shownFor[p]]
        /\ signals' = signals + Cardinality(expired) /\ spot' = spot
    BY DEF HideInactive
  <1>2. /\ signals \in Nat /\ showing \subseteq Pointing
        /\ shownFor \in [Pointing -> 0..(HidesAfter + 1)]
    BY DEF RedrawInv, RedrawTypes
  <1>3. IsFiniteSet(Pointing) /\ HidesAfter \in Nat
    BY RedrawNumbers
  <1>4. IsFiniteSet(expired)
    <2>1. expired \in SUBSET Pointing
      BY <1>2
    <2> HIDE DEF expired
    <2> QED BY <1>3, <2>1, FS_Subset
  <1>5. Cardinality(expired) \in Nat /\ (Cardinality(expired) = 0 => expired = {})
    <2> HIDE DEF expired
    <2> QED BY <1>4, FS_EmptySet, FS_CardinalityType
  <1>6. shownFor' \in [Pointing -> 0..(HidesAfter + 1)]
    <2>1. 0 \in 0..(HidesAfter + 1)
      BY <1>3
    <2> HIDE DEF expired
    <2> QED BY <1>1, <1>2, <2>1
  <1>7. ASSUME signals' = 0
        PROVE  /\ signals = 0 /\ showing' = showing /\ shownFor' = shownFor
               /\ \A p \in showing : ~(shownFor[p] > HidesAfter)
    <2>1. signals = 0 /\ Cardinality(expired) = 0
      <3> HIDE DEF expired
      <3> QED BY <1>1, <1>2, <1>5, <1>7
    <2>2. expired = {}
      BY <1>5, <2>1
    <2>3. shownFor' = [p \in Pointing |-> shownFor[p]]
      <3> HIDE DEF expired
      <3> QED BY <1>1, <2>2
    <2> QED BY <1>1, <1>2, <2>1, <2>2, <2>3
  <1>8. signals' \in Nat
    <2> HIDE DEF expired
    <2> QED BY <1>1, <1>2, <1>5
  <1> QED BY <1>1, <1>2, <1>6, <1>7, <1>8

\* A frame that is lost.
LEMMA FrameIsLostKeeps ==
  ASSUME RedrawInv, asked, asked' = FALSE, askedFor' = 0, HideInactive, FrameIsLost,
         UNCHANGED threadVars
  PROVE  RedrawInv'
  <1>1. /\ lost < MaxLost /\ lost' = lost + 1
        /\ UNCHANGED <<clicksSent, ripples, clicked, canvas, behind, sinceActivity, waited>>
    BY DEF FrameIsLost, clickVars, threadVars
  <1>2. /\ signals' \in Nat /\ showing' \subseteq Pointing /\ spot' = spot
        /\ shownFor' \in [Pointing -> 0..(HidesAfter + 1)]
        /\ signals' = 0 => /\ signals = 0 /\ showing' = showing /\ shownFor' = shownFor
                           /\ \A p \in showing : ~(shownFor[p] > HidesAfter)
    BY FrameHides
  <1>3. /\ sinceActivity \in Nat /\ clicksSent \in Nat /\ clicksSent <= MaxClicks
        /\ lost \in 0..MaxLost /\ behind \in Nat /\ showing \subseteq Pointing
        /\ waited \in Nat /\ waited <= Interval
        /\ \A i \in DOMAIN ripples : ripples[i] \in Nat
    BY RedrawFacts DEF RedrawInv
  <1>4. /\ Interval \in Nat /\ Lag \in Nat /\ Period \in Nat /\ AllDrawn \in Nat /\ MaxLost \in Nat
        /\ RippleTime \in Nat /\ LongestWait \in Nat
    BY RedrawNumbers
  <1>5. lost' \in 0..MaxLost /\ 0 \in 0..Lag
    BY <1>1, <1>3, <1>4
  <1>6. RedrawTypes'
    BY <1>1, <1>2, <1>5 DEF RedrawInv, RedrawTypes
  <1>7. /\ NextFrame \in Nat /\ NextFrameYet \in Nat /\ NextFrame' \in Nat /\ NextFrameYet' \in Nat
        /\ NextFrame' <= Period /\ NextFrameYet' <= LongestWait
    BY <1>6, FrameTimes, FrameTimesNext DEF RedrawInv
  <1>8. /\ ToBeLost(lost) \in Nat /\ NotEnough(lost, clicksSent) \in Nat /\ LostWaits(lost) \in Nat
        /\ ToBeLost(lost') + Period = ToBeLost(lost)
        /\ NotEnough(lost', clicksSent) + Period = NotEnough(lost, clicksSent)
        /\ LostWaits(lost') + LongestWait = LostWaits(lost)
    <2>1. /\ ToBeLost(lost + 1) + Period = ToBeLost(lost)
          /\ NotEnough(lost + 1, clicksSent) + Period = NotEnough(lost, clicksSent)
          /\ LostWaits(lost + 1) + LongestWait = LostWaits(lost)
          /\ ToBeLost(lost) \in Nat /\ NotEnough(lost, clicksSent) \in Nat /\ LostWaits(lost) \in Nat
      BY <1>1, <1>3, FrameNumbers
    <2> QED BY <1>1, <2>1
  <1>9. ToBeLost(lost') \in Nat /\ NotEnough(lost', clicksSent) \in Nat /\ LostWaits(lost') \in Nat
    BY <1>3, <1>5, FrameNumbers
  <1> DEFINE left == ToBeLost(lost)
             less == ToBeLost(lost')
             few == NotEnough(lost, clicksSent)
             fewer == NotEnough(lost', clicksSent)
             waits == LostWaits(lost)
             fewerWaits == LostWaits(lost')
             next == NextFrame
             then == NextFrame'
             yet == NextFrameYet
             thenYet == NextFrameYet'
  <1>10. /\ left \in Nat /\ few \in Nat /\ waits \in Nat /\ less \in Nat /\ fewer \in Nat
         /\ fewerWaits \in Nat /\ less + Period = left /\ fewer + Period = few
         /\ fewerWaits + LongestWait = waits /\ next \in Nat /\ then \in Nat /\ then <= Period
         /\ yet \in Nat /\ thenYet \in Nat /\ thenYet <= LongestWait
    BY <1>7, <1>8, <1>9
  <1>11. behind + yet + waits <= Patience
    BY DEF RedrawInv, DrawnInTime
  <1>12. Patience \in Nat
    BY <1>3, FrameNumbers
  <1>13. DrawnInTime'
    <2>1. DrawnInTime' = (behind' + thenYet + fewerWaits <= Patience)
      BY DEF DrawnInTime
    <2> HIDE DEF left, less, few, fewer, waits, fewerWaits, next, then, yet, thenYet
    <2>2. behind + thenYet + fewerWaits <= Patience
      BY <1>3, <1>4, <1>10, <1>11, <1>12
    <2> QED BY <1>1, <2>1, <2>2
  <1>14. ASSUME signals' = 0 PROVE HeardAll'
    <2>1. /\ ChangesAreDrawn /\ RipplesEnd /\ StoppedAreHidden /\ showing' = showing /\ shownFor' = shownFor
          /\ \A p \in showing : ~(shownFor[p] > HidesAfter)
      BY <1>2, <1>14 DEF RedrawInv, HeardAll
    <2>2. UpToDate' = UpToDate
      BY <1>1, <1>2, <2>1 DEF UpToDate, Truth
    <2>3. ChangesAreDrawn'
      <3>1. CASE UpToDate
        BY <1>1, <2>1, <2>2, <3>1 DEF ChangesAreDrawn
      <3>2. CASE ~UpToDate
        <4>1. sinceActivity + next + few <= AllDrawn /\ (behind > 0 => sinceActivity <= AllDrawn)
          BY <2>1, <3>2 DEF ChangesAreDrawn
        <4>2. sinceActivity + then + fewer <= AllDrawn
          <5> HIDE DEF left, less, few, fewer, waits, fewerWaits, next, then, yet, thenYet
          <5> QED BY <1>3, <1>4, <1>10, <4>1
        <4> QED BY <1>1, <4>1, <4>2 DEF ChangesAreDrawn
      <3> QED BY <3>1, <3>2
    <2>4. RipplesEnd'
      <3> SUFFICES ASSUME NEW i \in DOMAIN ripples
                   PROVE  IF ripples[i] <= RippleTime THEN sinceActivity + less <= ripples[i] + AllDrawn
                          ELSE sinceActivity + then + less <= RippleTime + 1 + AllDrawn + Period
        BY <1>1 DEF RipplesEnd
      <3>1. IF ripples[i] <= RippleTime THEN sinceActivity + left <= ripples[i] + AllDrawn
            ELSE sinceActivity + next + left <= RippleTime + 1 + AllDrawn + Period
        BY <2>1 DEF RipplesEnd
      <3>2. ripples[i] \in Nat
        BY <1>3
      <3> HIDE DEF left, less, few, fewer, waits, fewerWaits, next, then, yet, thenYet
      <3> QED BY <1>3, <1>4, <1>10, <3>1, <3>2
    <2>5. StoppedAreHidden'
      <3> SUFFICES ASSUME NEW p \in showing PROVE shownFor[p] <= HidesAfter /\ sinceActivity <= shownFor[p] + Interval
        BY <1>1, <2>1 DEF StoppedAreHidden
      <3>1. shownFor[p] \in Nat /\ HidesAfter \in Nat
        BY <1>3, RedrawFacts, RedrawNumbers DEF RedrawInv
      <3>2. shownFor[p] <= HidesAfter
        BY <2>1, <3>1
      <3> QED BY <2>1, <3>2 DEF StoppedAreHidden
    <2> QED BY <2>3, <2>4, <2>5 DEF HeardAll
  <1>15. OldestFirst(ripples')
    BY <1>1 DEF RedrawInv
  <1> QED BY <1>6, <1>13, <1>14, <1>15 DEF RedrawInv

\* What becomes of the clicks in a frame that is drawn.
LEMMA ClicksBegin ==
  ASSUME RedrawInv, UpdateClicks
  PROVE  /\ clicksSent' \in Nat /\ clicksSent' <= clicksSent /\ clicked' = clicked
         /\ clicksSent' > 0 => clicksSent' < clicksSent
         /\ ripples' \in Seq(0..(RippleTime + 1)) /\ Len(ripples') <= MaxAnimations
         /\ OldestFirst(ripples')
         /\ \A i \in DOMAIN ripples' :
              /\ ripples'[i] \in Nat /\ ripples'[i] <= RippleTime
              /\ \/ ripples'[i] = 0 /\ clicksSent > 0
                 \/ \E j \in DOMAIN ripples : ripples'[i] = ripples[j]
  <1> DEFINE free == MaxAnimations - Len(ripples)
             begun == IF clicksSent < free THEN clicksSent ELSE free
             zeros == [i \in 1..begun |-> 0]
             all == ripples \o zeros
             S == 0..(RippleTime + 1)
  <1>1. /\ clicksSent' = IF clicksSent > free THEN clicksSent - free - 1 ELSE 0
        /\ ripples' = StillRunning(all) /\ clicked' = clicked
    BY DEF UpdateClicks
  <1>2. /\ clicksSent \in Nat /\ Len(ripples) \in Nat /\ DOMAIN ripples = 1..Len(ripples)
        /\ \A i \in DOMAIN ripples : ripples[i] \in Nat
    BY RedrawFacts DEF RedrawInv
  <1>3. ripples \in Seq(S) /\ Len(ripples) <= MaxAnimations /\ OldestFirst(ripples)
    BY DEF RedrawInv, RedrawTypes
  <1>4. MaxAnimations \in Nat /\ RippleTime \in Nat
    BY RedrawNumbers
  <1>5. free \in Nat /\ begun \in Nat /\ begun <= free /\ begun <= clicksSent
        /\ free + Len(ripples) = MaxAnimations
    BY <1>2, <1>3, <1>4
  <1>6. 0 \in S /\ (\A i \in S : i \in Nat)
    BY <1>4
  <1>7. /\ clicksSent' \in Nat /\ clicksSent' <= clicksSent
        /\ clicksSent' > 0 => clicksSent' < clicksSent
    <2> HIDE DEF free
    <2> QED BY <1>1, <1>2, <1>5
  <1> HIDE DEF free, begun, S
  <1>8. zeros \in Seq(S) /\ Len(zeros) = begun /\ \A i \in 1..begun : zeros[i] = 0
    <2>1. zeros \in [1..begun -> S]
      BY <1>6
    <2> HIDE DEF zeros
    <2>2. zeros \in Seq(S)
      BY <1>5, <2>1, SeqDef
    <2>3. DOMAIN zeros = 1..begun /\ DOMAIN zeros = 1..Len(zeros) /\ Len(zeros) \in Nat
      BY <2>1, <2>2, LenProperties
    <2>4. \A i \in 1..begun : zeros[i] = 0
      BY DEF zeros
    <2> QED BY <1>5, <2>2, <2>3, <2>4
  <1> HIDE DEF zeros
  <1>9. /\ all \in Seq(S) /\ Len(all) = Len(ripples) + begun
        /\ \A i \in 1..(Len(ripples) + begun) :
             all[i] = IF i <= Len(ripples) THEN ripples[i] ELSE zeros[i - Len(ripples)]
    BY <1>3, <1>8, ConcatProperties
  <1>10. DOMAIN all = 1..(Len(ripples) + begun)
    BY <1>9, LenProperties
  <1> HIDE DEF all
  <1>11. ASSUME NEW i \in DOMAIN all
         PROVE  /\ all[i] \in Nat
                /\ \/ i \in DOMAIN ripples /\ all[i] = ripples[i]
                   \/ i > Len(ripples) /\ all[i] = 0 /\ clicksSent > 0
    <2>1. CASE i <= Len(ripples)
      BY <1>2, <1>5, <1>9, <1>10, <2>1
    <2>2. CASE ~(i <= Len(ripples))
      <3>1. i > Len(ripples) /\ i - Len(ripples) \in 1..begun /\ all[i] = zeros[i - Len(ripples)]
        BY <1>2, <1>5, <1>9, <1>10, <2>2
      <3>2. all[i] = 0 /\ clicksSent > 0
        BY <1>2, <1>5, <1>8, <3>1
      <3> QED BY <3>1, <3>2
    <2> QED BY <2>1, <2>2
  <1>12. OldestFirst(all)
    <2> SUFFICES ASSUME NEW i \in DOMAIN all, NEW j \in DOMAIN all, i < j PROVE all[i] >= all[j]
      BY DEF OldestFirst
    <2>1. all[i] \in Nat /\ all[j] \in Nat
      BY <1>11
    <2>2. CASE all[j] = 0
      BY <2>1, <2>2
    <2>3. CASE j \in DOMAIN ripples /\ all[j] = ripples[j]
      <3>1. ~(i > Len(ripples)) /\ i \in Nat
        BY <1>2, <1>5, <1>10, <2>3
      <3>2. i \in DOMAIN ripples /\ all[i] = ripples[i]
        BY <1>11, <3>1
      <3>3. ripples[i] >= ripples[j]
        BY <1>3, <2>3, <3>2 DEF OldestFirst
      <3> QED BY <2>3, <3>2, <3>3
    <2> QED BY <1>11, <2>2, <2>3
  <1>13. /\ ripples' \in Seq(S) /\ OldestFirst(ripples') /\ Len(ripples') <= Len(all)
         /\ \A i \in DOMAIN ripples' :
              ripples'[i] <= RippleTime /\ \E j \in DOMAIN all : ripples'[i] = all[j]
    <2>1. all \in Seq(0..(RippleTime + 1))
      BY <1>9 DEF S
    <2>2. /\ StillRunning(all) \in Seq(0..(RippleTime + 1)) /\ OldestFirst(StillRunning(all))
          /\ Len(StillRunning(all)) <= Len(all)
          /\ \A i \in DOMAIN StillRunning(all) :
               /\ StillRunning(all)[i] <= RippleTime
               /\ \E j \in DOMAIN all : StillRunning(all)[i] = all[j]
      BY <1>12, <2>1, StillRunningFacts
    <2> QED BY <1>1, <2>2 DEF S
  <1>14. Len(ripples') <= MaxAnimations
    <2>1. Len(ripples') \in Nat
      BY <1>13, LenProperties
    <2> QED BY <1>2, <1>4, <1>5, <1>9, <1>13, <2>1
  <1>15. ASSUME NEW i \in DOMAIN ripples'
         PROVE  /\ ripples'[i] \in Nat /\ ripples'[i] <= RippleTime
                /\ \/ ripples'[i] = 0 /\ clicksSent > 0
                   \/ \E j \in DOMAIN ripples : ripples'[i] = ripples[j]
    <2>1. PICK j \in DOMAIN all : ripples'[i] = all[j]
      BY <1>13
    <2> QED BY <1>11, <1>13, <2>1
  <1> QED BY <1>1, <1>7, <1>13, <1>14, <1>15 DEF S

\* A frame that is drawn.
LEMMA DrawnKeeps ==
  ASSUME RedrawInv, asked, asked' = FALSE, askedFor' = 0, HideInactive, Drawn,
         UNCHANGED threadVars
  PROVE  RedrawInv'
  <1>1. /\ UpdateClicks /\ canvas' = [pointers |-> Truth, ripples |-> Len(ripples')]
        /\ behind' = 0 /\ UNCHANGED <<lost, sinceActivity, waited>>
    BY DEF Drawn, threadVars
  <1>2. /\ signals' \in Nat /\ showing' \subseteq Pointing /\ spot' = spot
        /\ shownFor' \in [Pointing -> 0..(HidesAfter + 1)]
        /\ signals' = 0 => /\ signals = 0 /\ showing' = showing /\ shownFor' = shownFor
                           /\ \A p \in showing : ~(shownFor[p] > HidesAfter)
    BY FrameHides
  <1>3. /\ sinceActivity \in Nat /\ clicksSent \in Nat /\ clicksSent <= MaxClicks
        /\ lost \in 0..MaxLost /\ showing \subseteq Pointing
    BY RedrawFacts DEF RedrawInv
  <1>4. /\ Interval \in Nat /\ Lag \in Nat /\ Period \in Nat /\ AllDrawn \in Nat /\ MaxLost \in Nat
        /\ RippleTime \in Nat /\ LongestWait \in Nat /\ MaxSpots \in Nat /\ HidesAfter \in Nat
    BY RedrawNumbers
  <1>5. /\ clicksSent' \in Nat /\ clicksSent' <= clicksSent /\ clicked' = clicked
        /\ clicksSent' > 0 => clicksSent' < clicksSent
        /\ ripples' \in Seq(0..(RippleTime + 1)) /\ Len(ripples') <= MaxAnimations
        /\ OldestFirst(ripples')
        /\ \A i \in DOMAIN ripples' :
             /\ ripples'[i] \in Nat /\ ripples'[i] <= RippleTime
             /\ \/ ripples'[i] = 0 /\ clicksSent > 0
                \/ \E j \in DOMAIN ripples : ripples'[i] = ripples[j]
    BY <1>1, ClicksBegin
  <1>6. Truth \in [Pointing -> 0..MaxSpots]
    <2>1. Nowhere \in 0..MaxSpots /\ spot \in [Pointing -> 0..MaxSpots]
      BY <1>4 DEF RedrawInv, RedrawTypes, Nowhere
    <2> QED BY <2>1 DEF Truth
  <1>7. RedrawTypes'
    <2>1. clicked \in 0..MaxClicks /\ clicksSent <= clicked /\ MaxClicks \in Nat
      BY RedrawNumbers DEF RedrawInv, RedrawTypes
    <2>2. clicksSent' <= clicked' /\ clicked' \in 0..MaxClicks
      BY <1>3, <1>5, <2>1
    <2>3. canvas'.pointers \in [Pointing -> 0..MaxSpots]
          /\ canvas' = [pointers |-> canvas'.pointers, ripples |-> Len(ripples')]
      BY <1>1, <1>6
    <2>4. 0 \in 0..Lag /\ 0 \in Nat
      BY <1>4
    <2> QED BY <1>1, <1>2, <1>5, <2>2, <2>3, <2>4 DEF RedrawInv, RedrawTypes
  <1>8. /\ NextFrame \in Nat /\ NextFrame' \in Nat /\ NextFrameYet' \in Nat
        /\ NextFrame' <= Period /\ NextFrameYet' <= LongestWait
    BY <1>7, FrameTimes, FrameTimesNext DEF RedrawInv
  <1>9. /\ ToBeLost(lost) \in Nat /\ NotEnough(lost, clicksSent) \in Nat /\ LostWaits(lost) \in Nat
        /\ ToBeLost(lost) <= NotEnough(lost, clicksSent)
        /\ LostWaits(lost) + LongestWait <= Patience /\ Patience \in Nat
        /\ \A d \in Nat : 1 <= d /\ d < clicksSent =>
             NotEnough(lost, d) + Period <= NotEnough(lost, clicksSent)
    BY <1>3, FrameNumbers
  <1>10. NotEnough(lost, clicksSent') \in Nat
    <2>1. clicksSent' <= MaxClicks /\ MaxClicks \in Nat
      BY <1>3, <1>5, RedrawNumbers
    <2> QED BY <1>3, <1>5, <2>1, FrameNumbers
  <1>11. DrawnInTime'
    <2> DEFINE thenYet == NextFrameYet'
               waits == LostWaits(lost)
    <2>1. DrawnInTime' = (0 + thenYet + waits <= Patience)
      BY <1>1 DEF DrawnInTime
    <2>2. /\ thenYet \in Nat /\ waits \in Nat /\ thenYet <= LongestWait
          /\ waits + LongestWait <= Patience /\ Patience \in Nat
      BY <1>8, <1>9
    <2> HIDE DEF thenYet, waits
    <2>3. 0 + thenYet + waits <= Patience
      BY <1>4, <2>2
    <2> QED BY <2>1, <2>3
  <1>12. ASSUME signals' = 0 PROVE HeardAll'
    <2>1. /\ ChangesAreDrawn /\ RipplesEnd /\ StoppedAreHidden /\ showing' = showing /\ shownFor' = shownFor
          /\ \A p \in showing : ~(shownFor[p] > HidesAfter)
      BY <1>2, <1>12 DEF RedrawInv, HeardAll
    <2>2. UpToDate' <=> clicksSent' = 0
      <3>1. Truth' = Truth /\ canvas'.pointers = Truth
        BY <1>1, <1>2, <2>1 DEF Truth
      <3> QED BY <3>1 DEF UpToDate
    <2>3. clicksSent > 0 => sinceActivity + NextFrame + NotEnough(lost, clicksSent) <= AllDrawn
      BY <1>3, <2>1 DEF ChangesAreDrawn, UpToDate
    <2>4. ChangesAreDrawn'
      <3>0. ~(behind' > 0) /\ sinceActivity' = sinceActivity /\ lost' = lost
        BY <1>1
      <3>1. CASE clicksSent' = 0
        <4>1. UpToDate'
          BY <2>2, <3>1
        <4> QED BY <3>0, <4>1 DEF ChangesAreDrawn
      <3>2. CASE clicksSent' # 0
        <4> DEFINE c == clicksSent'
                   few == NotEnough(lost, clicksSent)
                   fewer == NotEnough(lost, clicksSent')
                   next == NextFrame
                   then == NextFrame'
        <4>1. c \in Nat /\ 1 <= c /\ c < clicksSent
          BY <1>3, <1>5, <3>2
        <4>2. fewer + Period <= few
          BY <1>9, <4>1
        <4>3. /\ sinceActivity + next + few <= AllDrawn /\ few \in Nat /\ fewer \in Nat
              /\ next \in Nat /\ then \in Nat /\ then <= Period
          BY <1>3, <1>8, <1>9, <1>10, <2>3, <4>1
        <4>4. sinceActivity + then + fewer <= AllDrawn
          <5> HIDE DEF few, fewer, next, then
          <5> QED BY <1>3, <1>4, <4>2, <4>3
        <4> HIDE DEF few, next
        <4> QED BY <3>0, <4>4 DEF ChangesAreDrawn
      <3> QED BY <3>1, <3>2
    <2>5. RipplesEnd'
      <3> SUFFICES ASSUME NEW i \in DOMAIN ripples'
                   PROVE  /\ ripples'[i] <= RippleTime
                          /\ sinceActivity + ToBeLost(lost) <= ripples'[i] + AllDrawn
        BY <1>1 DEF RipplesEnd
      <3>1. ripples'[i] \in Nat /\ ripples'[i] <= RippleTime
        BY <1>5
      <3>2. CASE ripples'[i] = 0 /\ clicksSent > 0
        <4>1. /\ sinceActivity + NextFrame + NotEnough(lost, clicksSent) <= AllDrawn
              /\ NextFrame \in Nat /\ NotEnough(lost, clicksSent) \in Nat /\ ToBeLost(lost) \in Nat
              /\ ToBeLost(lost) <= NotEnough(lost, clicksSent) /\ sinceActivity \in Nat
          BY <1>3, <1>8, <1>9, <2>3, <3>2
        <4>2. sinceActivity + ToBeLost(lost) <= AllDrawn
          BY <1>4, <4>1
        <4> QED BY <1>4, <3>1, <3>2, <4>2
      <3>3. CASE \E j \in DOMAIN ripples : ripples'[i] = ripples[j]
        <4>1. PICK j \in DOMAIN ripples : ripples'[i] = ripples[j]
          BY <3>3
        <4> QED BY <2>1, <3>1, <4>1 DEF RipplesEnd
      <3> QED BY <1>5, <3>2, <3>3
    <2>6. StoppedAreHidden'
      <3> SUFFICES ASSUME NEW p \in showing PROVE shownFor[p] <= HidesAfter /\ sinceActivity <= shownFor[p] + Interval
        BY <1>1, <2>1 DEF StoppedAreHidden
      <3>1. shownFor[p] \in Nat
        BY <1>3, RedrawFacts DEF RedrawInv
      <3>2. shownFor[p] <= HidesAfter
        BY <1>4, <2>1, <3>1
      <3> QED BY <2>1, <3>2 DEF StoppedAreHidden
    <2> QED BY <2>4, <2>5, <2>6 DEF HeardAll
  <1> QED BY <1>5, <1>7, <1>11, <1>12 DEF RedrawInv

LEMMA RedrawInitially == RedrawInit => RedrawInv
  <1> SUFFICES ASSUME RedrawInit PROVE RedrawInv
    OBVIOUS
  <1>1. /\ signals = 0 /\ sinceActivity = 0 /\ waited = 0 /\ asked = FALSE /\ askedFor = 0
        /\ spot = [p \in Pointing |-> 0] /\ showing = {} /\ shownFor = [p \in Pointing |-> 0]
        /\ clicksSent = 0 /\ ripples = <<>> /\ clicked = 0
        /\ canvas = [pointers |-> [p \in Pointing |-> Nowhere], ripples |-> 0]
        /\ behind = 0 /\ lost = 0
    BY DEF RedrawInit
  <1>2. /\ 0 \in 0..MaxSpots /\ 0 \in 0..(HidesAfter + 1) /\ 0 \in 0..MaxClicks /\ 0 \in 0..MaxLost
        /\ 0 \in 0..(RestsAfter + 1) /\ 0 \in 0..Interval /\ 0 \in 0..Lag /\ Interval > 0
        /\ 0 <= MaxAnimations /\ 0 \in Nat
    BY RedrawNumbers
  <1>3. RedrawTypes
    <2>1. ripples \in Seq(0..(RippleTime + 1)) /\ Len(ripples) = 0
      BY <1>1, EmptySeq
    <2>2. canvas = [pointers |-> canvas.pointers, ripples |-> Len(ripples)]
          /\ canvas.pointers \in [Pointing -> 0..MaxSpots]
      BY <1>1, <1>2, <2>1 DEF Nowhere
    <2>3. spot \in [Pointing -> 0..MaxSpots] /\ shownFor \in [Pointing -> 0..(HidesAfter + 1)]
      BY <1>1, <1>2
    <2>4. /\ ripples \in Seq(0..(RippleTime + 1)) /\ Len(ripples) <= MaxAnimations
          /\ clicksSent \in Nat /\ clicksSent <= clicked /\ asked \in BOOLEAN
          /\ showing \subseteq Pointing
      <3>1. clicksSent = 0 /\ clicked = 0 /\ showing = {} /\ asked = FALSE
        BY <1>1
      <3>2. clicksSent \in Nat /\ clicksSent <= clicked /\ asked \in BOOLEAN /\ showing \subseteq Pointing
        <4>1. clicksSent \in Nat /\ clicksSent <= clicked
          BY <3>1
        <4>2. asked \in BOOLEAN /\ showing \subseteq Pointing
          BY <3>1
        <4> QED BY <4>1, <4>2
      <3>3. Len(ripples) <= MaxAnimations
        <4>1. MaxAnimations \in Nat /\ Len(ripples) = 0
          BY <2>1, RedrawNumbers
        <4> QED BY <4>1
      <3> QED BY <2>1, <3>2, <3>3
    <2>5. /\ signals \in Nat /\ sinceActivity \in 0..(RestsAfter + 1) /\ waited \in 0..Interval
          /\ askedFor \in 0..Lag /\ clicked \in 0..MaxClicks /\ behind \in Nat /\ lost \in 0..MaxLost
      BY <1>1, <1>2
    <2> QED BY <2>2, <2>3, <2>4, <2>5 DEF RedrawTypes
  <1>4. HeardAll
    BY <1>1, <1>2, <1>3, HeardLately
  <1>5. DrawnInTime
    <2>1. NextFrameYet \in Nat /\ NextFrameYet <= LongestWait
      BY <1>3, FrameTimes
    <2>2. /\ LostWaits(lost) \in Nat /\ LostWaits(lost) + LongestWait <= Patience /\ Patience \in Nat
          /\ LongestWait \in Nat
      <3>1. lost \in 0..MaxLost /\ clicksSent \in Nat /\ clicksSent <= MaxClicks
        BY <1>3, RedrawFacts
      <3> QED BY <3>1, FrameNumbers, RedrawNumbers
    <2> QED BY <1>1, <2>1, <2>2 DEF DrawnInTime
  <1>6. OldestFirst(ripples)
    BY <1>1 DEF OldestFirst
  <1> QED BY <1>3, <1>4, <1>5, <1>6 DEF RedrawInv

LEMMA RedrawInvariant ==
  ASSUME RedrawInv, RedrawNext \/ UNCHANGED redrawVars PROVE RedrawInv'
  <1>1. ASSUME NEW p \in Pointing, SetPosition(p) PROVE RedrawInv'
    BY <1>1, SetPositionKeeps
  <1>2. ASSUME NEW p \in Pointing, Hide(p) PROVE RedrawInv'
    BY <1>2, HideKeeps
  <1>3. CASE TriggerClickAnimation
    BY <1>3, TriggerClickAnimationKeeps
  <1>4. CASE ThreadHears
    BY <1>4, ThreadHearsKeeps
  <1>5. CASE ThreadTimesOut
    BY <1>5, ThreadTimesOutKeeps
  <1>6. CASE RenderFrame
    <2>1. /\ asked /\ asked' = FALSE /\ askedFor' = 0 /\ HideInactive /\ (Drawn \/ FrameIsLost)
          /\ UNCHANGED threadVars
      BY <1>6 DEF RenderFrame
    <2>2. CASE Drawn
      BY <2>1, <2>2, DrawnKeeps
    <2>3. CASE FrameIsLost
      BY <2>1, <2>3, FrameIsLostKeeps
    <2> QED BY <2>1, <2>2, <2>3
  <1>7. CASE Tick
    BY <1>7, TickKeeps
  <1>8. CASE UNCHANGED redrawVars
    <2>1. UNCHANGED <<signals, sinceActivity, waited, asked, askedFor, spot, showing, shownFor,
                      clicksSent, ripples, clicked, canvas, behind, lost>>
      BY <1>8 DEF redrawVars, threadVars, stateVars, clickVars, canvasVars
    <2>2. NextFrame' = NextFrame /\ NextFrameYet' = NextFrameYet /\ UpToDate' = UpToDate
      BY <2>1 DEF NextFrame, NextFrameYet, UpToDate, Truth
    <2>3. RedrawTypes' = RedrawTypes
      BY <2>1 DEF RedrawTypes
    <2>4. HeardAll' = HeardAll
      BY <2>1, <2>2 DEF HeardAll, ChangesAreDrawn, RipplesEnd, StoppedAreHidden
    <2>5. DrawnInTime' = DrawnInTime
      BY <2>1, <2>2 DEF DrawnInTime
    <2> QED BY <2>1, <2>3, <2>4, <2>5 DEF RedrawInv
  <1> QED BY <1>1, <1>2, <1>3, <1>4, <1>5, <1>6, <1>7, <1>8 DEF RedrawNext

LEMMA RedrawShown == RedrawInv => RedrawTypeOK /\ NothingLeftBehind
  <1> SUFFICES ASSUME RedrawInv PROVE RedrawTypeOK /\ NothingLeftBehind
    OBVIOUS
  <1>1. /\ clicksSent \in Nat /\ clicksSent <= MaxClicks /\ lost \in 0..MaxLost /\ behind \in Nat
        /\ Len(ripples) \in Nat /\ MaxClicks \in Nat
    BY RedrawFacts, RedrawNumbers DEF RedrawInv
  <1>2. RedrawTypes /\ MaxAnimations \in Nat
    BY RedrawNumbers DEF RedrawInv
  <1>3. RedrawTypeOK
    <2>1. clicksSent \in 0..MaxClicks
      BY <1>1
    <2>2. Len(ripples) <= MaxAnimations /\ Len(ripples) \in 0..MaxAnimations
      BY <1>1, <1>2 DEF RedrawTypes
    <2>3. canvas \in [pointers : [Pointing -> 0..MaxSpots], ripples : 0..MaxAnimations]
      BY <1>2, <2>2 DEF RedrawTypes
    <2> QED BY <1>2, <2>1, <2>3 DEF RedrawTypes, RedrawTypeOK
  <1>4. behind <= Patience
    <2>1. LostWaits(lost) \in Nat /\ Patience \in Nat
      BY <1>1, FrameNumbers
    <2>2. NextFrameYet \in Nat /\ behind + NextFrameYet + LostWaits(lost) <= Patience
      BY <1>2, FrameTimes DEF RedrawInv, DrawnInTime
    <2> QED BY <1>1, <2>1, <2>2
  <1>5. Resting => UpToDate /\ showing = {} /\ canvas.ripples = 0
    <2> SUFFICES ASSUME Resting PROVE UpToDate /\ showing = {} /\ canvas.ripples = 0
      OBVIOUS
    <2>1. UpToDate /\ showing = {} /\ ripples = <<>>
      BY NothingWhenResting DEF Resting
    <2>2. canvas.ripples = Len(ripples)
      BY <1>2 DEF RedrawTypes
    <2> QED BY <2>1, <2>2, EmptySeq
  <1> QED BY <1>3, <1>4, <1>5 DEF NothingLeftBehind

--------------------------------------------------------------------------------
(* The pointers over the shared screen. *)

\* The pointers' part of what holds in every state of a room, and the drawing's.
ShownInv == PointersInv /\ RedrawInv

\* The pointers over the shared screen are those of the people who are there, each with a name
\* of its own and, while there are enough, a colour of its own, whatever the order in which
\* people come and go and pictures are built (graphics/participant.rs, and lib.rs); and a
\* change is drawn in time, and nothing is left behind when the thread that asks for frames
\* rests (redraw_thread of graphics_context.rs).
THEOREM ThePointersAreTrue == RoomSpec => []PointersAreTrue
  <1>1. RoomInit => ShownInv
    BY PointersInitially, RedrawInitially DEF RoomInit, ShownInv
  <1>2. ShownInv /\ [RoomNext]_allVars => ShownInv'
    <2> SUFFICES ASSUME ShownInv, [RoomNext]_allVars PROVE ShownInv'
      OBVIOUS
    <2>1. [PointersNext]_pointerVars /\ [RedrawNext]_redrawVars
      BY DEF RoomNext, PeopleNext, OverNext, WatchNext, allVars, overVars
    <2>2. (PointersNext \/ UNCHANGED pointerVars) /\ (RedrawNext \/ UNCHANGED redrawVars)
      BY <2>1
    <2> QED BY <2>2, PointersInvariant, RedrawInvariant DEF ShownInv
  <1>3. ShownInv => PointersAreTrue
    BY PointersShown, RedrawShown DEF ShownInv, PointersAreTrue
  <1> QED BY <1>1, <1>2, <1>3, PTL DEF RoomSpec

--------------------------------------------------------------------------------
(* The types. *)

\* The room's inductive invariant: what the parts' proofs show of them, with the bounds.
RoomInv ==
    /\ PartInv /\ Builders
    /\ CameraInv /\ WindowTypes /\ StoppersMatch
    /\ ScreensInv /\ ShownInv
    /\ WatchInv /\ ViewTypes

\* Every variable of the part that runs has its type: among others, the list's snapshots wait
\* with at most one of each task, a stop channel belongs to the participant whose stream it
\* ends, and no number of a picture is one of a stream that there has not been.
THEOREM TheRoomHasItsTypes == RoomSpec => []RoomTypeOK
  <1>1. RoomInit => RoomInv
    BY PartInitInv, BuildersStart, CamerasStart, WindowTypesStart, PickerInitInv, OverlayInitInv,
       PointersInitially, RedrawInitially, ViewInit, DrawInit, ViewTypesStart, SizeInit
       DEF RoomInit, RoomInv, ScreensInv, ShownInv, WatchInv
  <1>2. RoomInv /\ [RoomNext]_allVars => RoomInv'
    <2> SUFFICES ASSUME RoomInv, [RoomNext]_allVars PROVE RoomInv'
      OBVIOUS
    <2>1. /\ [PartNext]_partVars /\ [CameraNext]_cameraVars
          /\ [PickerNext]_pickerVars /\ [OverlayNext]_overlayVars
          /\ [PointersNext]_pointerVars /\ [RedrawNext]_redrawVars
          /\ [ViewerNext]_viewerVars /\ [ViewSizeNext]_viewSizeVars
      BY DEF RoomNext, PeopleNext, OverNext, WatchNext, allVars, peopleVars, overVars, watchVars
    <2>2. PartInv' /\ Builders'
      <3>1. PartInv' /\ PartTypes /\ PartTypes'
        BY <2>1, PartNextKeeps DEF RoomInv, PartInv
      <3>2. CASE PartNext
        BY <3>1, <3>2, BuildersKeep DEF RoomInv
      <3>3. CASE UNCHANGED partVars
        BY <3>1, <3>3 DEF RoomInv, Builders, HeldOnce, ShowsItsOwn, partVars, listVars
      <3> QED BY <2>1, <3>1, <3>2, <3>3
    <2>3. CameraInv' /\ WindowTypes' /\ StoppersMatch'
      <3>1. CameraInv' /\ CameraTypes
        BY <2>1, CamerasStep DEF RoomInv, CameraInv
      <3>2. CASE CameraNext
        BY <3>1, <3>2, WindowTypesKeep, StoppersKeep DEF RoomInv
      <3>3. CASE UNCHANGED cameraVars
        BY <3>1, <3>3 DEF RoomInv, WindowTypes, StoppersMatch, cameraVars, taskVars, streamVars, windowVars
      <3> QED BY <2>1, <3>1, <3>2, <3>3
    <2>4. ScreensInv'
      <3>1. PickerNext \/ UNCHANGED pickerVars
        BY <2>1
      <3> QED BY <2>1, <3>1, PickerNextInv, OverlayNextInv DEF RoomInv, ScreensInv
    <2>5. ShownInv'
      <3>1. (PointersNext \/ UNCHANGED pointerVars) /\ (RedrawNext \/ UNCHANGED redrawVars)
        BY <2>1
      <3> QED BY <3>1, PointersInvariant, RedrawInvariant DEF RoomInv, ShownInv
    <2>6. WatchInv' /\ ViewTypes'
      <3>1. WatchInv'
        BY <2>1, ViewStep, SizeStep, DrawStep DEF RoomInv, WatchInv
      <3>2. PictureTypes /\ PictureTypes'
        BY <3>1 DEF RoomInv, WatchInv, ViewInv
      <3> QED BY <2>1, <3>1, <3>2, ViewTypesKeep DEF RoomInv
    <2> QED BY <2>2, <2>3, <2>4, <2>5, <2>6 DEF RoomInv
  <1>3. RoomInv => RoomTypeOK
    <2> SUFFICES ASSUME RoomInv PROVE RoomTypeOK
      OBVIOUS
    <2>1. PartTypeOK
      BY PartTypesShown DEF RoomInv, PartInv
    <2>2. CameraTypeOK
      BY CameraTypesShown DEF RoomInv, CameraInv
    <2>3. PickerTypeOK /\ OverlayTypeOK
      BY PickerInvFollows DEF RoomInv, ScreensInv, OverlayInv
    <2>4. PointersTypeOK /\ RedrawTypeOK
      BY PointersShown, RedrawShown DEF RoomInv, ShownInv
    <2>5. ViewerTypeOK /\ ViewSizeTypeOK
      BY ViewerShown, SizesShown DEF RoomInv, WatchInv, ViewInv
    <2> QED BY <2>1, <2>2, <2>3, <2>4, <2>5 DEF RoomTypeOK
  <1> QED BY <1>1, <1>2, <1>3, PTL DEF RoomSpec
==================================================================================
