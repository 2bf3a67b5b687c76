--------------------------------- MODULE Audio ---------------------------------
(***************************************************************************)
(* The microphone of a core process (core/src/audio/capturer.rs and its     *)
(* callers in lib.rs).                                                      *)
(*                                                                          *)
(* A capture thread reads one microphone and sends what it hears to the     *)
(* audio track of the call.  It looks at its stop flag between two reads    *)
(* only; a read that comes up short, of a microphone that is gone, ends it  *)
(* with an event.  The event loop replaces the thread when the user chooses *)
(* another microphone, when the default one changes and the one in use has  *)
(* gone, and when that event arrives.                                       *)
(*                                                                          *)
(* Microphones are known by names, and two may have the same.               *)
(***************************************************************************)
EXTENDS Naturals, Sequences, FiniteSets, SequencesExt

CONSTANTS
    Mic,
    NoMic,
    NoName,
    Namings,        \* the names the microphones may have, a set of functions
    MaxCaptures,    \* bound: calls and choices of a microphone
    MaxPlugs        \* bound: what microphones do, and streams that do not open

\* A name is a sequence: when <<0>> is "Mic", <<0, 2>> is what the code writes "Mic (2)".
ASSUME AudioAssumption ==
    /\ IsFiniteSet(Mic) /\ NoMic \notin Mic /\ {MaxCaptures, MaxPlugs} \subseteq Nat
    /\ Namings \subseteq [Mic -> Seq(Nat)]

VARIABLES
    mics,           \* the system's microphones, in its order
    standard,       \* the default one
    raw,            \* their names
    available,      \* Capturer::available_devices, as last listed
    stopFlag,       \* stop_flag: which one
    raised,         \* the stop flags that say stop
    tx,             \* sample_tx: the call it belongs to, or 0
    activeName,     \* active_device_name
    capturing,      \* the capture threads
    call,           \* the call there is, or 0
    listening,      \* the calls whose audio track still takes samples
    errors,         \* AudioCaptureError events in the queue
    defaultNews,    \* a DefaultInputDeviceChanged event is there
    open,           \* the camera window is visible
    window,         \* the microphone that it shows
    untold,         \* a call has begun since, which does not tell the window
    silent,         \* in this call the microphone was "stopped", or a stream "failed" to
                    \* open, or "no"
    captures, plugs

systemVars == <<mics, standard, raw, plugs>>
capturerVars == <<available, stopFlag, raised, tx, activeName, capturing>>
shownVars == <<open, window, untold>>
audioVars == <<systemVars, capturerVars, call, listening, errors, defaultNews, shownVars,
               silent, captures>>

\* A thread remembers the name its microphone had in the list, and of the default one the
\* name the system gives.
Thread ==
    [mic : Mic, flag : Nat, call : 1..MaxCaptures, dead : BOOLEAN, name : Seq(Nat)]

--------------------------------------------------------------------------------
(* Names. *)

Duplicates(names, i) == {j \in 1..(i - 1) : names[j] = names[i]}

\* The first free number from that of its place among the duplicates on.
Numbered(names, i, taken) ==
    LET first == Cardinality(Duplicates(names, i)) + 1
        free == {n \in first..(first + Len(names)) : Append(names[i], n) \notin taken}
    IN Append(names[i], CHOOSE n \in free : \A k \in free : n <= k)

\* The name itself, and for its duplicates one with a number, given those before.
NameGiven(names, i, before) ==
    IF Duplicates(names, i) = {} THEN names[i]
    ELSE Numbered(names, i, ToSet(names) \cup ToSet(before))

AssignUiNames(names) ==
    LET given[i \in 0..Len(names)] ==
            IF i = 0 THEN <<>> ELSE Append(given[i - 1], NameGiven(names, i, given[i - 1]))
    IN given[Len(names)]

RawNames(list) == [i \in DOMAIN list |-> raw[list[i]]]
UiNames(list) == AssignUiNames(RawNames(list))

\* Where the first with the name is, or 0.
Position(names, name) ==
    LET at == {i \in DOMAIN names : names[i] = name}
    IN IF at = {} THEN 0 ELSE CHOOSE i \in at : \A j \in at : i <= j

\* The place a name stands for: what users see comes before what the system says.
Place(list, name) ==
    LET ui == Position(UiNames(list), name)
    IN IF ui # 0 THEN ui ELSE Position(RawNames(list), name)

Chosen(list, name) ==
    IF Place(list, name) = 0 THEN NoMic ELSE list[Place(list, name)]

ListedAs(list, m) == UiNames(list)[Position(list, m)]

\* Of the default microphone only the system's name is known.
UiNameOf(list, m) ==
    LET i == Position(RawNames(list), raw[m])
    IN IF i = 0 THEN raw[m] ELSE UiNames(list)[i]

--------------------------------------------------------------------------------
(* The system's microphones. *)

PlugsOne == plugs < MaxPlugs /\ plugs' = plugs + 1

NewDefault(among) ==
    /\ standard' \in (IF among = {} THEN {NoMic} ELSE among)
    /\ defaultNews' = (defaultNews \/ standard' # standard)

PlugIn(m) ==
    /\ PlugsOne /\ m \notin ToSet(mics)
    /\ mics' = Append(mics, m)
    /\ NewDefault({m, standard} \ {NoMic})
    /\ UNCHANGED <<raw, capturerVars, call, listening, errors, shownVars, silent, captures>>

\* A stream does not come back with its microphone.
PullOut(m) ==
    /\ PlugsOne /\ m \in ToSet(mics)
    /\ \E i \in DOMAIN mics : mics[i] = m /\ mics' = RemoveAt(mics, i)
    /\ capturing' = {[t EXCEPT !.dead = @ \/ t.mic = m] : t \in capturing}
    /\ NewDefault(IF m = standard THEN ToSet(mics) \ {m} ELSE {standard})
    /\ UNCHANGED <<raw, available, stopFlag, raised, tx, activeName, call, listening, errors,
                   shownVars, silent, captures>>

SetDefault(m) ==
    /\ PlugsOne /\ m \in ToSet(mics) \ {standard}
    /\ NewDefault({m})
    /\ UNCHANGED <<mics, raw, capturerVars, call, listening, errors, shownVars, silent,
                   captures>>

--------------------------------------------------------------------------------
(* The capturer. *)

\* Mutant of FreshFlag: the thread that is to stop and the next one share a flag.
SameFlag == stopFlag

\* stop_thread: the old thread keeps the old flag, which goes with it.
Held == {t.flag : t \in capturing}
FreshFlag == CHOOSE f \in 1..(Cardinality(capturing) + 1) : f \notin Held
StopThread == stopFlag' = FreshFlag /\ raised' = (raised \cup {stopFlag}) \cap Held /\ tx' = 0

\* A named microphone that cannot be had is replaced by the default one.
FellBack(list, name) == Chosen(list, name) \notin ToSet(mics)
OpenedMic(list, name) == IF FellBack(list, name) THEN standard ELSE Chosen(list, name)

\* Mutant of ActiveName: the system's name for every microphone.
ActiveBySystem(list, name) == UiNameOf(list, OpenedMic(list, name))

\* The default microphone is looked up by the system's name, a chosen one is known.
ActiveName(list, name) ==
    IF FellBack(list, name) THEN UiNameOf(list, standard)
                            ELSE UiNames(list)[Place(list, name)]

KnownAs(list, name) ==
    IF FellBack(list, name) THEN raw[standard] ELSE ListedAs(list, Chosen(list, name))

\* start_capture with what has been listed: the flag of a capture that goes on is raised.
StartCapture(list, name, c) ==
    LET m == OpenedMic(list, name)
        f == IF tx # 0 THEN FreshFlag ELSE stopFlag
    IN /\ m # NoMic
       /\ stopFlag' = f
       /\ raised' = (IF tx # 0 THEN raised \cup ({stopFlag} \cap Held) ELSE raised) \ {f}
       /\ tx' = c
       /\ capturing' = capturing \cup {[mic |-> m, flag |-> f, call |-> c, dead |-> FALSE,
                                        name |-> KnownAs(list, name)]}
       /\ activeName' = ActiveName(list, name)
       /\ silent' = "no"
       /\ UNCHANGED plugs

\* There is no microphone, or its stream does not open: sample_tx is gone already.
StartCaptureFails(list, name) ==
    /\ \/ OpenedMic(list, name) = NoMic /\ UNCHANGED plugs
       \/ PlugsOne
    /\ IF tx # 0 THEN StopThread ELSE UNCHANGED <<stopFlag, raised, tx>>
    /\ UNCHANGED <<capturing, activeName>>
    /\ silent' = IF call # 0 THEN "failed" ELSE silent

SwitchDevice(name) ==
    /\ available' = mics
    /\ (StartCapture(mics, name, tx) \/ StartCaptureFails(mics, name))

HandleDefaultDeviceChanged(force) ==
    IF tx = 0 THEN UNCHANGED <<capturerVars, plugs, silent>>
    ELSE IF ~force /\ activeName \in ToSet(UiNames(mics))
    THEN /\ available' = mics
         /\ UNCHANGED <<stopFlag, raised, tx, activeName, capturing, plugs, silent>>
    ELSE SwitchDevice(NoName)

StopCapture == StopThread /\ activeName' = NoName /\ UNCHANGED <<available, capturing>>

--------------------------------------------------------------------------------
(* A capture thread. *)

\* It is told to stop, or nobody takes its samples.
ThreadEnds(t) ==
    /\ t.flag \in raised \/ t.call \notin listening
    /\ UNCHANGED errors

\* It does so also when it has been told to stop while it read.
ThreadReadsShort(t) ==
    /\ t.dead
    /\ errors' = errors + 1

CaptureThread(t) ==
    /\ t \in capturing /\ (ThreadEnds(t) \/ ThreadReadsShort(t))
    /\ capturing' = capturing \ {t}
    /\ raised' = raised \cap {u.flag : u \in capturing'}
    /\ UNCHANGED <<systemVars, available, stopFlag, tx, activeName, call, listening,
                   defaultNews, shownVars, silent, captures>>

--------------------------------------------------------------------------------
(* The event loop. *)

Captures == captures < MaxCaptures /\ captures' = captures + 1

\* A name can come from any list, or from what an earlier version has saved.
NamesOf(list) == ToSet(UiNames(list)) \cup ToSet(RawNames(list))
NamesSeen == NamesOf(available) \cup NamesOf(mics)

ListAudioDevices ==
    /\ available # mics /\ available' = mics
    /\ UNCHANGED <<systemVars, stopFlag, raised, tx, activeName, capturing, call, listening,
                   errors, defaultNews, shownVars, silent, captures>>

\* CallStart, in a call too: it takes the microphones as they were listed last, and tells
\* no window.  A stream that does not open leaves the call there is without one.
CallCaptures(name) ==
    /\ Captures
    /\ UNCHANGED <<mics, standard, raw, available, errors, defaultNews, open, window>>
    /\ \/ StartCapture(available, name, captures') /\ call' = captures'
          /\ listening' = listening \cup {captures'}
          /\ untold' = open
       \/ StartCaptureFails(available, name) /\ UNCHANGED <<call, listening, untold>>

\* stop_mic: the room service unpublishes the track when it comes to it.
StopMic ==
    /\ StopCapture
    /\ UNCHANGED <<systemVars, listening, errors, defaultNews, captures>>

Hides == open' = FALSE /\ window' = NoName /\ untold' = FALSE

\* CallEnd, and a room that could not be made; if not even its making could be asked for,
\* the window stays.
CallReleases ==
    /\ call # 0 /\ StopMic
    /\ call' = 0 /\ silent' = "no"
    /\ Hides \/ UNCHANGED shownVars

StopAudioCapture ==
    /\ StopMic
    /\ silent' = IF call # 0 THEN "stopped" ELSE silent
    /\ UNCHANGED <<call, shownVars>>

TrackIsUnpublished(c) ==
    /\ c \in listening /\ tx # c /\ (c # call \/ silent = "stopped")
    /\ listening' = listening \ {c}
    /\ UNCHANGED <<systemVars, capturerVars, call, errors, defaultNews, shownVars, silent,
                   captures>>

\* The window shows the choice at once, then what is captured.
StartAudioCapture(name, fromWindow) ==
    /\ Captures /\ (fromWindow => open)
    /\ IF tx # 0 THEN SwitchDevice(name) ELSE UNCHANGED <<capturerVars, plugs, silent>>
    /\ window' = IF tx' # 0 /\ open THEN activeName'
                 ELSE IF fromWindow THEN name ELSE window
    /\ untold' = (untold /\ tx' = 0)
    /\ UNCHANGED <<mics, standard, raw, call, listening, errors, defaultNews, open>>

Tells ==
    /\ window' = IF open THEN activeName' ELSE window
    /\ untold' = FALSE
    /\ UNCHANGED open

DefaultInputDeviceChanged ==
    /\ defaultNews /\ defaultNews' = FALSE
    /\ HandleDefaultDeviceChanged(FALSE) /\ Tells
    /\ UNCHANGED <<mics, standard, raw, call, listening, errors, captures>>

AudioCaptureError ==
    /\ errors > 0 /\ errors' = errors - 1
    /\ HandleDefaultDeviceChanged(TRUE) /\ Tells
    /\ UNCHANGED <<mics, standard, raw, call, listening, defaultNews, captures>>

OpenCameraWindow ==
    /\ ~open /\ open' = TRUE
    /\ window' = activeName /\ untold' = FALSE
    /\ UNCHANGED <<systemVars, capturerVars, call, listening, errors, defaultNews, silent,
                   captures>>

\* By its user, or with the last camera.
CloseCameraWindow ==
    /\ open /\ Hides
    /\ UNCHANGED <<systemVars, capturerVars, call, listening, errors, defaultNews, silent,
                   captures>>

--------------------------------------------------------------------------------
(* Specification. *)

AudioInit ==
    /\ \E there \in SUBSET Mic :
         /\ mics = SetToSeq(there)
         /\ standard \in (IF there = {} THEN {NoMic} ELSE there)
    /\ raw \in Namings
    /\ available = <<>> /\ stopFlag = 1 /\ raised = {} /\ tx = 0 /\ activeName = NoName
    /\ capturing = {} /\ call = 0 /\ listening = {} /\ errors = 0 /\ defaultNews = FALSE
    /\ open = FALSE /\ window = NoName /\ untold = FALSE
    /\ silent = "no" /\ captures = 0 /\ plugs = 0

AudioNext ==
    \/ \E m \in Mic : PlugIn(m) \/ PullOut(m) \/ SetDefault(m)
    \/ \E t \in capturing : CaptureThread(t)
    \/ \E name \in NamesSeen \cup {NoName} : CallCaptures(name)
    \/ \E name \in NamesSeen, fromWindow \in BOOLEAN : StartAudioCapture(name, fromWindow)
    \/ ListAudioDevices \/ CallReleases \/ StopAudioCapture
    \/ OpenCameraWindow \/ CloseCameraWindow
    \/ \E c \in listening : TrackIsUnpublished(c)
    \/ DefaultInputDeviceChanged \/ AudioCaptureError

AudioSpec == AudioInit /\ [][AudioNext]_audioVars

--------------------------------------------------------------------------------
(* Correctness. *)

\* Every variable has its type; microphones in a list are listed once.
AudioTypeOK ==
    /\ mics \in Seq(Mic) /\ available \in Seq(Mic) /\ IsInjective(mics) /\ IsInjective(available)
    /\ standard \in ToSet(mics) \cup {NoMic} /\ raw \in Namings
    /\ stopFlag \in Nat /\ raised \subseteq {t.flag : t \in capturing} /\ tx \in 0..captures
    /\ capturing \subseteq Thread /\ call \in 0..captures /\ listening \subseteq 1..captures
    /\ errors \in Nat /\ defaultNews \in BOOLEAN /\ silent \in {"no", "stopped", "failed"}
    /\ open \in BOOLEAN /\ untold \in BOOLEAN
    /\ captures \in 0..MaxCaptures /\ plugs \in 0..MaxPlugs

Obeys(t) == t.flag \notin raised

\* Nothing is under way: no event waits, and each thread goes on undisturbed.
AudioAtRest ==
    /\ errors = 0 /\ ~defaultNews
    /\ \A t \in capturing : ~t.dead /\ Obeys(t) /\ t.call \in listening

\* Never do two threads go on that nobody has told to stop, however late an old one looks
\* at its flag; outside a call no microphone stays open; and in a call one is, of that
\* call, whichever microphones came, went and were chosen meanwhile, until the user stops
\* it or a stream does not open, which leaves the call silent.  A window that is open shows
\* the name which that microphone had when it was chosen, or the system's if it is the
\* default one, unless the call has begun behind an open window.
VoiceIsCaptured ==
    /\ \A t, u \in capturing : Obeys(t) /\ Obeys(u) => t = u
    /\ AudioAtRest =>
        /\ call = 0 \/ silent # "no" => capturing = {}
        /\ call # 0 /\ silent = "no" => \E t \in capturing :
             t.call = call /\ (open /\ ~untold => window = t.name)
    /\ \A list \in {mics, available} : IsInjective(UiNames(list))
================================================================================
