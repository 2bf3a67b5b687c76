--------------------------------- MODULE Sounds ---------------------------------
(***************************************************************************)
(* The sounds of the application (tauri/src-tauri/src/sounds.rs,           *)
(* play_sound and stop_sound of main.rs).  A command looks for the sound   *)
(* under the mutex of AppData, starts a player without it, and takes it    *)
(* again to enter the player; the player polls its channel for a command.  *)
(*                                                                         *)
(* One sound, a looped one: the ring of an incoming call.                  *)
(***************************************************************************)
EXTENDS Naturals, Sequences, FiniteSets, SequencesExt

CONSTANTS
    SoundThread,    \* threads that run play_sound
    MaxPlays        \* bound: players started, and stops asked for

ASSUME SoundAssumption == IsFiniteSet(SoundThread) /\ MaxPlays \in Nat

VARIABLES
    entries,        \* AppData.sound_entries: players, in the order they were entered
    checked,        \* threads that found no player and are to start one
    playing,        \* per thread, the player it has to enter (0: none)
    player,         \* per player: "starting", "sounding" or "ended"
    told,           \* players told to stop
    stops           \* stops asked for

soundVars == <<entries, checked, playing, player, told, stops>>

Player == 1..Len(player)
Ended(p) == player[p] = "ended"
Idle(t) == t \notin checked /\ playing[t] = 0

\* The first block of play_sound: an entry whose player has ended goes, one whose
\* player lives ends the command.
CheckSound(t) ==
    /\ Idle(t)
    /\ entries # <<>> => Ended(Head(entries))
    /\ entries' = IF entries = <<>> THEN entries ELSE Tail(entries)
    /\ checked' = checked \cup {t}
    /\ UNCHANGED <<playing, player, told, stops>>

\* The middle of play_sound: a player, not entered yet.
SpawnPlayer(t) ==
    /\ t \in checked /\ Len(player) < MaxPlays
    /\ checked' = checked \ {t}
    /\ player' = Append(player, "starting")
    /\ playing' = [playing EXCEPT ![t] = Len(player')]
    /\ UNCHANGED <<entries, told, stops>>

\* Mutant of EnterPlayer: the new entry replaces those there are.
ReplaceEntry(t) ==
    /\ playing[t] \in Player
    /\ entries' = <<playing[t]>>
    /\ playing' = [playing EXCEPT ![t] = 0]
    /\ UNCHANGED <<checked, player, told, stops>>

\* The last block of play_sound.
EnterPlayer(t) ==
    /\ playing[t] \in Player
    /\ entries' = Append(entries, playing[t])
    /\ playing' = [playing EXCEPT ![t] = 0]
    /\ UNCHANGED <<checked, player, told, stops>>

\* sounds::play_sound: a stream and the file, or an error.
PlayerStarts(p) ==
    /\ player[p] = "starting"
    /\ \E next \in {"sounding", "ended"} : player' = [player EXCEPT ![p] = next]
    /\ UNCHANGED <<entries, checked, playing, told, stops>>

\* Its loop: the command to stop ends it; a looped source does not.
PlayerEnds(p) ==
    /\ player[p] = "sounding" /\ p \in told
    /\ player' = [player EXCEPT ![p] = "ended"]
    /\ UNCHANGED <<entries, checked, playing, told, stops>>

\* stop_sound: the first entry of that name is told, and goes.
StopSound ==
    /\ stops < MaxPlays /\ stops' = stops + 1
    /\ entries # <<>>
    /\ told' = told \cup {Head(entries)}
    /\ entries' = Tail(entries)
    /\ UNCHANGED <<checked, playing, player>>

SoundInit ==
    /\ entries = <<>> /\ player = <<>>
    /\ playing = [t \in SoundThread |-> 0] /\ checked = {}
    /\ told = {} /\ stops = 0

SoundNext ==
    \/ \E t \in SoundThread : CheckSound(t) \/ SpawnPlayer(t) \/ EnterPlayer(t)
    \/ \E p \in Player : PlayerStarts(p) \/ PlayerEnds(p)
    \/ StopSound

SoundSpec == SoundInit /\ [][SoundNext]_soundVars

--------------------------------------------------------------------------------
(* Correctness. *)

\* Every variable has its type, and no player is entered twice.
SoundTypeOK ==
    /\ player \in Seq({"starting", "sounding", "ended"}) /\ Len(player) <= MaxPlays
    /\ entries \in Seq(Player) /\ IsInjective(entries)
    /\ checked \subseteq SoundThread /\ playing \in [SoundThread -> {0} \cup Player]
    /\ told \subseteq Player /\ stops \in 0..MaxPlays

\* However plays and stops of one sound cross, no ring is out of reach: a player that
\* sounds has been told to stop, is entered where the next stop finds it, or is about
\* to be.
NoLostSound ==
    \A p \in Player :
        player[p] = "sounding" =>
            \/ p \in told \/ p \in ToSet(entries)
            \/ \E t \in SoundThread : playing[t] = p
================================================================================
