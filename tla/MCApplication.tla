----------------------------- MODULE MCApplication -----------------------------
(* The application and its core process (AppSocket), the parts of the            *)
(* application's back end, and the core's microphone (Audio), which share no     *)
(* state, in one instance: in each behaviour one part runs and the others rest.  *)
EXTENDS AppSocket, Sounds, SettingsFile, Backend, Audio

CONSTANTS c1, c2, on, off, t1, t2, jwt1, jwt2, mic1, mic2

MCCmd == {c1, c2}
MCSetting == {on, off}
MCSoundThread == {t1, t2}
MCToken == {jwt1, jwt2}

\* Two microphones of one name, and two of which one has the name of a second.
MCMic == {mic1, mic2}
MCNamings == {[m \in MCMic |-> <<0>>], [m \in MCMic |-> IF m = mic1 THEN <<0>> ELSE <<0, 2>>]}

VARIABLE part

allVars == <<part, vars, soundVars, fileVars, backVars, audioVars>>

ApplicationInit ==
    /\ part \in {"socket", "sounds", "file", "backend", "audio"}
    /\ Init /\ SoundInit /\ BackInit /\ AudioInit
    /\ FileInit
    /\ setting = off /\ control = off
    /\ part # "file" => file = File("absent", Defaults) /\ tokenFile = NoToken
    /\ part # "backend" => ~notice /\ dialog = "none"
    /\ part # "audio" => standard = NoMic /\ raw = [m \in MCMic |-> <<0>>]

ApplicationNext ==
    \/ part = "socket" /\ Next /\ UNCHANGED <<part, soundVars, fileVars, backVars, audioVars>>
    \/ part = "sounds" /\ SoundNext /\ UNCHANGED <<part, vars, fileVars, backVars, audioVars>>
    \/ part = "file" /\ FileNext /\ UNCHANGED <<part, vars, soundVars, backVars, audioVars>>
    \/ part = "backend" /\ BackNext /\ UNCHANGED <<part, vars, soundVars, fileVars, audioVars>>
    \/ part = "audio" /\ AudioNext /\ UNCHANGED <<part, vars, soundVars, fileVars, backVars>>

\* In a part that rests nothing that fairness is about can happen.
ApplicationSpec ==
    /\ ApplicationInit /\ [][ApplicationNext]_allVars
    /\ Fairness

\* Every variable of the application's parts has its type.
ApplicationTypeOK == TypeOK /\ SoundTypeOK /\ FileTypeOK /\ BackTypeOK /\ AudioTypeOK
================================================================================
