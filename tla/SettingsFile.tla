------------------------------ MODULE SettingsFile ------------------------------
(***************************************************************************)
(* The application's state on disk (tauri/src-tauri/src/app_state.rs).     *)
(* Every setter changes the state in memory and writes the whole file,     *)
(* under the mutex of AppData; the file is emptied first and then filled,  *)
(* so a crash can leave it torn.  A start reads it, falls back to what an  *)
(* older version could have written, and takes over the token from where   *)
(* that version kept it.                                                   *)
(*                                                                         *)
(* The state is the user's token, a flag (first_run, tray_notification,    *)
(* the last devices and modes are handled alike) and the user settings.    *)
(***************************************************************************)
EXTENDS Naturals

CONSTANTS
    Token,          \* tokens of the user
    NoToken,        \* none
    MaxSaves        \* bound: changes, crashes and starts

ASSUME FileAssumption == NoToken \notin Token /\ MaxSaves \in Nat

VARIABLES
    memory,         \* AppState.state
    file,           \* what the file holds
    tokenFile,      \* user_token.txt of an older version
    runs,           \* "stopped", "running", "saving" or "filling" (the file is empty)
    login,          \* the token that the user set last, in whatever version
    cutOff,         \* the last write was cut off, or the process died before it
    overwritten,    \* the last write was that of a process that had not found the login
    unreadable,     \* the last start found a file that it could not read
    leftOver,       \* the last start left user_token.txt where it was
    changes         \* changes, crashes and starts so far

ghosts == <<login, cutOff, overwritten, unreadable, leftOver>>
fileVars == <<memory, file, tokenFile, runs, ghosts, changes>>

\* kind: a file of this version, one whose user settings this version cannot parse
\* (a field without a default), one that holds nothing, or no file.
AppState == [token : Token \cup {NoToken}, flag : BOOLEAN, settings : BOOLEAN]
Contents == [kind : {"current", "old", "torn", "absent"}, state : AppState]

Defaults == [token |-> NoToken, flag |-> TRUE, settings |-> FALSE]
File(kind, state) == [kind |-> kind, state |-> state]

Counts == changes < MaxSaves /\ changes' = changes + 1

\* set_user_jwt, set_first_run, update_user_setting and the other setters: memory
\* first, then save().
Change ==
    /\ runs = "running" /\ Counts
    /\ \E state \in AppState \ {memory} : memory' = state
    /\ login' = IF memory'.token # memory.token THEN memory'.token ELSE login
    /\ runs' = "saving"
    /\ UNCHANGED <<file, tokenFile, cutOff, overwritten, unreadable, leftOver>>

\* fs::write empties the file.
Empty ==
    /\ runs = "saving"
    /\ file' = File("torn", Defaults)
    /\ runs' = "filling"
    /\ UNCHANGED <<memory, tokenFile, ghosts, changes>>

\* Then it holds the whole state.
Fill ==
    /\ runs = "filling"
    /\ file' = File("current", memory)
    /\ cutOff' = FALSE
    /\ overwritten' = (memory.token # login)
    /\ runs' = "running"
    /\ UNCHANGED <<memory, tokenFile, login, unreadable, leftOver, changes>>

\* save() returns false at either point: that is logged, and the state stays in memory.
SaveFails ==
    /\ runs \in {"saving", "filling"}
    /\ cutOff' = TRUE
    /\ runs' = "running"
    /\ UNCHANGED <<memory, file, tokenFile, login, overwritten, unreadable, leftOver,
                   changes>>

Crash ==
    /\ runs # "stopped" /\ Counts
    /\ cutOff' = (cutOff \/ runs # "running")
    /\ runs' = "stopped"
    /\ UNCHANGED <<memory, file, tokenFile, login, overwritten, unreadable, leftOver>>

--------------------------------------------------------------------------------
(* AppState::new. *)

Starts ==
    /\ runs = "stopped" /\ Counts
    /\ UNCHANGED <<file, login, cutOff, overwritten>>

LeavesBehind(token) == tokenFile' = token /\ leftOver' = (token # NoToken)

\* Without a file: the defaults, written at once.
StartFresh ==
    /\ Starts /\ file.kind = "absent"
    /\ memory' = Defaults
    /\ runs' = "saving" /\ unreadable' = FALSE
    /\ LeavesBehind(tokenFile)

\* The file is there and cannot be read: the defaults, which the next change writes over
\* it; user_token.txt is not looked at.
StartUnreadable ==
    /\ Starts /\ file.kind # "absent"
    /\ memory' = Defaults
    /\ runs' = "running" /\ unreadable' = TRUE
    /\ LeavesBehind(tokenFile)

\* Mutant of Read: what an older version wrote is not looked at.
ReadCurrentOnly(kind, state) == IF kind = "current" THEN state ELSE Defaults

\* What a file of either version gives: the older one's settings are not kept, and it
\* is no first run.
Read(kind, state) ==
    IF kind = "current" THEN state ELSE [state EXCEPT !.flag = FALSE, !.settings = FALSE]

\* retrieve_old_jwt: the token is read and its file removed before it is anywhere else,
\* unless that fails.
StartMigrates ==
    /\ Starts /\ file.kind \in {"current", "old"} /\ tokenFile # NoToken
    /\ memory' = [Read(file.kind, file.state) EXCEPT !.token = tokenFile]
    /\ \E token \in {NoToken, tokenFile} : LeavesBehind(token)
    /\ runs' = "saving" /\ unreadable' = FALSE

\* A file of this version; user_token.txt is not there, or it cannot be read.
StartReads ==
    /\ Starts /\ file.kind = "current"
    /\ memory' = Read("current", file.state)
    /\ runs' = "running" /\ unreadable' = (tokenFile # NoToken)
    /\ LeavesBehind(tokenFile)

\* The fallback keeps the token that the file itself holds, and writes the new form.
StartReadsOld ==
    /\ Starts /\ file.kind = "old"
    /\ memory' = Read("old", file.state)
    /\ runs' = "saving" /\ unreadable' = (tokenFile # NoToken)
    /\ LeavesBehind(tokenFile)

\* Neither form parses: the defaults, and the torn file stays until the next change.
StartGivesUp ==
    /\ Starts /\ file.kind = "torn"
    /\ memory' = Defaults
    /\ runs' = "running" /\ unreadable' = FALSE
    /\ LeavesBehind(tokenFile)

FileInit ==
    /\ file \in {File("absent", Defaults)}
         \cup {File(kind, state) : kind \in {"current", "old"}, state \in AppState}
    /\ tokenFile \in Token \cup {NoToken}
    /\ memory = Defaults
    /\ login = IF tokenFile # NoToken THEN tokenFile ELSE file.state.token
    /\ cutOff = FALSE /\ overwritten = FALSE /\ unreadable = FALSE /\ leftOver = FALSE
    /\ runs = "stopped"
    /\ changes = 0

FileNext ==
    \/ Change \/ Empty \/ Fill \/ SaveFails \/ Crash
    \/ StartFresh \/ StartUnreadable \/ StartMigrates \/ StartReads \/ StartReadsOld
    \/ StartGivesUp

FileSpec == FileInit /\ [][FileNext]_fileVars

--------------------------------------------------------------------------------
(* Correctness. *)

\* Every variable has its type, and a file is torn only while it is written or when a
\* write was cut off.
FileTypeOK ==
    /\ memory \in AppState /\ login \in Token \cup {NoToken}
    /\ file \in Contents
    /\ tokenFile \in Token \cup {NoToken}
    /\ runs \in {"stopped", "running", "saving", "filling"}
    /\ cutOff \in BOOLEAN /\ overwritten \in BOOLEAN
    /\ unreadable \in BOOLEAN /\ leftOver \in BOOLEAN
    /\ changes \in 0..MaxSaves
    /\ file.kind = "torn" => runs = "filling" \/ cutOff

Starting == runs = "stopped" /\ runs' # "stopped"

\* What a start may lose the login to.
LoginLost ==
    \/ file.kind = "absent"                          \* there is no file to read
    \/ cutOff                                        \* the last write was cut off
    \/ unreadable'                                   \* a file could not be read
    \/ overwritten                                   \* ... by an earlier start, which saved
    \/ leftOver /\ memory'.token = tokenFile         \* an old token was read once more

\* Over restarts and the change of version the user keeps the login, the token that was
\* set last, whatever version kept it and wherever: it is lost only to a file that is not
\* there, is cut off or cannot be read, now or at a start that has saved since, and to a
\* user_token.txt that an earlier start could not read or not remove.
StaysLoggedIn == [][Starting => memory'.token = login \/ LoginLost]_fileVars
================================================================================
