----------------------------- MODULE MCBetweenCores -----------------------------
(* What passes between the cores of one call: whose screen is shown (ShareRoom),   *)
(* what is drawn on it (Drawing), the watchers' keys and buttons (RemoteInput) and *)
(* texts (Clipboard), and how it is all published (RoomMessages).  The parts share *)
(* no state: in each behaviour one runs and the others rest.                       *)
EXTENDS ShareRoom, Drawing, RemoteInput, Clipboard, RoomMessages, TLC

CONSTANTS ann, bob, carl, speaker, listener

MCCore == {ann, bob, carl}
MCLatecomers == {carl}
MCSides == {ann, bob}
MCPeers == {speaker, listener}
MCSpeakers == {speaker}

\* In every part Ann and Bob are alike.
MCSymmetry == Permutations({ann, bob})

VARIABLE part

sharedVars == <<drawingVars, inputVars, clipboardVars>>
betweenVars == <<part, sharingVars, sharedVars, messageVars>>

\* Three who wish twice, or two who wish as often as they may and are left by the third.
Sharing ==
    \/ part = "three" /\ wishes = MaxWishes - 2 /\ call[carl] = "before"
    \/ part = "pair" /\ wishes = 0 /\ call[carl] = "after"

BetweenInit ==
    /\ part \in {"three", "pair", "drawing", "input", "clipboard", "messages"}
    /\ ShareInit /\ DrawingInit /\ InputInit /\ ClipboardInit /\ MessagesInit
    /\ Sharing \/ (part \notin {"three", "pair"} /\ wishes = 0 /\ call[carl] = "before")
    /\ part = "drawing" \/ artist = "sharer"
    /\ part = "input" \/ modFirst

SharedNext ==
    \/ part = "drawing" /\ DrawingNext /\ UNCHANGED <<inputVars, clipboardVars>>
    \/ part = "input" /\ InputNext /\ UNCHANGED <<drawingVars, clipboardVars>>
    \/ part = "clipboard" /\ ClipboardNext /\ UNCHANGED <<drawingVars, inputVars>>

BetweenNext ==
    \/ part \in {"three", "pair"} /\ ShareNext /\ UNCHANGED <<part, sharedVars, messageVars>>
    \/ SharedNext /\ UNCHANGED <<part, sharingVars, messageVars>>
    \/ part = "messages" /\ MessagesNext /\ UNCHANGED <<part, sharingVars, sharedVars>>

BetweenSpec == BetweenInit /\ [][BetweenNext]_betweenVars

\* Every variable of the part that runs has its type.
BetweenTypeOK ==
    /\ part \in {"three", "pair"} => ShareTypeOK
    /\ part = "drawing" => DrawingTypeOK
    /\ part = "input" => InputTypeOK
    /\ part = "clipboard" => ClipboardTypeOK
    /\ part = "messages" => MessagesTypeOK
================================================================================
