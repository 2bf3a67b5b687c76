------------------------------- MODULE Clipboard -------------------------------
(***************************************************************************)
(* Copy and paste between the machines of a call (core/src/input/clipboard.rs *)
(* and its callers in core/src/lib.rs).  Who watches copies from the sharer's  *)
(* machine and pastes into it; a text travels in packets of 15 KiB, reliably   *)
(* and in order, and is put together where it arrives.  Everybody has one      *)
(* ClipboardController with one clipboard_payload, which collects the packets  *)
(* of what is pasted here while sharing and of what was copied elsewhere while *)
(* watching.                                                                 *)
(*                                                                         *)
(* A text is an identity and the number of its packets; what is on a system   *)
(* clipboard is the sequence of pieces it was made of.                        *)
(***************************************************************************)
EXTENDS Naturals, Sequences, FiniteSets

CONSTANTS
    Sides,          \* the two people who share with each other
    NoSide,
    MaxTexts,       \* bound: texts copied, on either machine
    MaxPackets,     \* bound: packets of a text
    MaxRequests,    \* bound: requests of those who watch
    MaxTurns        \* bound: how often a share begins or ends

ASSUME ClipboardAssumption ==
    /\ NoSide \notin Sides
    /\ {MaxTexts, MaxPackets, MaxRequests, MaxTurns} \subseteq Nat

VARIABLES
    host,           \* who shares and has a remote control, or NoSide
    obeys,          \* the host's keyboard is enabled
    clipboard,      \* the system clipboards: pieces, or nothing
    payload,        \* clipboard_payload
    arriving,       \* packets and requests under way to a side
    torn,           \* the side's clipboard was set after such pieces
    last,           \* the last piece that reached a side's payload
    misfit,         \* pieces have come out of turn since the payload was last begun
    texts, requests, turns

counts == <<texts, requests, turns>>
clipboardVars == <<host, obeys, clipboard, payload, arriving, torn, last, misfit, counts>>

Other(s) == CHOOSE t \in Sides : t # s
Piece(text, id, total) == [text |-> text, id |-> id, total |-> total]
Pieces(text, total) == [i \in 1..total |-> Piece(text, i - 1, total)]

NoPacket == Piece(0, 0, 0)
Packet(kind, piece) == [kind |-> kind, piece |-> piece]

\* The text on a clipboard is cut into packets again.
Packets(kind, pieces) ==
    [i \in DOMAIN pieces |-> Packet(kind, [pieces[i] EXCEPT !.id = i - 1, !.total = Len(pieces)])]

Send(t, packets) == arriving' = [arriving EXCEPT ![t] = @ \o packets]

--------------------------------------------------------------------------------
(* Those who share and watch. *)

\* Somebody copies a text on his own machine.
CopyHere(s, total) ==
    /\ texts < MaxTexts /\ texts' = texts + 1
    /\ clipboard' = [clipboard EXCEPT ![s] = Pieces(texts + 1, total)]
    /\ torn' = [torn EXCEPT ![s] = FALSE]
    /\ UNCHANGED <<host, obeys, payload, arriving, last, misfit, requests, turns>>

TurnChanges(s) ==
    /\ turns < MaxTurns /\ turns' = turns + 1
    /\ host' = s
    /\ UNCHANGED <<obeys, clipboard, payload, arriving, torn, last, misfit, texts, requests>>

ObeysChanges ==
    /\ turns < MaxTurns /\ turns' = turns + 1
    /\ obeys' = ~obeys
    /\ UNCHANGED <<host, clipboard, payload, arriving, torn, last, misfit, texts, requests>>

Asks(s) ==
    /\ host = Other(s)
    /\ requests < MaxRequests /\ requests' = requests + 1
    /\ UNCHANGED <<host, obeys, payload, last, misfit, texts, turns>>

AskForCopy(s) ==
    /\ Asks(s)
    /\ Send(host, <<Packet("copy", NoPacket)>>)
    /\ UNCHANGED <<clipboard, torn>>

\* The text leaves this machine's clipboard; without one the host pastes its own.
AskForPaste(s) ==
    /\ Asks(s)
    /\ Send(host, IF clipboard[s] = <<>> THEN <<Packet("paste", NoPacket)>>
                  ELSE Packets("paste", clipboard[s]))
    /\ clipboard' = [clipboard EXCEPT ![s] = <<>>]
    /\ torn' = [torn EXCEPT ![s] = FALSE]

--------------------------------------------------------------------------------
(* Putting a text together. *)

\* sort_by_key: by packet_id, and equals stay in their order.
Before(pieces, i, j) == pieces[i].id < pieces[j].id \/ (pieces[i].id = pieces[j].id /\ i < j)
Place(pieces, i) == Cardinality({j \in DOMAIN pieces : Before(pieces, j, i)}) + 1

\* construct_clipboard_data: decoded as a whole.
Constructed(pieces) ==
    [n \in DOMAIN pieces |-> pieces[CHOOSE i \in DOMAIN pieces : Place(pieces, i) = n]]

\* Mutant of Collected: a text that is put together stays in the payload.
CollectedAndKept(s, piece) == Append(payload[s], piece)

\* The payload with one more piece, cleared when it has as many as that piece tells.
Collected(s, piece) ==
    IF Len(payload[s]) + 1 = piece.total THEN <<>> ELSE Append(payload[s], piece)

Completes(s, piece) == Len(payload[s]) + 1 = piece.total

IsLast(piece) == piece.id + 1 >= piece.total

\* A text's first piece is in turn after the last of another, its other pieces after
\* the one before.
InTurn(s, piece) ==
    IF piece.id = 0 THEN IsLast(last[s])
    ELSE last[s] = [piece EXCEPT !.id = @ - 1]

OutOfTurn(s, piece) ==
    IF piece.id = 0 /\ payload[s] = <<>> THEN FALSE ELSE misfit[s] \/ ~InTurn(s, piece)

Collect(s, piece) ==
    /\ payload' = [payload EXCEPT ![s] = Collected(s, piece)]
    /\ last' = [last EXCEPT ![s] = piece]
    /\ misfit' = [misfit EXCEPT ![s] = OutOfTurn(s, piece)]
    /\ IF Completes(s, piece)
       THEN /\ clipboard' = [clipboard EXCEPT ![s] = Constructed(Append(payload[s], piece))]
            /\ torn' = [torn EXCEPT ![s] = OutOfTurn(s, piece)]
       ELSE UNCHANGED <<clipboard, torn>>

--------------------------------------------------------------------------------
(* What arrives. *)

Receives(s, kind) ==
    /\ arriving[s] # <<>> /\ Head(arriving[s]).kind = kind
    /\ UNCHANGED <<host, obeys, requests, turns>>
Taken(s) == [arriving EXCEPT ![s] = Tail(@)]

\* The keys are pressed, and what is selected is copied, if anything is; then the
\* clipboard's text is sent, whether it is that or an older one.
AddToClipboard(s, selected) ==
    /\ Receives(s, "copy") /\ host = s
    /\ IF obeys /\ selected # 0 /\ texts < MaxTexts
       THEN /\ texts' = texts + 1
            /\ clipboard' = [clipboard EXCEPT ![s] = Pieces(texts + 1, selected)]
            /\ torn' = [torn EXCEPT ![s] = FALSE]
       ELSE UNCHANGED <<texts, clipboard, torn>>
    /\ arriving' = [Taken(s) EXCEPT ![Other(s)] = @ \o Packets("data", clipboard'[s])]
    /\ UNCHANGED <<payload, last, misfit>>

\* The keys that paste are pressed when the text is complete, and at once without one.
PasteFromClipboard(s) ==
    /\ Receives(s, "paste") /\ host = s
    /\ IF Head(arriving[s]).piece = NoPacket THEN UNCHANGED <<payload, last, misfit, clipboard, torn>>
       ELSE Collect(s, Head(arriving[s]).piece)
    /\ arriving' = Taken(s)
    /\ UNCHANGED texts

\* Requests are dropped without a remote control, packet by packet.
NoRemoteControlToAsk(s) ==
    /\ Receives(s, "copy") \/ Receives(s, "paste")
    /\ host # s
    /\ arriving' = Taken(s)
    /\ UNCHANGED <<clipboard, payload, torn, last, misfit, texts>>

\* What the requester asked for; the others drop it.
SetClipboard(s) ==
    /\ Receives(s, "data")
    /\ Collect(s, Head(arriving[s]).piece)
    /\ arriving' = Taken(s)
    /\ UNCHANGED texts

--------------------------------------------------------------------------------
(* Specification. *)

ClipboardInit ==
    /\ host = NoSide /\ obeys = TRUE
    /\ clipboard = [s \in Sides |-> <<>>] /\ payload = [s \in Sides |-> <<>>]
    /\ arriving = [s \in Sides |-> <<>>]
    /\ torn = [s \in Sides |-> FALSE] /\ misfit = [s \in Sides |-> FALSE]
    /\ last = [s \in Sides |-> NoPacket]
    /\ texts = 0 /\ requests = 0 /\ turns = 0

ClipboardNext ==
    \/ ObeysChanges
    \/ \E s \in Sides \cup {NoSide} : TurnChanges(s)
    \/ \E s \in Sides :
         \/ AskForCopy(s) \/ AskForPaste(s)
         \/ PasteFromClipboard(s) \/ NoRemoteControlToAsk(s) \/ SetClipboard(s)
         \/ \E total \in 1..MaxPackets : CopyHere(s, total)
         \/ \E selected \in 0..MaxPackets : AddToClipboard(s, selected)

ClipboardSpec == ClipboardInit /\ [][ClipboardNext]_clipboardVars

--------------------------------------------------------------------------------
(* Correctness. *)

\* Every variable has its type, and a payload is never complete.
ClipboardTypeOK ==
    /\ host \in Sides \cup {NoSide} /\ obeys \in BOOLEAN
    /\ texts \in 0..MaxTexts /\ requests \in 0..MaxRequests /\ turns \in 0..MaxTurns
    /\ \A s \in Sides :
         /\ torn[s] \in BOOLEAN /\ misfit[s] \in BOOLEAN
         /\ \A i \in DOMAIN clipboard[s] : clipboard[s][i].text \in 1..MaxTexts
         /\ \A i \in DOMAIN payload[s] : payload[s][i].text \in 1..MaxTexts
         /\ \A i \in DOMAIN arriving[s] : arriving[s][i].kind \in {"copy", "paste", "data"}

IsWhole(pieces) ==
    pieces = <<>> \/ \E text \in 1..MaxTexts : pieces = Pieces(text, Len(pieces))

\* What is on a clipboard is nothing or one whole text, and nothing of a text that has
\* come to its end stays in the payload, however texts are copied, moved and copied
\* back.  Not so when pieces have come out of turn, because requests were dropped for
\* want of a remote control or came while another text was arriving; a first piece that
\* finds the payload empty makes up for it.
ClipboardIsWhole ==
    \A s \in Sides :
      /\ torn[s] \/ IsWhole(clipboard[s])
      /\ misfit[s] \/ ~IsLast(last[s]) \/ payload[s] = <<>>
================================================================================
