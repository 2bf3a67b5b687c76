----------------------------- MODULE WsConnection -----------------------------
(***************************************************************************)
(* The life of one WebSocket connection in the backend (CreateWSHandler in *)
(* websocketHandlers.go): three goroutines, the request handler, the read  *)
(* loop and the Redis relay, that end one another over an unbuffered       *)
(* channel done, a cancellable context, and the closing of what the others *)
(* are blocked on.                                                         *)
(*                                                                         *)
(* While a connection is subscribed its user counts as online: initiateCall*)
(* rings whoever has a subscriber.  A send on a closed channel panics, and *)
(* a panic in a goroutine ends the process with all its connections.       *)
(***************************************************************************)
CONSTANT Conns      \* connections accepted by the process

VARIABLES
    main,           \* the request handler
    reader,         \* the WebSocket read loop
    relay,          \* the Redis message loop
    desktop,        \* the desktop app's end of the socket
    open,           \* our end of the socket
    subscribed,     \* the Redis subscription
    doneClosed,     \* done is closed
    cancelled,      \* the context is cancelled
    faulty,         \* history: Redis or the greeting failed on this connection
    crashed         \* the process has panicked

loops == <<main, reader, relay>>
resources == <<open, subscribed, doneClosed, cancelled>>
connVars == <<loops, desktop, resources, faulty, crashed>>

Goes(pc, c, label) == pc' = [pc EXCEPT ![c] = label]
Sets(flag, c, value) == flag' = [flag EXCEPT ![c] = value]

\* Nothing comes through the socket: ReadMessage fails, at the latest when the
\* read deadline of 65 seconds passes without a ping.
Severed(c) == desktop[c] = "gone" \/ ~open[c]

\* An unrecovered panic: the process dies with every connection in it.
Panic ==
    /\ main' = [c \in Conns |-> "returned"]
    /\ reader' = [c \in Conns |-> "gone"] /\ relay' = [c \in Conns |-> "gone"]
    /\ open' = [c \in Conns |-> FALSE] /\ subscribed' = [c \in Conns |-> FALSE]
    /\ crashed' = TRUE
    /\ UNCHANGED <<desktop, doneClosed, cancelled, faulty>>

--------------------------------------------------------------------------------
(* The request handler: set up, wait for done, deferred calls in LIFO order. *)

\* Subscribed, greeted, loops started.
Start(c) ==
    /\ main[c] = "start"
    /\ Goes(main, c, "wait") /\ Goes(reader, c, "read") /\ Goes(relay, c, "select")
    /\ UNCHANGED <<desktop, resources, faulty, crashed>>

\* Writing the greeting fails: the handler returns before there are any loops.
GreetingFails(c) ==
    /\ main[c] = "start"
    /\ Goes(main, c, "unsubscribe")
    /\ Sets(faulty, c, TRUE)
    /\ UNCHANGED <<reader, relay, desktop, resources, crashed>>

SeesDoneClosed(c) ==
    /\ main[c] = "wait" /\ doneClosed[c]
    /\ Goes(main, c, "unsubscribe")
    /\ UNCHANGED <<reader, relay, desktop, resources, faulty, crashed>>

\* Mutant of Unsubscribe: the subscription is left to the garbage collector.
ReturnSubscribed(c) ==
    /\ main[c] = "unsubscribe"
    /\ Goes(main, c, "cancel")
    /\ UNCHANGED <<reader, relay, desktop, resources, faulty, crashed>>

Unsubscribe(c) ==
    /\ main[c] = "unsubscribe"
    /\ Goes(main, c, "cancel") /\ Sets(subscribed, c, FALSE)
    /\ UNCHANGED <<reader, relay, desktop, open, doneClosed, cancelled, faulty, crashed>>

Cancel(c) ==
    /\ main[c] = "cancel"
    /\ Goes(main, c, "close") /\ Sets(cancelled, c, TRUE)
    /\ UNCHANGED <<reader, relay, desktop, open, subscribed, doneClosed, faulty, crashed>>

CloseSocket(c) ==
    /\ main[c] = "close"
    /\ Goes(main, c, "returned") /\ Sets(open, c, FALSE)
    /\ UNCHANGED <<reader, relay, desktop, subscribed, doneClosed, cancelled, faulty, crashed>>

--------------------------------------------------------------------------------
(* The read loop. *)

ReadMessage(c) ==
    /\ reader[c] = "read" /\ ~Severed(c)
    /\ Goes(reader, c, "handle")
    /\ UNCHANGED <<main, relay, desktop, resources, faulty, crashed>>

\* The message's handler runs; CallState and CallRing model what it does.
Handle(c) ==
    /\ reader[c] = "handle"
    /\ Goes(reader, c, "read")
    /\ UNCHANGED <<main, relay, desktop, resources, faulty, crashed>>

\* Mutant of PongFails: any message that cannot be handled ends the loop.
HandlerEndsLoop(c) ==
    /\ reader[c] = "handle"
    /\ Goes(reader, c, "closeDone")
    /\ UNCHANGED <<main, relay, desktop, resources, faulty, crashed>>

\* The pong cannot be written: the loop returns without a send on done.
PongFails(c) ==
    /\ reader[c] = "handle" /\ Severed(c)
    /\ Goes(reader, c, "closeDone")
    /\ UNCHANGED <<main, relay, desktop, resources, faulty, crashed>>

ReadFails(c) ==
    /\ reader[c] = "read" /\ Severed(c)
    /\ Goes(reader, c, "send")
    /\ UNCHANGED <<main, relay, desktop, resources, faulty, crashed>>

\* done <- struct{}{} meets the handler, or the relay at its select.
ReaderSignals(c) ==
    /\ reader[c] = "send"
    /\ \/ main[c] = "wait" /\ Goes(main, c, "unsubscribe") /\ UNCHANGED relay
       \/ relay[c] = "select" /\ Goes(relay, c, "cancel") /\ UNCHANGED main
    /\ Goes(reader, c, "closeDone")
    /\ UNCHANGED <<desktop, resources, faulty, crashed>>

\* A sender blocked on a channel panics when the channel is closed.
CloseDone(c) ==
    /\ reader[c] = "closeDone"
    /\ \/ relay[c] = "send" /\ Panic
       \/ /\ relay[c] # "send"
          /\ Goes(reader, c, "cancel") /\ Sets(doneClosed, c, TRUE)
          /\ UNCHANGED <<main, relay, desktop, open, subscribed, cancelled, faulty, crashed>>

ReaderCancels(c) ==
    /\ reader[c] = "cancel"
    /\ Goes(reader, c, "gone") /\ Sets(cancelled, c, TRUE)
    /\ UNCHANGED <<main, relay, desktop, open, subscribed, doneClosed, faulty, crashed>>

--------------------------------------------------------------------------------
(* The Redis relay. *)

\* The select at the head of the loop, its default only when nothing is ready.
Select(c) ==
    /\ relay[c] = "select"
    /\ IF cancelled[c] \/ doneClosed[c]
         THEN Goes(relay, c, "cancel")
         ELSE reader[c] # "send" /\ Goes(relay, c, "receive")
    /\ UNCHANGED <<main, reader, desktop, resources, faulty, crashed>>

\* A message of the user's channel is forwarded; a failed write is only logged.
Forward(c) ==
    /\ relay[c] = "receive" /\ subscribed[c]
    /\ Goes(relay, c, "select")
    /\ UNCHANGED <<main, reader, desktop, resources, faulty, crashed>>

\* Mutant of ReceiveFails: the relay ends as the read loop does.
ReceiveFailsLikeRead(c) ==
    /\ relay[c] = "receive"
    /\ Goes(relay, c, "closeDone")
    /\ Sets(faulty, c, faulty[c] \/ subscribed[c])
    /\ UNCHANGED <<main, reader, desktop, resources, crashed>>

\* ReceiveMessage fails: the handler has closed the subscription, or Redis broke
\* the connection.
ReceiveFails(c) ==
    /\ relay[c] = "receive"
    /\ Goes(relay, c, "check")
    /\ Sets(faulty, c, faulty[c] \/ subscribed[c])
    /\ UNCHANGED <<main, reader, desktop, resources, crashed>>

\* Quiet if the context is cancelled; otherwise the error is signalled.
CheckContext(c) ==
    /\ relay[c] = "check"
    /\ Goes(relay, c, IF cancelled[c] THEN "cancel" ELSE "send")
    /\ UNCHANGED <<main, reader, desktop, resources, faulty, crashed>>

RelaySignals(c) ==
    /\ relay[c] = "send" /\ ~doneClosed[c]
    /\ main[c] = "wait" /\ Goes(main, c, "unsubscribe")
    /\ Goes(relay, c, "cancel")
    /\ UNCHANGED <<reader, desktop, resources, faulty, crashed>>

RelayPanics(c) ==
    /\ relay[c] = "send" /\ doneClosed[c]
    /\ Panic

RelayCancels(c) ==
    /\ relay[c] = "cancel"
    /\ Goes(relay, c, "gone") /\ Sets(cancelled, c, TRUE)
    /\ UNCHANGED <<main, reader, desktop, open, subscribed, doneClosed, faulty, crashed>>

--------------------------------------------------------------------------------
\* The app quits, sleeps or loses its network.
ClientGoes(c) ==
    /\ desktop[c] = "up" /\ desktop' = [desktop EXCEPT ![c] = "gone"]
    /\ UNCHANGED <<loops, resources, faulty, crashed>>

ConnInit ==
    /\ main = [c \in Conns |-> "start"]
    /\ reader = [c \in Conns |-> "gone"] /\ relay = [c \in Conns |-> "gone"]
    /\ desktop = [c \in Conns |-> "up"]
    /\ open = [c \in Conns |-> TRUE] /\ subscribed = [c \in Conns |-> TRUE]
    /\ doneClosed = [c \in Conns |-> FALSE] /\ cancelled = [c \in Conns |-> FALSE]
    /\ faulty = [c \in Conns |-> FALSE]
    /\ crashed = FALSE

MainNext(c) ==
    Start(c) \/ GreetingFails(c) \/ SeesDoneClosed(c)
      \/ Unsubscribe(c) \/ Cancel(c) \/ CloseSocket(c)

ReaderNext(c) ==
    Handle(c) \/ PongFails(c) \/ ReadFails(c)
      \/ ReaderSignals(c) \/ CloseDone(c) \/ ReaderCancels(c)

RelayNext(c) ==
    Select(c) \/ CheckContext(c) \/ RelaySignals(c) \/ RelayPanics(c) \/ RelayCancels(c)

ConnNext ==
    \E c \in Conns :
      \/ MainNext(c) \/ ReaderNext(c) \/ RelayNext(c)
      \/ ReadMessage(c) \/ Forward(c) \/ ReceiveFails(c) \/ ClientGoes(c)

ConnSpec == ConnInit /\ [][ConnNext]_connVars

\* Goroutines run, a severed socket is noticed, and a receive on a closed
\* subscription returns.  Messages need not come, nor Redis or the client fail.
ConnFairness ==
    \A c \in Conns :
      /\ WF_connVars(MainNext(c))
      /\ WF_connVars(ReaderNext(c))
      /\ WF_connVars(RelayNext(c))
      /\ WF_connVars(~subscribed[c] /\ ReceiveFails(c))

ConnFairSpec == ConnSpec /\ ConnFairness

--------------------------------------------------------------------------------
(* Properties. *)

\* Every variable has the shape the code gives it.
ConnTypeOK ==
    /\ main \in [Conns -> {"start", "wait", "unsubscribe", "cancel", "close", "returned"}]
    /\ reader \in [Conns -> {"read", "handle", "send", "closeDone", "cancel", "gone"}]
    /\ relay \in [Conns -> {"select", "receive", "check", "send", "cancel", "gone"}]
    /\ desktop \in [Conns -> {"up", "gone"}]
    /\ open \in [Conns -> BOOLEAN] /\ subscribed \in [Conns -> BOOLEAN]
    /\ doneClosed \in [Conns -> BOOLEAN] /\ cancelled \in [Conns -> BOOLEAN]
    /\ faulty \in [Conns -> BOOLEAN]
    /\ crashed \in BOOLEAN

\* A connection the handler tears down is one whose client has gone or whose
\* Redis side failed: short of a panic, no interleaving of the loops' signals cuts
\* off a live client.
CutsOffOnlyTheDead ==
    \A c \in Conns :
      main[c] \notin {"start", "wait"} => desktop[c] = "gone" \/ faulty[c] \/ crashed

\* A user does not stay online after leaving: once the client is gone its
\* subscription is closed and its relay has ended, whichever loop notices first.
GoneIsOffline ==
    \A c \in Conns :
      desktop[c] = "gone" ~> ~subscribed[c] /\ relay[c] = "gone"

\* The relay's check of the context: "Context was cancelled, this is normal
\* shutdown".  A relay that Redis did not fail ends on the context: it never
\* signals an error while the handler shuts down.
ShutdownIsByContext ==
    \A c \in Conns : relay[c] = "send" => faulty[c]
================================================================================
