------------------------------ MODULE MCWebSocket ------------------------------
(* The backend's WebSocket: what the messages do (CallRing) and how the goroutines *)
(* of a connection end (WsConnection).  They share no state: in each behaviour one *)
(* part runs and the other rests.                                                  *)
EXTENDS CallRing, WsConnection

VARIABLE part

socketVars == <<part, vars, connVars>>

SocketInit == part \in {"calls", "connections"} /\ Init /\ ConnInit

SocketNext ==
    \/ part = "calls" /\ Next /\ UNCHANGED <<part, connVars>>
    \/ part = "connections" /\ ConnNext /\ UNCHANGED <<part, vars>>

\* Fairness and ConnFairness, the latter while the connections run: they rest
\* before their handlers have started.
Runs(A) == part = "connections" /\ A

SocketSpec ==
    /\ SocketInit /\ [][SocketNext]_socketVars
    /\ Fairness
    /\ \A c \in Conns :
         /\ WF_connVars(Runs(MainNext(c))) /\ WF_connVars(Runs(ReaderNext(c)))
         /\ WF_connVars(Runs(RelayNext(c)))
         /\ WF_connVars(Runs(~subscribed[c] /\ ReceiveFails(c)))

\* Every variable of the calls and the connections has its type.
SocketTypeOK == TypeOK /\ ConnTypeOK
================================================================================
