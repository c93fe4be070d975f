------------------------------- MODULE WsServer -------------------------------
(***************************************************************************)
(* wsserver.Server: the life of the web socket connections of the VIS      *)
(* server, and Close.  Each connection is served by one goroutine of       *)
(* net/http, in handleConnection: newClient, the handler's                 *)
(* ClientConnected, the read loop of run, deleteClient, the handler's      *)
(* ClientDisconnected.  VisServer is the handler and composes with this    *)
(* module.                                                                 *)
(*                                                                         *)
(* newClient, deleteClient and Close take the mutex of the server.  Only   *)
(* Close keeps it across a step, while http.Server.Shutdown waits for the  *)
(* connections that are still in a handler and not upgraded.               *)
(***************************************************************************)
EXTENDS Naturals, FiniteSets

CONSTANTS
    Conns,          \* connections
    Addrs,          \* remote addresses
    AddrOf,         \* [Conns -> Addrs]
    NoConn          \* no entry in the map

ASSUME WsServerAssumption ==
    /\ AddrOf \in [Conns -> Addrs]
    /\ NoConn \notin Conns

VARIABLES
    phase,          \* where handleConnection is
    wsClients,      \* Server.clients: remote address -> connection
    socket,         \* "none", "open", "gone" (the peer left), "closed"
    closeSent,      \* a close frame was written: writes give ErrCloseSent
    closing         \* Close: "no", "called", "shutdown" (waits in Shutdown, with
                    \* the mutex), "returned"

wsVars == <<phase, wsClients, socket, closeSent, closing>>

Phases == {"none", "accepted", "upgraded", "running", "left", "deleted", "done"}

WsInit ==
    /\ phase = [c \in Conns |-> "none"]
    /\ wsClients = [x \in Addrs |-> NoConn]
    /\ socket = [c \in Conns |-> "none"]
    /\ closeSent = [c \in Conns |-> FALSE]
    /\ closing = "no"

wsUnlocked == closing # "shutdown"

Goes(c, from, to) == phase[c] = from /\ phase' = [phase EXCEPT ![c] = to]

-----------------------------------------------------------------------------
(* Connections *)

\* net/http accepts a connection and calls handleConnection.  The peer may use
\* the address of a connection it has left.  Shutdown closes the listener first.
Accept(c) ==
    /\ closing \in {"no", "called"}
    /\ \A d \in Conns \ {c} : AddrOf[d] = AddrOf[c] => socket[d] # "open"
    /\ Goes(c, "none", "accepted")
    /\ socket' = [socket EXCEPT ![c] = "open"]
    /\ UNCHANGED <<wsClients, closeSent, closing>>

\* newClient: not a web socket request, or the upgrade fails.
NewClientFails(c) ==
    /\ wsUnlocked
    /\ Goes(c, "accepted", "done")
    /\ socket' = [socket EXCEPT ![c] = "closed"]
    /\ UNCHANGED <<wsClients, closeSent, closing>>

\* newClient: the connection is upgraded and entered under its address.  The
\* answer to the peer cannot be written on a broken connection.
NewClient(c) ==
    /\ wsUnlocked
    /\ socket[c] = "open"
    /\ Goes(c, "accepted", "upgraded")
    /\ wsClients' = [wsClients EXCEPT ![AddrOf[c]] = c]
    /\ UNCHANGED <<socket, closeSent, closing>>

\* The handler's ClientConnected has returned, the read loop begins.
StartRun(c) == Goes(c, "upgraded", "running") /\ UNCHANGED <<wsClients, socket, closeSent, closing>>

\* The connection breaks.  A peer that is silently gone is not noticed: there
\* is no read deadline.
PeerLost(c) ==
    /\ socket[c] = "open"
    /\ socket' = [socket EXCEPT ![c] = "gone"]
    /\ UNCHANGED <<phase, wsClients, closeSent, closing>>

\* The read loop meets the peer's close frame, which is answered.
PeerCloses(c) ==
    /\ phase[c] = "running" /\ socket[c] = "open"
    /\ socket' = [socket EXCEPT ![c] = "gone"]
    /\ closeSent' = [closeSent EXCEPT ![c] = TRUE]
    /\ UNCHANGED <<phase, wsClients, closing>>

\* ReadMessage fails and ends the read loop.
LeaveRun(c) ==
    /\ socket[c] # "open"
    /\ Goes(c, "running", "left")
    /\ UNCHANGED <<wsClients, socket, closeSent, closing>>

\* SendMessage: the write fails or runs into its deadline, and the connection
\* is closed.  After a close frame it fails with ErrCloseSent and without effect.
SendFails(c) ==
    /\ socket[c] \in {"open", "gone"} /\ ~ closeSent[c]
    /\ socket' = [socket EXCEPT ![c] = "closed"]
    /\ UNCHANGED <<phase, wsClients, closeSent, closing>>

\* deleteClient: whatever is entered under the address is removed.
DeleteClient(c) ==
    /\ wsUnlocked
    /\ Goes(c, "left", "deleted")
    /\ wsClients' = [wsClients EXCEPT ![AddrOf[c]] = NoConn]
    /\ socket' = [socket EXCEPT ![c] = "closed"]
    /\ UNCHANGED <<closeSent, closing>>

\* The handler's ClientDisconnected has returned.
EndConnection(c) ==
    Goes(c, "deleted", "done") /\ UNCHANGED <<wsClients, socket, closeSent, closing>>

-----------------------------------------------------------------------------
(* Close *)

Entered == {c \in Conns : wsClients[AddrOf[c]] = c}

\* A close frame is written to the clients entered, as far as they can be reached.
SayGoodbye ==
    \E reached \in SUBSET {c \in Entered : socket[c] # "closed"} :
        closeSent' = [c \in Conns |-> closeSent[c] \/ c \in reached]

\* The slip of a Close that only says goodbye.
CloseFramesOnly ==
    /\ closing = "called"
    /\ closing' = "shutdown"
    /\ SayGoodbye
    /\ UNCHANGED <<phase, wsClients, socket>>

\* Lock, send a close frame to every client and close its socket, and go to wait
\* in Shutdown, still with the mutex.
CloseClients ==
    /\ closing = "called"
    /\ closing' = "shutdown"
    /\ SayGoodbye
    /\ socket' = [c \in Conns |-> IF c \in Entered THEN "closed" ELSE socket[c]]
    /\ UNCHANGED <<phase, wsClients>>

\* Shutdown returns when no connection is in a handler without being upgraded;
\* it has no deadline (context.Background).
EndShutdown ==
    /\ closing = "shutdown"
    /\ \A c \in Conns : phase[c] # "accepted"
    /\ closing' = "returned"
    /\ UNCHANGED <<phase, wsClients, socket, closeSent>>

-----------------------------------------------------------------------------
WsTypeOK ==
    /\ phase \in [Conns -> Phases]
    /\ wsClients \in [Addrs -> Conns \cup {NoConn}]
    /\ socket \in [Conns -> {"none", "open", "gone", "closed"}]
    /\ closeSent \in [Conns -> BOOLEAN]
    /\ closing \in {"no", "called", "shutdown", "returned"}
=============================================================================
