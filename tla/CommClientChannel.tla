--------------------------- MODULE CommClientChannel ---------------------------
(***************************************************************************)
(* comm_client_channel (Include/utils/communication.hpp) on a TCP client   *)
(* port (Modules/communication/ports/tcp_client_port_impl.cpp) behind a    *)
(* protocol that forwards to it.                                           *)
(*                                                                         *)
(* One client calls connect and disconnect.  A receiving thread blocks in  *)
(* the port, raises data_read for what it gets and, with automatic         *)
(* reconnection, connects the port again by itself.  disconnect closes the *)
(* port under that thread's hands and joins it.  Client and thread use the *)
(* port's socket and status without a lock; every call to the operating    *)
(* system and every access to the status is one step.                      *)
(***************************************************************************)
EXTENDS Signal

CONSTANT Modes   \* the values of automaticReconnect that are checked

ASSUME ChannelAssumption == Modes \subseteq BOOLEAN

VARIABLES
  automatic,     \* m_automaticReconnect
  alive,         \* m_thread_is_alive
  peer,          \* the remote side accepts connections
  socket,        \* closed, connected, or broken by the remote side
  status,        \* m_eStatus of the port: is it CONNECTED?
  cpc,           \* where the client is
  joins,         \* the `sync` of its disconnect
  rpc,           \* where the receiving thread is; none: there is none to join
  leaving,       \* functions not subscribed when the disconnect under way began
  gone           \* functions not subscribed since a disconnect that returned (history)

port == <<socket, status>>
client == <<cpc, joins, leaving, gone>>
vars == <<signalVars, automatic, alive, peer, port, client, rpc>>

\* The constructor calls connect if the port that it gets is connected.
Init ==
  /\ SignalInit
  /\ automatic \in Modes
  /\ alive = FALSE /\ peer = TRUE
  /\ \/ socket = "closed" /\ status = FALSE /\ cpc = "idle"
     \/ socket = "connected" /\ status = TRUE /\ cpc = "create"
  /\ joins = FALSE
  /\ rpc = "none"
  /\ leaving = {} /\ gone = {}
-----------------------------------------------------------------------------
(* The client.                                                             *)

To(where) == cpc' = where

NotSubscribed == {f \in Funcs : token[f] = Undefined}

Add(f) ==
  /\ cpc = "idle"
  /\ Subscribe(f)
  /\ gone' = gone \ {f} /\ leaving' = leaving \ {f}
  /\ UNCHANGED <<automatic, alive, peer, port, cpc, joins, rpc>>

\* By the client, or by a function while it is called.
Remove(f) ==
  /\ cpc = "idle" \/ calling = f
  /\ Unsubscribe(f)
  /\ UNCHANGED <<automatic, alive, peer, port, client, rpc>>

\* connect.  Without automatic reconnection a port that is not connected is
\* disconnected and connected first.
Connect ==
  /\ cpc = "idle"
  /\ To(IF automatic \/ status THEN "create" ELSE "cdisconnect")
  /\ UNCHANGED <<signalVars, automatic, alive, peer, port, joins, leaving, gone, rpc>>

Disconnect ==
  /\ cpc = "idle"
  /\ To("disconnect")
  /\ UNCHANGED <<signalVars, automatic, alive, peer, port, joins, leaving, gone, rpc>>

\* Mutant: disconnect leaves the thread to itself.
MutNeverJoins ==
  /\ cpc \in {"disconnect", "cdisconnect"}
  /\ joins' = FALSE
  /\ alive' = FALSE
  /\ leaving' = NotSubscribed
  /\ To(IF cpc = "disconnect" THEN "close" ELSE "cclose")
  /\ UNCHANGED <<signalVars, automatic, peer, port, gone, rpc>>

\* disconnect: only the caller that takes down the flag joins the thread.
TakeFlag ==
  /\ cpc \in {"disconnect", "cdisconnect"}
  /\ joins' = alive
  /\ alive' = FALSE
  /\ leaving' = NotSubscribed
  /\ To(IF cpc = "disconnect" THEN "close" ELSE "cclose")
  /\ UNCHANGED <<signalVars, automatic, peer, port, gone, rpc>>

\* disconnect of the port: shutdown and close the socket, ...
CloseSocket ==
  /\ cpc \in {"close", "cclose"}
  /\ socket' = "closed"
  /\ To(IF cpc = "close" THEN "down" ELSE "cdown")
  /\ UNCHANGED <<signalVars, automatic, alive, peer, status, joins, leaving, gone, rpc>>

\* ... then the status.
StatusDown ==
  /\ cpc \in {"down", "cdown"}
  /\ status' = FALSE
  /\ To(IF cpc = "down" THEN "join" ELSE "cjoin")
  /\ UNCHANGED <<signalVars, automatic, alive, peer, socket, joins, leaving, gone, rpc>>

\* Mutant: disconnect does not wait for the thread.
MutNoJoin ==
  /\ cpc \in {"join", "cjoin"}
  /\ rpc' = IF joins THEN "none" ELSE rpc
  /\ joins' = FALSE
  /\ gone' = gone \cup (leaving \cap NotSubscribed)
  /\ leaving' = {}
  /\ To(IF cpc = "join" THEN "idle" ELSE "connect")
  /\ UNCHANGED <<signalVars, automatic, alive, peer, port>>

Join ==
  /\ cpc \in {"join", "cjoin"}
  /\ joins => rpc \in {"done", "none"}
  /\ rpc' = IF joins THEN "none" ELSE rpc
  /\ joins' = FALSE
  /\ gone' = gone \cup (leaving \cap NotSubscribed)
  /\ leaving' = {}
  /\ To(IF cpc = "join" THEN "idle" ELSE "connect")
  /\ UNCHANGED <<signalVars, automatic, alive, peer, port>>

\* connect of the port, called by connect; without a peer it returns false.
ConnectPort ==
  /\ cpc = "connect"
  /\ IF peer THEN socket' = "connected" /\ status' = TRUE ELSE UNCHANGED port
  /\ To(IF peer THEN "create" ELSE "idle")
  /\ UNCHANGED <<signalVars, automatic, alive, peer, joins, leaving, gone, rpc>>

\* A thread is created unless the flag says that there is one.
CreateThread ==
  /\ cpc = "create"
  /\ alive' = TRUE
  /\ rpc' = IF alive THEN rpc ELSE "begin"
  /\ To("idle")
  /\ UNCHANGED <<signalVars, automatic, peer, port, joins, leaving, gone>>
-----------------------------------------------------------------------------
(* The receiving thread.  Reporting to comm_stat and comm_err is left out. *)

Goes(from, to) == rpc = from /\ rpc' = to

Begin ==
  /\ Goes("begin", IF automatic THEN "loop" ELSE "receive")
  /\ UNCHANGED <<signalVars, automatic, alive, peer, port, client>>

Loop ==
  /\ Goes("loop", IF alive THEN "switch" ELSE "done")
  /\ UNCHANGED <<signalVars, automatic, alive, peer, port, client>>

Switch ==
  /\ Goes("switch", IF status THEN "receive" ELSE "retry")
  /\ UNCHANGED <<signalVars, automatic, alive, peer, port, client>>

\* Mutant: the search for a connection does not look at the flag.
MutRetriesForever ==
  /\ Goes("retry", "reconnect")
  /\ UNCHANGED <<signalVars, automatic, alive, peer, port, client>>

Retry ==
  /\ Goes("retry", IF alive THEN "reconnect" ELSE "loop")
  /\ UNCHANGED <<signalVars, automatic, alive, peer, port, client>>

\* connect of the port: what it had is closed; the attempt fails without a peer and
\* if the client closes the socket meanwhile.  Then follows a second of sleep.
Reconnect ==
  /\ \/ /\ peer
        /\ Goes("reconnect", "status")
        /\ socket' = "connected"
     \/ /\ ~peer \/ cpc \in {"down", "cdown"}
        /\ Goes("reconnect", "retry")
        /\ socket' = "closed"
  /\ status' = FALSE
  /\ UNCHANGED <<signalVars, automatic, alive, peer, client>>

StatusUp ==
  /\ Goes("status", "loop")
  /\ status' = TRUE
  /\ UNCHANGED <<signalVars, automatic, alive, peer, socket, client>>

\* A message arrives and data_read is raised.
Receive ==
  /\ socket = "connected"
  /\ Goes("receive", "raise")
  /\ Raise
  /\ UNCHANGED <<automatic, alive, peer, port, client>>

\* The protocol refuses a message that is too large: recieve returns 0, the port is well.
ReceiveRefused ==
  /\ socket = "connected"
  /\ Goes("receive", IF automatic THEN "loop" ELSE "done")
  /\ UNCHANGED <<signalVars, automatic, alive, peer, port, client>>

\* Mutant: the end of the connection is not written to the status.
MutLossUnnoticed ==
  /\ socket # "connected"
  /\ Goes("receive", IF automatic THEN "loop" ELSE "done")
  /\ UNCHANGED <<signalVars, automatic, alive, peer, port, client>>

\* The connection is gone, from whichever side.
ReceiveFails ==
  /\ socket # "connected"
  /\ Goes("receive", IF automatic THEN "loop" ELSE "done")
  /\ status' = FALSE
  /\ UNCHANGED <<signalVars, automatic, alive, peer, socket, client>>

Call ==
  /\ rpc = "raise"
  /\ Invoke \/ Invoked
  /\ UNCHANGED <<automatic, alive, peer, port, client, rpc>>

EndRaise ==
  /\ Raised
  /\ Goes("raise", IF automatic THEN "loop" ELSE "receive")
  /\ UNCHANGED <<signalVars, automatic, alive, peer, port, client>>

\* The remote side goes, with its connections, and comes back.
PeerGoes ==
  /\ peer
  /\ peer' = FALSE
  /\ socket' = IF socket = "connected" THEN "broken" ELSE socket
  /\ UNCHANGED <<signalVars, automatic, alive, status, client, rpc>>

PeerComes ==
  /\ ~peer
  /\ peer' = TRUE
  /\ UNCHANGED <<signalVars, automatic, alive, port, client, rpc>>
-----------------------------------------------------------------------------
ClientStep ==
  TakeFlag \/ CloseSocket \/ StatusDown \/ Join \/ ConnectPort \/ CreateThread

ReceiverStep ==
  \/ Begin \/ Loop \/ Switch \/ Retry \/ Reconnect \/ StatusUp
  \/ ReceiveFails \/ Call \/ EndRaise

Message == Receive \/ ReceiveRefused

Next ==
  \/ Connect \/ Disconnect \/ \E f \in Funcs : Add(f) \/ Remove(f)
  \/ ClientStep \/ ReceiverStep \/ Message \/ PeerGoes \/ PeerComes

Spec == Init /\ [][Next]_vars

\* Calls that were made go on, calls to the operating system return, and so do the
\* subscribed functions.  Messages, calls and peers may or may not come.
FairSpec == Spec /\ WF_vars(ClientStep) /\ WF_vars(ReceiverStep)
-----------------------------------------------------------------------------
TypeOK ==
  /\ SignalTypeOK
  /\ automatic \in Modes
  /\ alive \in BOOLEAN /\ peer \in BOOLEAN
  /\ socket \in {"closed", "connected", "broken"} /\ status \in BOOLEAN
  /\ cpc \in {"idle", "disconnect", "close", "down", "join",
              "cdisconnect", "cclose", "cdown", "cjoin", "connect", "create"}
  /\ joins \in BOOLEAN
  /\ rpc \in {"none", "begin", "loop", "switch", "retry", "reconnect", "status", "receive",
              "raise", "done"}
  /\ leaving \subseteq Funcs /\ gone \subseteq Funcs

\* connect assigns to m_recieving_thread only when there is no thread left to join
\* (std::thread would end the process), also after the thread has ended by itself.
JoinedBeforeCreate == (cpc = "create" /\ ~alive) => rpc = "none"

\* A function unsubscribed before a disconnect that has returned is not called any
\* more, although raise calls copies: this is what RemoteAgent::Disconnect relies on.
QuietAfterDisconnect == \A f \in gone : calling # f /\ \A s \in cloned : s[2] # f

\* Every connect and every disconnect returns.
CallsReturn == (cpc # "idle") ~> (cpc = "idle")

\* With automatic reconnection the channel is connected again whenever the remote
\* side stays and nobody disconnects.
Reconnects ==
  <>[](automatic /\ alive /\ peer) => <>[](socket = "connected" /\ status)
=============================================================================
