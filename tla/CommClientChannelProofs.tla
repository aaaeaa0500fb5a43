------------------------ MODULE CommClientChannelProofs ------------------------
(***************************************************************************)
(* Safety of the client channel and of the signal it raises, for any       *)
(* finite set of functions and in both modes.                              *)
(*                                                                         *)
(* TokenOwned needs that no token is used twice.  JoinedBeforeCreate needs *)
(* to know who is responsible for the thread: the flag, or the disconnect  *)
(* that took it down.  QuietAfterDisconnect needs both, and that only the  *)
(* thread of the channel raises.                                           *)
(***************************************************************************)
EXTENDS CommClientChannel, FiniteSetTheorems, TLAPS

\* No token is used twice.
Distinct == \A s, u \in subscribers : s[1] = u[1] => s = u

SignalInv == SignalTypeOK /\ TokenOwned /\ Distinct

\* The places of a disconnect after it took the flag down.
Disconnecting == {"close", "down", "join", "cclose", "cdown", "cjoin"}

\* A thread that is not joined has its flag up, or a disconnect that will join it.
ThreadInv ==
  /\ joins => cpc \in Disconnecting
  /\ cpc \in Disconnecting \cup {"connect"} => ~alive
  /\ ~alive /\ ~joins => rpc = "none"

\* Only the thread raises, and what is gone is not subscribed.
RaiseInv ==
  /\ rpc # "raise" => Raised
  /\ \A f \in gone : token[f] = Undefined

ChannelInv == TypeOK /\ SignalInv /\ ThreadInv /\ RaiseInv /\ QuietAfterDisconnect
-----------------------------------------------------------------------------
(* The signal.                                                             *)

\* Tokens are natural numbers, and Undefined is none of them.
LEMMA TokensAreNat == Tokens \subseteq Nat /\ Undefined \notin Tokens
<1>1. Cardinality(Funcs) \in Nat
  BY FS_CardinalityType, SignalAssumption
<1>2. QED
  BY <1>1 DEF Tokens, Undefined

\* A subscription takes a free token and disturbs no other one.
LEMMA SubscribeKeeps ==
  ASSUME SignalInv, NEW f \in Funcs, Subscribe(f)
  PROVE  SignalInv'
<1> USE DEF SignalInv, SignalTypeOK
<1>1. PICK t \in Tokens \ Used :
        /\ subscribers' = subscribers \cup {<<t, f>>}
        /\ token' = [token EXCEPT ![f] = t]
  BY DEF Subscribe
<1>2. token[f] = Undefined /\ UNCHANGED <<cloned, calling>>
  BY DEF Subscribe
<1>3. \A s \in subscribers : s[1] # t
  BY DEF Used
<1>4. \A s \in subscribers : s[2] # f
  BY <1>2, TokensAreNat DEF TokenOwned
<1>5. SignalTypeOK'
  BY <1>1, <1>2
<1>6. TokenOwned'
  BY <1>1, <1>4 DEF TokenOwned
<1>7. Distinct'
  BY <1>1, <1>3 DEF Distinct
<1>8. QED
  BY <1>5, <1>6, <1>7

\* Erasing by token ends the subscription of its owner and no other one.
LEMMA UnsubscribeKeeps ==
  ASSUME SignalInv, NEW f \in Funcs, Unsubscribe(f)
  PROVE  SignalInv'
<1> USE DEF SignalInv, SignalTypeOK, Unsubscribe
<1>1. \A g \in Funcs : token[g] # Undefined /\ g # f => token[g] # token[f]
  BY DEF TokenOwned, Distinct
<1>2. SignalTypeOK'
  OBVIOUS
<1>3. TokenOwned'
  BY <1>1 DEF TokenOwned
<1>4. Distinct'
  BY DEF Distinct
<1>5. QED
  BY <1>2, <1>3, <1>4

\* What the signal's invariant says of its variables survives steps of the raise.
LEMMA RaiseKeeps ==
  ASSUME SignalInv, Raise \/ Invoke \/ Invoked
  PROVE  SignalInv'
<1> USE DEF SignalInv, SignalTypeOK
<1>1. UNCHANGED <<subscribers, token>>
  BY DEF Raise, Invoke, Invoked
<1>2. SignalTypeOK'
  BY <1>1 DEF Raise, Invoke, Invoked
<1>3. TokenOwned' /\ Distinct'
  BY <1>1 DEF TokenOwned, Distinct
<1>4. QED
  BY <1>2, <1>3

\* A step that leaves the signal alone keeps its invariant.
LEMMA IdleSignalKeeps ==
  ASSUME SignalInv, UNCHANGED signalVars
  PROVE  SignalInv'
BY DEF SignalInv, SignalTypeOK, TokenOwned, Distinct, signalVars
-----------------------------------------------------------------------------
(* The channel.                                                            *)

\* A channel without a thread, a connection or a subscription satisfies the invariant.
LEMMA ChannelInit == Init => ChannelInv
BY ChannelAssumption DEF Init, SignalInit, ChannelInv, TypeOK, SignalInv, SignalTypeOK, TokenOwned, Distinct,
   ThreadInv, RaiseInv, QuietAfterDisconnect, Disconnecting, Raised

\* Every step keeps the signal's invariant.
LEMMA SignalStep == ChannelInv /\ [Next]_vars => SignalInv'
<1> SUFFICES ASSUME ChannelInv, [Next]_vars PROVE SignalInv'
  OBVIOUS
<1>0. SignalInv
  BY DEF ChannelInv
<1>1. ASSUME NEW f \in Funcs, Add(f) PROVE SignalInv'
  BY <1>0, <1>1, SubscribeKeeps DEF Add
<1>2. ASSUME NEW f \in Funcs, Remove(f) PROVE SignalInv'
  BY <1>0, <1>2, UnsubscribeKeeps DEF Remove
<1>3. CASE Receive \/ Call
  BY <1>0, <1>3, RaiseKeeps DEF Receive, Call
<1>4. CASE Connect \/ Disconnect \/ ClientStep \/ ReceiveRefused \/ PeerGoes \/ PeerComes
  <2>1. UNCHANGED signalVars
    BY <1>4 DEF Connect, Disconnect, ClientStep, TakeFlag, CloseSocket, StatusDown, Join, ConnectPort,
       CreateThread, ReceiveRefused, PeerGoes, PeerComes
  <2>2. QED
    BY <1>0, <2>1, IdleSignalKeeps
<1>5. CASE \/ Begin \/ Loop \/ Switch \/ Retry \/ Reconnect \/ StatusUp \/ ReceiveFails \/ EndRaise
           \/ UNCHANGED vars
  <2>1. UNCHANGED signalVars
    BY <1>5 DEF Begin, Loop, Switch, Retry, Reconnect, StatusUp, ReceiveFails, EndRaise, vars
  <2>2. QED
    BY <1>0, <2>1, IdleSignalKeeps
<1>6. QED
  BY <1>1, <1>2, <1>3, <1>4, <1>5 DEF Next, ReceiverStep, Message

\* The variables of the channel keep their types.
LEMMA TypeStep == ChannelInv /\ [Next]_vars => TypeOK'
<1> SUFFICES ASSUME ChannelInv, [Next]_vars PROVE TypeOK'
  OBVIOUS
<1>0. TypeOK /\ SignalTypeOK'
  BY SignalStep DEF ChannelInv, SignalInv
<1> USE <1>0 DEF TypeOK, port, client
<1>1. ASSUME NEW f \in Funcs, Add(f) \/ Remove(f) PROVE TypeOK'
  BY <1>1 DEF Add, Remove
<1>2. CASE Connect \/ Disconnect
  BY <1>2 DEF Connect, Disconnect, To
<1>3. CASE ClientStep
  <2>1. CASE TakeFlag \/ Join
    BY <2>1 DEF TakeFlag, Join, To, NotSubscribed
  <2>2. CASE CloseSocket \/ StatusDown \/ ConnectPort \/ CreateThread
    BY <2>2 DEF CloseSocket, StatusDown, ConnectPort, CreateThread, To
  <2>3. QED
    BY <1>3, <2>1, <2>2 DEF ClientStep
<1>4. CASE ReceiverStep \/ Message
  BY <1>4 DEF ReceiverStep, Message, Begin, Loop, Switch, Retry, Reconnect, StatusUp, Receive,
     ReceiveRefused, ReceiveFails, Call, EndRaise, Goes
<1>5. CASE PeerGoes \/ PeerComes \/ UNCHANGED vars
  BY <1>5 DEF PeerGoes, PeerComes, vars
<1>6. QED
  BY <1>1, <1>2, <1>3, <1>4, <1>5 DEF Next

\* The flag goes up with a new thread and down with the promise to join it.
LEMMA ThreadStep == ChannelInv /\ [Next]_vars => ThreadInv'
<1> SUFFICES ASSUME ChannelInv, [Next]_vars PROVE ThreadInv'
  OBVIOUS
<1>0. TypeOK /\ ThreadInv
  BY DEF ChannelInv
<1> USE <1>0 DEF TypeOK, ThreadInv, Disconnecting, port, client
<1>1. ASSUME NEW f \in Funcs, Add(f) \/ Remove(f) PROVE ThreadInv'
  BY <1>1 DEF Add, Remove
<1>2. CASE Connect \/ Disconnect
  BY <1>2 DEF Connect, Disconnect, To
<1>3. CASE ClientStep
  <2>1. CASE TakeFlag
    BY <2>1 DEF TakeFlag, To
  <2>2. CASE Join
    BY <2>2 DEF Join, To
  <2>3. CASE CreateThread
    BY <2>3 DEF CreateThread, To
  <2>4. CASE CloseSocket \/ StatusDown \/ ConnectPort
    BY <2>4 DEF CloseSocket, StatusDown, ConnectPort, To
  <2>5. QED
    BY <1>3, <2>1, <2>2, <2>3, <2>4 DEF ClientStep
<1>4. CASE ReceiverStep \/ Message
  BY <1>4 DEF ReceiverStep, Message, Begin, Loop, Switch, Retry, Reconnect, StatusUp, Receive,
     ReceiveRefused, ReceiveFails, Call, EndRaise, Goes
<1>5. CASE PeerGoes \/ PeerComes \/ UNCHANGED vars
  BY <1>5 DEF PeerGoes, PeerComes, vars
<1>6. QED
  BY <1>1, <1>2, <1>3, <1>4, <1>5 DEF Next

\* Where a disconnect ends nothing is being raised, so what is gone then is quiet, and
\* a later raise copies only what is subscribed.
LEMMA RaiseStep == ChannelInv /\ [Next]_vars => RaiseInv' /\ QuietAfterDisconnect'
<1> SUFFICES ASSUME ChannelInv, [Next]_vars PROVE RaiseInv' /\ QuietAfterDisconnect'
  OBVIOUS
<1>0. TypeOK /\ SignalTypeOK /\ TokenOwned /\ ThreadInv /\ RaiseInv /\ QuietAfterDisconnect
  BY DEF ChannelInv, SignalInv
<1> USE <1>0 DEF RaiseInv, QuietAfterDisconnect, Raised, port, client, signalVars
<1>1. ASSUME NEW f \in Funcs, Add(f) PROVE RaiseInv' /\ QuietAfterDisconnect'
  BY <1>1 DEF Add, Subscribe, TypeOK, SignalTypeOK
<1>2. ASSUME NEW f \in Funcs, Remove(f) PROVE RaiseInv' /\ QuietAfterDisconnect'
  BY <1>2 DEF Remove, Unsubscribe, TypeOK, SignalTypeOK
<1>3. CASE Join
  <2>1. rpc \in {"done", "none"}
    BY <1>3 DEF Join, ThreadInv, Disconnecting
  <2>2. cloned' = {} /\ calling' = None /\ UNCHANGED token
    BY <1>3, <2>1 DEF Join
  <2>3. None \notin gone'
    BY <1>3, SignalAssumption DEF Join, TypeOK, NotSubscribed
  <2>4. \A f \in gone' : token'[f] = Undefined
    BY <1>3, <2>2 DEF Join, NotSubscribed
  <2>5. QED
    BY <2>2, <2>3, <2>4
<1>4. CASE CreateThread
  <2>1. rpc' = rpc \/ Raised
    BY <1>4 DEF CreateThread, ThreadInv, Disconnecting
  <2>2. UNCHANGED <<signalVars, gone>>
    BY <1>4 DEF CreateThread
  <2>3. QED
    BY <2>1, <2>2
<1>5. CASE Receive
  <2>1. calling = None /\ UNCHANGED <<calling, token, gone>> /\ cloned' = subscribers
    BY <1>5 DEF Receive, Raise, Goes
  <2>2. \A f \in gone : \A s \in subscribers : s[2] # f
    BY TokensAreNat DEF TokenOwned, SignalTypeOK
  <2>3. rpc' = "raise"
    BY <1>5 DEF Receive, Goes
  <2>4. QED
    BY <2>1, <2>2, <2>3
<1>6. CASE Call
  <2>1. None \notin gone
    BY SignalAssumption DEF TypeOK
  <2>2. UNCHANGED <<rpc, token, gone>> /\ rpc = "raise"
    BY <1>6 DEF Call, Invoke, Invoked
  <2>3. CASE Invoke
    BY <2>2, <2>3 DEF Invoke
  <2>4. CASE Invoked
    BY <2>1, <2>2, <2>4 DEF Invoked
  <2>5. QED
    BY <1>6, <2>3, <2>4 DEF Call
<1>7. CASE Connect \/ Disconnect \/ TakeFlag \/ CloseSocket \/ StatusDown \/ ConnectPort
  BY <1>7 DEF Connect, Disconnect, TakeFlag, CloseSocket, StatusDown, ConnectPort
<1>8. CASE \/ Begin \/ Loop \/ Switch \/ Retry \/ Reconnect \/ StatusUp \/ ReceiveFails
           \/ ReceiveRefused \/ EndRaise
  BY <1>8 DEF Begin, Loop, Switch, Retry, Reconnect, StatusUp, ReceiveFails, ReceiveRefused, EndRaise, Goes
<1>9. CASE PeerGoes \/ PeerComes \/ UNCHANGED vars
  BY <1>9 DEF PeerGoes, PeerComes, vars
<1>10. QED
  BY <1>1, <1>2, <1>3, <1>4, <1>5, <1>6, <1>7, <1>8, <1>9 DEF Next, ClientStep, ReceiverStep, Message
-----------------------------------------------------------------------------
\* Signal, thread and raise keep their invariants under every interleaving of client,
\* receiving thread and remote side.
THEOREM ChannelInvariant == Spec => []ChannelInv
<1>1. Init => ChannelInv
  BY ChannelInit
<1>2. ChannelInv /\ [Next]_vars => ChannelInv'
  <2> SUFFICES ASSUME ChannelInv, [Next]_vars PROVE ChannelInv'
    OBVIOUS
  <2>1. TypeOK' /\ SignalInv' /\ ThreadInv' /\ RaiseInv' /\ QuietAfterDisconnect'
    BY TypeStep, SignalStep, ThreadStep, RaiseStep
  <2>2. QED
    BY <2>1 DEF ChannelInv
<1>3. QED
  BY <1>1, <1>2, PTL DEF Spec

\* The variables of channel, port and signal keep their types.
THEOREM TypeCorrect == Spec => []TypeOK
<1>1. ChannelInv => TypeOK
  BY DEF ChannelInv
<1>2. QED
  BY <1>1, ChannelInvariant, PTL

\* signal::subscribe and unsubscribe leave every owner the token of its own function,
\* however tokens are reused.
THEOREM TokensStayOwned == Spec => []TokenOwned
<1>1. ChannelInv => TokenOwned
  BY DEF ChannelInv, SignalInv
<1>2. QED
  BY <1>1, ChannelInvariant, PTL

\* connect never assigns to a thread that is still to be joined.
THEOREM NoThreadOverwritten == Spec => []JoinedBeforeCreate
<1>1. ChannelInv => JoinedBeforeCreate
  BY DEF ChannelInv, ThreadInv, JoinedBeforeCreate, Disconnecting
<1>2. QED
  BY <1>1, ChannelInvariant, PTL

\* A function that is unsubscribed before a disconnect is not called after it, although
\* raise calls copies of the functions.
THEOREM DisconnectSilences == Spec => []QuietAfterDisconnect
<1>1. ChannelInv => QuietAfterDisconnect
  BY DEF ChannelInv
<1>2. QED
  BY <1>1, ChannelInvariant, PTL
=============================================================================
