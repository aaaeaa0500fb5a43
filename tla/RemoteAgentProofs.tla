--------------------------- MODULE RemoteAgentProofs ---------------------------
(***************************************************************************)
(* Proofs about two RemoteAgents, for every set of tables and rows and for *)
(* every bound: DATA_SYNCED_STS is honest after a failure, and rows agree  *)
(* when nothing of their table was lost and nothing is under way.          *)
(***************************************************************************)
EXTENDS RemoteAgent, FiniteSetTheorems, SequenceTheorems, TLAPS

\* The peer is the other agent.
LEMMA PeerIsOther ==
  ASSUME NEW a \in Agents
  PROVE  /\ Peer(a) \in Agents /\ Peer(a) # a
         /\ \A b \in Agents : b # a => b = Peer(a)
<1>1. IsFiniteSet(Agents \ {a}) /\ Cardinality(Agents \ {a}) = 1
  BY AgentAssumption, FS_RemoveElement
<1>2. PICK b : Agents \ {a} = {b}
  BY <1>1, FS_Singleton
<1>3. \E c \in Agents : c # a
  BY <1>2
<1>4. Peer(a) \in Agents /\ Peer(a) # a
  BY <1>3 DEF Peer
<1> QED  BY <1>2, <1>4

\* The numbers that bound the model are naturals.
LEMMA BoundsNat == MaxQueue \in Nat /\ MaxWrites \in Nat /\ MaxStarts \in Nat /\ NumRows \in Nat
BY AgentAssumption

\* What is in a queue after its head was taken.
LEMMA TailKeeps ==
  ASSUME NEW S, NEW s \in Seq(S), s # <<>>
  PROVE  /\ Tail(s) \in Seq(S) /\ Len(Tail(s)) <= Len(s) /\ Head(s) \in S
         /\ \A i \in DOMAIN s : s[i] = Head(s) \/ \E k \in DOMAIN Tail(s) : Tail(s)[k] = s[i]
<1>1. /\ Tail(s) \in Seq(S) /\ Len(s) \in Nat \ {0} /\ Len(Tail(s)) = Len(s) - 1
      /\ Head(s) = s[1] /\ Head(s) \in S
      /\ DOMAIN s = 1 .. Len(s) /\ DOMAIN Tail(s) = 1 .. Len(s) - 1
      /\ \A k \in 1 .. Len(s) - 1 : Tail(s)[k] = s[k + 1]
  BY HeadTailProperties, EmptySeq
<1>2. ASSUME NEW i \in DOMAIN s, i # 1
      PROVE  \E k \in DOMAIN Tail(s) : Tail(s)[k] = s[i]
  <2>1. i - 1 \in DOMAIN Tail(s)
    BY <1>1, <1>2
  <2>2. Tail(s)[i - 1] = s[i]
    BY <1>1, <1>2
  <2> QED  BY <2>1, <2>2
<1> QED  BY <1>1, <1>2

\* What is in a queue after something was appended.
LEMMA AppendKeeps ==
  ASSUME NEW S, NEW s \in Seq(S), NEW e \in S
  PROVE  /\ Append(s, e) \in Seq(S) /\ Len(Append(s, e)) = Len(s) + 1
         /\ \A i \in DOMAIN s : i \in DOMAIN Append(s, e) /\ Append(s, e)[i] = s[i]
         /\ \E i \in DOMAIN Append(s, e) : Append(s, e)[i] = e
<1>1. /\ Append(s, e) \in Seq(S) /\ Len(s) \in Nat /\ Len(Append(s, e)) = Len(s) + 1
      /\ DOMAIN s = 1 .. Len(s) /\ DOMAIN Append(s, e) = 1 .. Len(s) + 1
      /\ \A i \in 1 .. Len(s) : Append(s, e)[i] = s[i]
      /\ Append(s, e)[Len(s) + 1] = e
  OBVIOUS
<1>2. Len(s) + 1 \in DOMAIN Append(s, e)
  BY <1>1
<1> QED  BY <1>1, <1>2

\* What is in a queue after several were appended.
LEMMA ConcatKeeps ==
  ASSUME NEW S, NEW s \in Seq(S), NEW t \in Seq(S)
  PROVE  /\ s \o t \in Seq(S) /\ Len(s \o t) = Len(s) + Len(t)
         /\ DOMAIN s = 1 .. Len(s) /\ DOMAIN (s \o t) = 1 .. Len(s) + Len(t)
         /\ \A i \in 1 .. Len(s) : (s \o t)[i] = s[i]
         /\ \A i \in 1 .. Len(t) : (s \o t)[i + Len(s)] = t[i]
BY ConcatProperties

\* What Send does: the peer's queue keeps what it had, and gets the messages but
\* for those whose loss takes their table out of clean.
LEMMA SendKeeps ==
  ASSUME TypeOK, NEW a \in Agents, NEW ms \in Seq(Messages), Send(a, ms)
  PROVE  /\ net' \in [Agents -> Seq(Messages)]
         /\ \A c \in Agents : Len(net'[c]) <= MaxQueue
         /\ clean' \subseteq clean
         /\ \A c \in Agents : \A i \in DOMAIN net[c] : i \in DOMAIN net'[c] /\ net'[c][i] = net[c][i]
         /\ \A i \in DOMAIN ms : ms[i].kind = "data" /\ TableOf[ms[i].row] \in clean' =>
              \E k \in DOMAIN net'[Peer(a)] : net'[Peer(a)][k] = ms[i]
<1> DEFINE b == Peer(a)
           room == IF b \in up THEN MaxQueue - Len(net[b]) ELSE 0
           sent == IF Len(ms) <= room THEN Len(ms) ELSE room
           part == SubSeq(ms, 1, sent)
<1>1. b \in Agents /\ net \in [Agents -> Seq(Messages)] /\ net[b] \in Seq(Messages)
  BY PeerIsOther DEF TypeOK
<1>2. Len(ms) \in Nat /\ Len(net[b]) \in Nat /\ Len(net[b]) <= MaxQueue /\ MaxQueue \in Nat
  BY <1>1, BoundsNat DEF TypeOK
<1>3. sent \in Nat /\ sent <= Len(ms) /\ Len(net[b]) + sent <= MaxQueue
  <2>1. PICK n \in Nat : n = Len(net[b])
    BY <1>2
  <2>2. room \in Nat /\ n + room <= MaxQueue
    <3>1. CASE b \in up
      BY <1>2, <2>1, <3>1
    <3>2. CASE b \notin up
      BY <1>2, <2>1, <3>2
    <3> QED  BY <3>1, <3>2
  <2> HIDE DEF b, room
  <2>3. CASE Len(ms) <= room
    BY <1>2, <2>1, <2>2, <2>3
  <2>4. CASE ~(Len(ms) <= room)
    BY <1>2, <2>1, <2>2, <2>4
  <2> QED  BY <2>3, <2>4
<1>4. /\ part \in Seq(Messages) /\ Len(part) = sent
      /\ \A i \in 1 .. sent : part[i] = ms[i]
  BY <1>3
<1>5. /\ net' = [net EXCEPT ![b] = @ \o part]
      /\ clean' = clean \ Touched({ms[i] : i \in sent + 1 .. Len(ms)})
  BY DEF Send
<1> HIDE DEF b, part, sent, room
<1>6. /\ net[b] \o part \in Seq(Messages) /\ Len(net[b] \o part) = Len(net[b]) + sent
      /\ DOMAIN (net[b] \o part) = 1 .. Len(net[b]) + sent
      /\ DOMAIN net[b] = 1 .. Len(net[b])
      /\ \A i \in 1 .. Len(net[b]) : (net[b] \o part)[i] = net[b][i]
      /\ \A i \in 1 .. sent : (net[b] \o part)[i + Len(net[b])] = ms[i]
  <2>1. net[b] \in Seq(Messages) /\ part \in Seq(Messages)
    BY <1>1, <1>4
  <2>2. /\ net[b] \o part \in Seq(Messages) /\ Len(net[b] \o part) = Len(net[b]) + Len(part)
        /\ DOMAIN net[b] = 1 .. Len(net[b]) /\ DOMAIN (net[b] \o part) = 1 .. Len(net[b]) + Len(part)
        /\ \A i \in 1 .. Len(net[b]) : (net[b] \o part)[i] = net[b][i]
        /\ \A i \in 1 .. Len(part) : (net[b] \o part)[i + Len(net[b])] = part[i]
    BY <2>1, ConcatKeeps, SMTT(20)
  <2> QED  BY <1>4, <2>2
<1>7. net'[b] = net[b] \o part /\ \A c \in Agents \ {b} : net'[c] = net[c]
  BY <1>1, <1>5
<1>8. net' \in [Agents -> Seq(Messages)]
  BY <1>1, <1>5, <1>6
<1>9. \A c \in Agents : Len(net'[c]) <= MaxQueue
  BY <1>2, <1>3, <1>6, <1>7 DEF TypeOK
<1>10. \A c \in Agents : \A i \in DOMAIN net[c] : i \in DOMAIN net'[c] /\ net'[c][i] = net[c][i]
  <2> TAKE c \in Agents
  <2>1. CASE c = b
    BY <2>1, <1>2, <1>3, <1>6, <1>7
  <2>2. CASE c # b
    BY <2>2, <1>7
  <2> QED  BY <2>1, <2>2
<1>11. ASSUME NEW i \in DOMAIN ms, ms[i].kind = "data", TableOf[ms[i].row] \in clean'
       PROVE  \E k \in DOMAIN net'[b] : net'[b][k] = ms[i]
  <2>1. i \in 1 .. Len(ms)
    OBVIOUS
  <2>2. i \notin sent + 1 .. Len(ms)
    BY <1>5, <1>11 DEF Touched
  <2>3. i \in 1 .. sent
    BY <2>1, <2>2, <1>2, <1>3
  <2>4. i + Len(net[b]) \in DOMAIN net'[b]
    BY <2>3, <1>2, <1>3, <1>6, <1>7
  <2>5. net'[b][i + Len(net[b])] = ms[i]
    BY <2>3, <1>6, <1>7
  <2> QED  BY <2>4, <2>5
<1> QED  BY <1>5, <1>8, <1>9, <1>10, <1>11 DEF b

\* The messages are well formed.
LEMMA DataIsMessage ==
  ASSUME NEW r \in Rows, NEW v \in Values
  PROVE  /\ Data(r, v) \in Messages /\ <<Data(r, v)>> \in Seq(Messages)
         /\ Data(r, v).kind = "data" /\ Data(r, v).row = r
         /\ DOMAIN <<Data(r, v)>> = {1} /\ <<Data(r, v)>>[1] = Data(r, v)
<1>1. Data(r, v) \in Messages
  BY DEF Messages
<1> QED  BY <1>1 DEF Data

\* What a message of each kind carries.
LEMMA MessageKinds ==
  ASSUME NEW m \in Messages
  PROVE  \/ m.kind = "register" /\ m.table \in Tables
         \/ /\ m.kind = "data" /\ m.row \in Rows /\ m.value \in Values
            /\ m = Data(m.row, m.value)
BY DEF Messages, Register, Data

\* Sending a single row.
LEMMA SendOne ==
  ASSUME TypeOK, NEW a \in Agents, NEW q \in Rows, NEW v \in Values, Send(a, <<Data(q, v)>>)
  PROVE  /\ clean' \subseteq clean
         /\ \A c \in Agents : \A i \in DOMAIN net[c] : i \in DOMAIN net'[c] /\ net'[c][i] = net[c][i]
         /\ TableOf[q] \in clean' => \E k \in DOMAIN net'[Peer(a)] : net'[Peer(a)][k] = Data(q, v)
<1>1. PICK ms \in Seq(Messages) : ms = <<Data(q, v)>>
  BY DataIsMessage
<1>2. DOMAIN ms = {1} /\ ms[1] = Data(q, v) /\ ms[1].kind = "data" /\ ms[1].row = q
  BY <1>1, DataIsMessage
<1>3. /\ clean' \subseteq clean
      /\ \A c \in Agents : \A i \in DOMAIN net[c] : i \in DOMAIN net'[c] /\ net'[c][i] = net[c][i]
      /\ \A i \in DOMAIN ms : ms[i].kind = "data" /\ TableOf[ms[i].row] \in clean' =>
              \E k \in DOMAIN net'[Peer(a)] : net'[Peer(a)][k] = ms[i]
  BY <1>1, SendKeeps
<1> QED  BY <1>2, <1>3

\* SendRegistrationRequests sends a sequence of registrations.
LEMMA RegistrationsAreMessages ==
  ASSUME NEW a \in Agents, NEW ms \in Registrations(a)
  PROVE  ms \in Seq(Messages) /\ \A i \in DOMAIN ms : ms[i].kind = "register"
<1>1. Missing(a) \subseteq Tables
  BY DEF Missing, Imported
<1>2. Cardinality(Missing(a)) \in Nat
  BY <1>1, AgentAssumption, FS_Subset, FS_CardinalityType
<1>3. ms \in [1 .. Cardinality(Missing(a)) -> {Register(t) : t \in Missing(a)}]
  BY DEF Registrations
<1>4. \A i \in 1 .. Cardinality(Missing(a)) : ms[i] \in Messages /\ ms[i].kind = "register"
  BY <1>1, <1>3 DEF Messages, Register
<1> QED  BY <1>2, <1>3, <1>4
--------------------------------------------------------------------------------
\* WriteRow keeps rows and reports well typed.
LEMMA WriteRowType ==
  ASSUME TypeOK, NEW a \in Agents, NEW r \in Rows, NEW v \in Values,
         Len(outbox[a]) < MaxQueue, WriteRow(a, r, v)
  PROVE  /\ value' \in [Agents -> [Rows -> Values]]
         /\ outbox' \in [Agents -> Seq(Rows \X Values)]
         /\ \A c \in Agents : Len(outbox'[c]) <= MaxQueue
<1> USE DEF TypeOK
<1>1. value' \in [Agents -> [Rows -> Values]]
  BY DEF WriteRow
<1>2. CASE outbox' = outbox
  BY <1>1, <1>2
<1>3. CASE outbox' = [outbox EXCEPT ![a] = Append(@, <<r, v>>)]
  <2>1. /\ outbox[a] \in Seq(Rows \X Values) /\ <<r, v>> \in Rows \X Values
        /\ Len(outbox[a]) \in Nat
    OBVIOUS
  <2>2. /\ Append(outbox[a], <<r, v>>) \in Seq(Rows \X Values)
        /\ Len(Append(outbox[a], <<r, v>>)) = Len(outbox[a]) + 1
    BY <2>1, AppendKeeps
  <2>3. /\ outbox'[a] = Append(outbox[a], <<r, v>>)
        /\ \A c \in Agents \ {a} : outbox'[c] = outbox[c]
        /\ outbox' \in [Agents -> Seq(Rows \X Values)]
    BY <1>3, <2>2
  <2>4. Len(outbox'[a]) <= MaxQueue
    BY <2>1, <2>2, <2>3, BoundsNat
  <2> QED  BY <1>1, <2>3, <2>4
<1> QED  BY <1>2, <1>3 DEF WriteRow

\* Taking the first message or report keeps the queues well typed.
LEMMA TakeType ==
  ASSUME NEW S, NEW f \in [Agents -> Seq(S)], NEW a \in Agents, f[a] # <<>>,
         \A c \in Agents : Len(f[c]) <= MaxQueue
  PROVE  /\ [f EXCEPT ![a] = Tail(@)] \in [Agents -> Seq(S)]
         /\ \A c \in Agents : Len([f EXCEPT ![a] = Tail(@)][c]) <= MaxQueue
         /\ Head(f[a]) \in S
<1>1. f[a] \in Seq(S) /\ Len(f[a]) \in Nat
  OBVIOUS
<1>2. Tail(f[a]) \in Seq(S) /\ Len(Tail(f[a])) <= Len(f[a]) /\ Head(f[a]) \in S
  BY <1>1, TailKeeps
<1>3. Len(Tail(f[a])) \in Nat
  BY <1>2
<1> QED  BY <1>1, <1>2, <1>3, BoundsNat

\* A keep-alive is on its way or not.
LEMMA KeepAliveType ==
  ASSUME TypeOK, NEW a \in Agents, SendKeepAlive(a)
  PROVE  keep' \in [Agents -> BOOLEAN]
<1>1. CASE Peer(a) \in up \cap Watchful
  <2>1. keep' = [keep EXCEPT ![Peer(a)] = TRUE]
    BY <1>1 DEF SendKeepAlive
  <2> QED  BY <2>1 DEF TypeOK
<1>2. CASE ~(Peer(a) \in up \cap Watchful)
  <2>1. keep' = [keep EXCEPT ![Peer(a)] = FALSE]
    <3>1. (Peer(a) \in up \cap Watchful) = FALSE
      BY <1>2
    <3> QED  BY <3>1 DEF SendKeepAlive
  <2> QED  BY <2>1 DEF TypeOK
<1> QED  BY <1>1, <1>2

\* The types of all variables are preserved by every step of every thread.
THEOREM TypeCorrect == Spec => []TypeOK
<1>1. Init => TypeOK
  BY BoundsNat DEF Init, TypeOK, Values, NoRow
<1>2. TypeOK /\ [Next]_vars => TypeOK'
  <2> SUFFICES ASSUME TypeOK, [Next]_vars PROVE TypeOK'
    OBVIOUS
  <2> USE DEF TypeOK, process, rows, link, receiver, history
  <2>1. ASSUME NEW a \in Agents, Start(a) PROVE TypeOK'
    BY <2>1, BoundsNat DEF Start
  <2>2. ASSUME NEW a \in Agents, Crash(a) PROVE TypeOK'
    BY <2>2, BoundsNat DEF Crash, Values, NoRow
  <2>3. ASSUME NEW a \in Agents, Lose(a) PROVE TypeOK'
    <3>1. CASE net' = net
      BY <2>3, <3>1 DEF Lose
    <3>2. CASE net[a] # <<>> /\ net' = [net EXCEPT ![a] = Tail(@)]
      <4>1. net' \in [Agents -> Seq(Messages)] /\ \A c \in Agents : Len(net'[c]) <= MaxQueue
        BY <3>2, TakeType
      <4> QED  BY <2>3, <4>1 DEF Lose
    <3> QED  BY <2>3, <3>1, <3>2 DEF Lose
  <2>4. ASSUME NEW a \in Agents, NEW r \in Rows, Write(a, r) PROVE TypeOK'
    <3>1. writes' \in Values /\ writes + 1 \in Values
      BY <2>4, BoundsNat DEF Write, Values
    <3>2. /\ value' \in [Agents -> [Rows -> Values]]
          /\ outbox' \in [Agents -> Seq(Rows \X Values)]
          /\ \A c \in Agents : Len(outbox'[c]) <= MaxQueue
      BY <2>4, <3>1, WriteRowType DEF Write
    <3> QED  BY <2>4, <3>1, <3>2 DEF Write
  <2>5. ASSUME NEW a \in Agents, SendUpdate(a) PROVE TypeOK'
    <3>1. /\ outbox' \in [Agents -> Seq(Rows \X Values)]
          /\ \A c \in Agents : Len(outbox'[c]) <= MaxQueue
          /\ Head(outbox[a]) \in Rows \X Values
      <4>1. outbox[a] # <<>> /\ outbox' = [outbox EXCEPT ![a] = Tail(@)]
        BY <2>5 DEF SendUpdate
      <4> DEFINE S == Rows \X Values
      <4>2. outbox \in [Agents -> Seq(S)] /\ \A c \in Agents : Len(outbox[c]) <= MaxQueue
        OBVIOUS
      <4> HIDE DEF S
      <4>3. /\ outbox' \in [Agents -> Seq(S)] /\ Head(outbox[a]) \in S
            /\ \A c \in Agents : Len(outbox'[c]) <= MaxQueue
        BY <4>1, <4>2, TakeType
      <4> QED  BY <4>3 DEF S
    <3>2. <<Data(Head(outbox[a])[1], Head(outbox[a])[2])>> \in Seq(Messages)
      BY <3>1, DataIsMessage
    <3>3. Send(a, <<Data(Head(outbox[a])[1], Head(outbox[a])[2])>>)
      BY <2>5 DEF SendUpdate
    <3>4. /\ net' \in [Agents -> Seq(Messages)] /\ \A c \in Agents : Len(net'[c]) <= MaxQueue
          /\ clean' \subseteq clean
      BY <3>2, <3>3, SendKeeps
    <3> QED  BY <2>5, <3>1, <3>4 DEF SendUpdate
  <2>6. ASSUME NEW a \in Agents, HandleKeepAlive(a) PROVE TypeOK'
    BY <2>6 DEF HandleKeepAlive
  <2>7. ASSUME NEW a \in Agents, HandleRegisterDB(a) PROVE TypeOK'
    <3>1. /\ net' \in [Agents -> Seq(Messages)] /\ \A c \in Agents : Len(net'[c]) <= MaxQueue
          /\ Head(net[a]) \in Messages /\ Head(net[a]).kind = "register"
      BY <2>7, TakeType DEF HandleRegisterDB, Takes
    <3>2. Head(net[a]).table \in Tables
      BY <3>1, MessageKinds
    <3> QED  BY <2>7, <3>1, <3>2 DEF HandleRegisterDB
  <2>8. ASSUME NEW a \in Agents, ReadRow(a) PROVE TypeOK'
    BY <2>8 DEF ReadRow
  <2>9. ASSUME NEW a \in Agents, SendRow(a) PROVE TypeOK'
    <3>1. held[a] \in Rows \X Values
      BY <2>9 DEF SendRow
    <3>2. <<Data(held[a][1], held[a][2])>> \in Seq(Messages)
      BY <3>1, DataIsMessage
    <3>3. /\ net' \in [Agents -> Seq(Messages)] /\ \A c \in Agents : Len(net'[c]) <= MaxQueue
          /\ clean' \subseteq clean
      BY <2>9, <3>2, SendKeeps DEF SendRow
    <3> QED  BY <2>9, <3>3 DEF SendRow
  <2>10. ASSUME NEW a \in Agents, HandleSingleDataValue(a) PROVE TypeOK'
    <3>1. /\ net' \in [Agents -> Seq(Messages)] /\ \A c \in Agents : Len(net'[c]) <= MaxQueue
          /\ Head(net[a]) \in Messages /\ Head(net[a]).kind = "data"
      BY <2>10, TakeType DEF HandleSingleDataValue, Takes
    <3>2. Head(net[a]).row \in Rows /\ Head(net[a]).value \in Values
      BY <3>1, MessageKinds
    <3>3. /\ value' \in [Agents -> [Rows -> Values]]
          /\ outbox' \in [Agents -> Seq(Rows \X Values)]
          /\ \A c \in Agents : Len(outbox'[c]) <= MaxQueue
      BY <2>10, <3>2, WriteRowType DEF HandleSingleDataValue
    <3>4. TableOf[Head(net[a]).row] \in Tables
      BY <3>2, AgentAssumption
    <3> QED  BY <2>10, <3>1, <3>3, <3>4 DEF HandleSingleDataValue
  <2>11. ASSUME NEW a \in Agents, Elapse(a) PROVE TypeOK'
    BY <2>11 DEF Elapse
  <2>12. ASSUME NEW a \in Agents, TimerSilent(a) PROVE TypeOK'
    BY <2>12, KeepAliveType DEF TimerSilent
  <2>13. ASSUME NEW a \in Agents, TimerStale(a) PROVE TypeOK'
    BY <2>13, BoundsNat DEF TimerStale
  <2>14. ASSUME NEW a \in Agents, Failed(a) PROVE TypeOK'
    BY <2>14, KeepAliveType DEF Failed
  <2>15. ASSUME NEW a \in Agents, TimerFresh(a) PROVE TypeOK'
    <3>1. PICK ms \in Registrations(a) : Send(a, ms)
      BY <2>15 DEF TimerFresh
    <3>2. /\ net' \in [Agents -> Seq(Messages)] /\ \A c \in Agents : Len(net'[c]) <= MaxQueue
          /\ clean' \subseteq clean
      BY <3>1, RegistrationsAreMessages, SendKeeps
    <3>3. keep' \in [Agents -> BOOLEAN]
      BY <2>15, KeepAliveType DEF TimerFresh
    <3>4. got' \in [Agents -> BOOLEAN] /\ synced' \in [Agents -> BOOLEAN]
      BY <2>15 DEF TimerFresh
    <3> QED  BY <2>15, <3>2, <3>3, <3>4 DEF TimerFresh
  <2>16. CASE UNCHANGED vars
    BY <2>16 DEF vars
  <2> QED
    BY <2>1, <2>2, <2>3, <2>4, <2>5, <2>6, <2>7, <2>8, <2>9, <2>10, <2>11, <2>12, <2>13, <2>14,
       <2>15, <2>16 DEF Next, Handle, Reply, Tick
<1> QED
  BY <1>1, <1>2, PTL DEF Spec
--------------------------------------------------------------------------------
\* The inductive invariant of the acknowledgements: only Failed takes them back, and
\* until it does the agent counts as failing.
THEOREM FedInvariant == Spec => []FedDiscipline
<1>1. Init => FedDiscipline
  BY DEF Init, FedDiscipline
<1>2. TypeOK /\ FedDiscipline /\ [Next]_vars => FedDiscipline'
  <2> SUFFICES ASSUME TypeOK, FedDiscipline, [Next]_vars PROVE FedDiscipline'
    OBVIOUS
  <2> USE DEF TypeOK, FedDiscipline, process, rows, link, receiver, history
  <2>1. CASE UNCHANGED <<acked, synced, failing, fed>>
    BY <2>1
  <2>2. ASSUME NEW a \in Agents, Crash(a) PROVE FedDiscipline'
    BY <2>2 DEF Crash
  <2>3. ASSUME NEW a \in Agents, HandleSingleDataValue(a) PROVE FedDiscipline'
    <3> DEFINE ts == {TableOf[Head(net[a]).row]} \cap Imported(a)
    <3>1. /\ acked' = [acked EXCEPT ![a] = @ \cup ts] /\ fed' = [fed EXCEPT ![a] = @ \cup ts]
          /\ synced' = synced /\ failing' = failing
      BY <2>3 DEF HandleSingleDataValue
    <3> HIDE DEF ts
    <3> QED  BY <3>1
  <2>4. ASSUME NEW a \in Agents, TimerStale(a) PROVE FedDiscipline'
    BY <2>4 DEF TimerStale
  <2>5. ASSUME NEW a \in Agents, Failed(a) PROVE FedDiscipline'
    BY <2>5 DEF Failed
  <2>6. ASSUME NEW a \in Agents, TimerFresh(a) PROVE FedDiscipline'
    <3>1. /\ synced' = [synced EXCEPT ![a] = Missing(a) = {}]
          /\ UNCHANGED <<acked, failing, fed>>
      BY <2>6 DEF TimerFresh
    <3>2. Missing(a) = {} => Imported(a) \subseteq acked[a]
      BY DEF Missing
    <3> QED  BY <3>1, <3>2
  <2>7. ASSUME NEW a \in Agents,
               \/ Start(a) \/ Lose(a) \/ SendUpdate(a) \/ HandleKeepAlive(a)
               \/ HandleRegisterDB(a) \/ ReadRow(a) \/ SendRow(a) \/ Elapse(a) \/ TimerSilent(a)
               \/ \E r \in Rows : Write(a, r)
        PROVE  UNCHANGED <<acked, synced, failing, fed>>
    BY <2>7 DEF Start, Lose, SendUpdate, HandleKeepAlive, HandleRegisterDB, ReadRow, SendRow,
                Elapse, TimerSilent, Write
  <2>8. CASE UNCHANGED vars
    BY <2>1, <2>8 DEF vars
  <2> QED
    BY <2>1, <2>2, <2>3, <2>4, <2>5, <2>6, <2>7, <2>8 DEF Next, Handle, Reply, Tick
<1> QED
  BY <1>1, <1>2, TypeCorrect, PTL DEF Spec

\* DATA_SYNCED_STS does not become TRUE after a failure before data of every imported
\* table has arrived since, whenever the receiver runs between Disconnect and the
\* moment the timer takes the acknowledgements back.
THEOREM SyncedIsHonest == Spec => []SyncedAfterFailure
<1>1. FedDiscipline => SyncedAfterFailure
  BY DEF FedDiscipline, SyncedAfterFailure
<1> QED
  BY <1>1, FedInvariant, PTL
--------------------------------------------------------------------------------
\* A row stays in line when its values, reports, messages and reply are kept.
LEMMA SettlingKept ==
  ASSUME NEW r \in Rows, Settling(r), \A c \in Agents : value'[c][r] = value[c][r],
         \A a \in Agents : Answering(a, r) => Answering(a, r)' \/ UnderWay(a, r)',
         \A a \in Agents : UnderWay(a, r) => UnderWay(a, r)'
  PROVE  Settling(r)'
BY DEF Settling

\* What is under way stays so when the queues keep the messages of its row.
LEMMA UnderWayGrows ==
  ASSUME TypeOK, NEW a \in Agents, NEW r \in Rows, UnderWay(a, r), value'[a][r] = value[a][r],
         \A i \in DOMAIN outbox[a] : \E k \in DOMAIN outbox'[a] : outbox'[a][k] = outbox[a][i],
         \A i \in DOMAIN net[Peer(a)] : net[Peer(a)][i] = Data(r, value[a][r]) =>
           \E k \in DOMAIN net'[Peer(a)] : net'[Peer(a)][k] = net[Peer(a)][i]
  PROVE  UnderWay(a, r)'
BY DEF UnderWay

\* WriteRow brings every row into line, or leaves it in line: a changed value is
\* reported to the peer, an unchanged one changes nothing.
LEMMA WriteSettles ==
  ASSUME TypeOK, NEW a \in Agents, NEW r \in Rows, NEW v \in Values, WriteRow(a, r, v)
  PROVE  /\ value[a][r] # v => UnderWay(a, r)'
         /\ value[a][r] = v => value' = value /\ outbox' = outbox
         /\ \A q \in Rows \ {r} : \A c \in Agents : value'[c][q] = value[c][q]
         /\ \A c \in Agents : \A i \in DOMAIN outbox[c] :
              i \in DOMAIN outbox'[c] /\ outbox'[c][i] = outbox[c][i]
<1> USE DEF TypeOK
<1>1. /\ \A q \in Rows \ {r} : \A c \in Agents : value'[c][q] = value[c][q]
      /\ value'[a][r] = v
  BY DEF WriteRow
<1>2. CASE value[a][r] = v
  BY <1>1, <1>2 DEF WriteRow
<1>3. CASE value[a][r] # v
  <2> DEFINE S == Rows \X Values
  <2>1. outbox \in [Agents -> Seq(S)] /\ <<r, v>> \in S
    OBVIOUS
  <2>2. outbox' = [outbox EXCEPT ![a] = Append(@, <<r, v>>)]
    BY <1>3 DEF WriteRow
  <2> HIDE DEF S
  <2>3. /\ \A i \in DOMAIN outbox[a] : /\ i \in DOMAIN Append(outbox[a], <<r, v>>)
                                       /\ Append(outbox[a], <<r, v>>)[i] = outbox[a][i]
        /\ \E i \in DOMAIN Append(outbox[a], <<r, v>>) : Append(outbox[a], <<r, v>>)[i] = <<r, v>>
    <3>1. outbox[a] \in Seq(S)
      BY <2>1
    <3>2. /\ \A i \in DOMAIN outbox[a] : /\ i \in DOMAIN Append(outbox[a], <<r, v>>)
                                         /\ Append(outbox[a], <<r, v>>)[i] = outbox[a][i]
      BY <2>1, <3>1
    <3>3. /\ Len(outbox[a]) + 1 \in DOMAIN Append(outbox[a], <<r, v>>)
          /\ Append(outbox[a], <<r, v>>)[Len(outbox[a]) + 1] = <<r, v>>
      BY <2>1, <3>1
    <3> QED  BY <3>2, <3>3
  <2>4. outbox'[a] = Append(outbox[a], <<r, v>>) /\ \A c \in Agents \ {a} : outbox'[c] = outbox[c]
    BY <2>1, <2>2
  <2>5. UnderWay(a, r)'
    BY <1>1, <2>3, <2>4 DEF UnderWay
  <2> QED  BY <1>1, <1>3, <2>3, <2>4, <2>5
<1> QED  BY <1>2, <1>3

\* Two records of data are the same message only for the same row and value.
LEMMA DataEqual ==
  ASSUME NEW r, NEW v, NEW q, NEW w, Data(r, v) = Data(q, w)
  PROVE  r = q /\ v = w
<1>1. Data(r, v).row = Data(q, w).row /\ Data(r, v).value = Data(q, w).value
  OBVIOUS
<1> QED  BY <1>1 DEF Data

\* The first message of a queue is the only one that is missing when it was taken.
LEMMA TakeKeeps ==
  ASSUME TypeOK, NEW a \in Agents, net[a] # <<>>, net' = [net EXCEPT ![a] = Tail(@)]
  PROVE  /\ Head(net[a]) \in Messages
         /\ \A c \in Agents : \A i \in DOMAIN net[c] :
              \/ c = a /\ net[c][i] = Head(net[a])
              \/ \E k \in DOMAIN net'[c] : net'[c][k] = net[c][i]
<1>1. net \in [Agents -> Seq(Messages)] /\ net[a] \in Seq(Messages)
  BY DEF TypeOK
<1>2. /\ Head(net[a]) \in Messages
      /\ \A i \in DOMAIN net[a] :
           net[a][i] = Head(net[a]) \/ \E k \in DOMAIN Tail(net[a]) : Tail(net[a])[k] = net[a][i]
  BY <1>1, TailKeeps
<1>3. net'[a] = Tail(net[a]) /\ \A c \in Agents \ {a} : net'[c] = net[c]
  BY <1>1
<1> QED  BY <1>2, <1>3

\* The inductive invariant of the rows: while nothing of its table is lost, a row that
\* differs has an up-to-date value on its way, or about to be read for the peer.
THEOREM CleanInvariant == Spec => []CleanDiscipline
<1>1. Init => CleanDiscipline
  BY DEF Init, CleanDiscipline
<1>2. TypeOK /\ CleanDiscipline /\ [Next]_vars => CleanDiscipline'
  <2> SUFFICES ASSUME TypeOK, CleanDiscipline, [Next]_vars,
                      NEW r \in Rows, TableOf[r] \in clean'
               PROVE  Settling(r)'
    BY DEF CleanDiscipline
  <2> USE DEF process, rows, link, receiver, history
  <2>1. ASSUME TableOf[r] \in clean PROVE Settling(r)
    BY <2>1 DEF CleanDiscipline
  <2>2. CASE UNCHANGED <<value, outbox, net, reply, held, clean>>
    BY <2>1, <2>2 DEF Settling, Answering, UnderWay
  <2>3. ASSUME NEW a \in Agents, Crash(a) PROVE FALSE
    BY <2>3 DEF Crash
  <2>4. ASSUME NEW a \in Agents, Lose(a) PROVE Settling(r)'
    <3>1. CASE UNCHANGED <<net, clean>>
      BY <2>4, <3>1, <2>2 DEF Lose
    <3>2. CASE /\ net[a] # <<>> /\ net' = [net EXCEPT ![a] = Tail(@)]
               /\ clean' = clean \ Touched({Head(net[a])})
      <4>1. UNCHANGED <<value, outbox, reply, held>>
        BY <2>4 DEF Lose
      <4>2. TableOf[r] \in clean /\ \A v : Head(net[a]) # Data(r, v)
        BY <3>2 DEF Touched, Data
      <4>3. ASSUME NEW c \in Agents, UnderWay(c, r) PROVE UnderWay(c, r)'
        <5>1. Peer(c) \in Agents
          BY PeerIsOther
        <5>2. \A i \in DOMAIN net[Peer(c)] :
                \/ Peer(c) = a /\ net[Peer(c)][i] = Head(net[a])
                \/ \E k \in DOMAIN net'[Peer(c)] : net'[Peer(c)][k] = net[Peer(c)][i]
          BY <3>2, <5>1, TakeKeeps
        <5> QED  BY <4>1, <4>2, <4>3, <5>2 DEF UnderWay
      <4> QED  BY <2>1, <4>1, <4>2, <4>3, SettlingKept DEF Answering
    <3> QED  BY <2>4, <3>1, <3>2 DEF Lose
  <2>5. ASSUME NEW a \in Agents, TimerStale(a) PROVE Settling(r)'
    <3>1. /\ UNCHANGED <<value, outbox, reply, held>> /\ net' = [net EXCEPT ![a] = <<>>]
          /\ clean' = clean \ Touched({net[a][i] : i \in DOMAIN net[a]})
      BY <2>5 DEF TimerStale
    <3>2. TableOf[r] \in clean /\ \A i \in DOMAIN net[a] : \A v : net[a][i] # Data(r, v)
      BY <3>1 DEF Touched, Data
    <3>3. ASSUME NEW c \in Agents, UnderWay(c, r) PROVE UnderWay(c, r)'
      <4>1. Peer(c) \in Agents /\ (Peer(c) # a => net'[Peer(c)] = net[Peer(c)])
        BY <3>1, PeerIsOther DEF TypeOK
      <4> QED  BY <3>1, <3>2, <3>3, <4>1, UnderWayGrows
    <3> QED  BY <2>1, <3>1, <3>2, <3>3, SettlingKept DEF Answering
  <2>6. ASSUME NEW a \in Agents, NEW q \in Rows, Write(a, q) PROVE Settling(r)'
    <3>1. /\ UNCHANGED <<net, reply, held, clean>>
          /\ WriteRow(a, q, writes + 1) /\ writes + 1 \in Values
      BY <2>6, BoundsNat DEF Write, TypeOK, Values
    <3>2. CASE value[a][q] = writes + 1
      BY <2>2, <3>1, <3>2, WriteSettles
    <3>3. CASE value[a][q] # writes + 1 /\ q = r
      BY <3>1, <3>3, WriteSettles DEF Settling
    <3>4. CASE q # r
      <4>1. /\ \A c \in Agents : value'[c][r] = value[c][r]
            /\ \A c \in Agents : \A i \in DOMAIN outbox[c] :
                 i \in DOMAIN outbox'[c] /\ outbox'[c][i] = outbox[c][i]
        BY <3>1, <3>4, WriteSettles
      <4>2. ASSUME NEW c \in Agents, UnderWay(c, r) PROVE UnderWay(c, r)'
        BY <3>1, <4>1, <4>2, UnderWayGrows
      <4> QED  BY <2>1, <3>1, <4>1, <4>2, SettlingKept DEF Answering
    <3> QED  BY <3>2, <3>3, <3>4
  <2>7. ASSUME NEW a \in Agents, HandleSingleDataValue(a) PROVE Settling(r)'
    <3>1. /\ net[a] # <<>> /\ net' = [net EXCEPT ![a] = Tail(@)] /\ Head(net[a]).kind = "data"
          /\ WriteRow(a, Head(net[a]).row, Head(net[a]).value) /\ UNCHANGED <<reply, held, clean>>
      BY <2>7 DEF HandleSingleDataValue, Takes
    <3>2. PICK q \in Rows, v \in Values :
            Head(net[a]) = Data(q, v) /\ Head(net[a]).row = q /\ Head(net[a]).value = v
      <4>1. Head(net[a]) \in Messages
        BY <3>1, TakeKeeps
      <4> QED  BY <3>1, <4>1, MessageKinds
    <3>3. \A c \in Agents : \A i \in DOMAIN net[c] :
            \/ c = a /\ net[c][i] = Data(q, v)
            \/ \E k \in DOMAIN net'[c] : net'[c][k] = net[c][i]
      <4>1. \A c \in Agents : \A i \in DOMAIN net[c] :
              \/ c = a /\ net[c][i] = Head(net[a])
              \/ \E k \in DOMAIN net'[c] : net'[c][k] = net[c][i]
        BY <3>1, TakeKeeps
      <4> QED  BY <3>2, <4>1
    <3>4. /\ value[a][q] # v => UnderWay(a, q)'
          /\ value[a][q] = v => value' = value /\ outbox' = outbox
          /\ \A o \in Rows \ {q} : \A c \in Agents : value'[c][o] = value[c][o]
          /\ \A c \in Agents : \A i \in DOMAIN outbox[c] :
               i \in DOMAIN outbox'[c] /\ outbox'[c][i] = outbox[c][i]
      BY <3>1, <3>2, WriteSettles
    <3>5. CASE r # q
      <4>1. \A w : Data(q, v) # Data(r, w)
        BY <3>5, DataEqual
      <4>2. ASSUME NEW c \in Agents, UnderWay(c, r) PROVE UnderWay(c, r)'
        <5>1. Peer(c) \in Agents
          BY PeerIsOther
        <5> QED  BY <3>3, <3>4, <3>5, <4>1, <4>2, <5>1, UnderWayGrows
      <4> QED  BY <2>1, <3>1, <3>4, <3>5, <4>2, SettlingKept DEF Answering
    <3>6. CASE r = q /\ value[a][r] # v
      BY <3>4, <3>6 DEF Settling
    <3>7. CASE r = q /\ value[a][r] = v
      <4>1. value' = value /\ outbox' = outbox
        BY <3>4, <3>7
      <4>2. ASSUME NEW c \in Agents, UnderWay(c, r)
            PROVE  UnderWay(c, r)' \/ (c # a /\ value[c][r] = value[a][r])
        <5>1. Peer(c) \in Agents /\ Peer(c) # c
          BY PeerIsOther
        <5>2. CASE Peer(c) = a /\ Data(q, v) = Data(r, value[c][r])
          BY <3>7, <5>1, <5>2, DataEqual
        <5>3. CASE ~(Peer(c) = a /\ Data(q, v) = Data(r, value[c][r]))
          BY <3>3, <4>1, <4>2, <5>1, <5>3, UnderWayGrows
        <5> QED  BY <5>2, <5>3
      <4>3. CASE \E c \in Agents : c # a /\ value[c][r] = value[a][r]
        <5>1. \A b, c \in Agents : value[b][r] = value[c][r]
          BY <4>3, PeerIsOther
        <5> QED  BY <4>1, <5>1 DEF Settling
      <4>4. CASE ~ \E c \in Agents : c # a /\ value[c][r] = value[a][r]
        BY <2>1, <3>1, <4>1, <4>2, <4>4, SettlingKept DEF Answering
      <4> QED  BY <4>3, <4>4
    <3> QED  BY <3>5, <3>6, <3>7
  <2>8. ASSUME NEW a \in Agents, SendUpdate(a) PROVE Settling(r)'
    <3> DEFINE S == Rows \X Values
               p == Head(outbox[a])
    <3>1. /\ outbox[a] # <<>> /\ outbox' = [outbox EXCEPT ![a] = Tail(@)]
          /\ Send(a, <<Data(p[1], p[2])>>) /\ UNCHANGED <<value, reply, held>>
      BY <2>8 DEF SendUpdate
    <3>2. outbox \in [Agents -> Seq(S)] /\ outbox[a] \in Seq(S)
      BY DEF TypeOK
    <3> HIDE DEF S
    <3>3. /\ p \in S
          /\ \A i \in DOMAIN outbox[a] :
               outbox[a][i] = p \/ \E k \in DOMAIN Tail(outbox[a]) : Tail(outbox[a])[k] = outbox[a][i]
      BY <3>1, <3>2, TailKeeps
    <3>4. outbox'[a] = Tail(outbox[a]) /\ \A c \in Agents \ {a} : outbox'[c] = outbox[c]
      BY <3>1, <3>2
    <3>5. p[1] \in Rows /\ p[2] \in Values /\ p = <<p[1], p[2]>>
      BY <3>3 DEF S
    <3> HIDE DEF p
    <3>6. /\ clean' \subseteq clean
          /\ \A c \in Agents : \A i \in DOMAIN net[c] : i \in DOMAIN net'[c] /\ net'[c][i] = net[c][i]
          /\ TableOf[p[1]] \in clean' =>
               \E k \in DOMAIN net'[Peer(a)] : net'[Peer(a)][k] = Data(p[1], p[2])
      BY <3>1, <3>5, SendOne
    <3>7. ASSUME NEW c \in Agents, UnderWay(c, r) PROVE UnderWay(c, r)'
      <4>1. Peer(c) \in Agents
        BY PeerIsOther
      <4>2. CASE c = a /\ p = <<r, value[a][r]>>
        <5>1. p[1] = r /\ p[2] = value[a][r]
          BY <4>2
        <5> QED  BY <3>1, <3>6, <4>2, <5>1 DEF UnderWay
      <4>3. CASE ~(c = a /\ p = <<r, value[a][r]>>)
        BY <3>1, <3>3, <3>4, <3>6, <3>7, <4>1, <4>3 DEF UnderWay
      <4> QED  BY <4>2, <4>3
    <3> QED  BY <2>1, <3>1, <3>6, <3>7, SettlingKept DEF Answering
  <2>9. ASSUME NEW a \in Agents, HandleRegisterDB(a) PROVE Settling(r)'
    <3> DEFINE t == Head(net[a]).table
    <3>1. /\ net[a] # <<>> /\ net' = [net EXCEPT ![a] = Tail(@)] /\ Head(net[a]).kind = "register"
          /\ reply[a] = {} /\ reply' = [reply EXCEPT ![a] = {q \in Rows : TableOf[q] = t}]
          /\ clean' = clean \cup {t} /\ UNCHANGED <<value, outbox, held>>
      BY <2>9 DEF HandleRegisterDB, Takes, Free
    <3>2. CASE TableOf[r] = t
      <4>1. r \in reply'[a]
        BY <3>1, <3>2 DEF TypeOK
      <4> QED  BY <4>1 DEF Settling, Answering
    <3>3. CASE TableOf[r] # t
      <4>1. TableOf[r] \in clean /\ \A v : Head(net[a]) # Data(r, v)
        BY <3>1, <3>3 DEF Data
      <4>2. ASSUME NEW c \in Agents, UnderWay(c, r) PROVE UnderWay(c, r)'
        <5>1. Peer(c) \in Agents
          BY PeerIsOther
        <5>2. \A i \in DOMAIN net[Peer(c)] :
                \/ Peer(c) = a /\ net[Peer(c)][i] = Head(net[a])
                \/ \E k \in DOMAIN net'[Peer(c)] : net'[Peer(c)][k] = net[Peer(c)][i]
          BY <3>1, <5>1, TakeKeeps
        <5> QED  BY <3>1, <4>1, <4>2, <5>2 DEF UnderWay
      <4>3. \A c \in Agents : Answering(c, r) => Answering(c, r)'
        BY <3>1 DEF Answering, TypeOK
      <4> QED  BY <2>1, <3>1, <4>1, <4>2, <4>3, SettlingKept
    <3> QED  BY <3>2, <3>3
  <2>10. ASSUME NEW a \in Agents, ReadRow(a) PROVE Settling(r)'
    <3>1. /\ UNCHANGED <<value, outbox, net, clean>> /\ held[a] = NoRow
          /\ \E q \in reply[a] : /\ reply' = [reply EXCEPT ![a] = @ \ {q}]
                                 /\ held' = [held EXCEPT ![a] = <<q, value[a][q]>>]
      BY <2>10 DEF ReadRow
    <3>2. \A c \in Agents : UnderWay(c, r) => UnderWay(c, r)'
      BY <3>1 DEF UnderWay
    <3>3. \A c \in Agents : Answering(c, r) => Answering(c, r)'
      BY <3>1 DEF Answering, TypeOK, NoRow
    <3> QED  BY <2>1, <3>1, <3>2, <3>3, SettlingKept
  <2>11. ASSUME NEW a \in Agents, SendRow(a) PROVE Settling(r)'
    <3> DEFINE p == held[a]
    <3>1. /\ p \in Rows \X Values /\ Send(a, <<Data(p[1], p[2])>>)
          /\ held' = [held EXCEPT ![a] = NoRow] /\ UNCHANGED <<value, outbox, reply>>
      BY <2>11 DEF SendRow, TypeOK
    <3>2. p[1] \in Rows /\ p[2] \in Values /\ p = <<p[1], p[2]>>
      BY <3>1
    <3>3. /\ clean' \subseteq clean
          /\ \A c \in Agents : \A i \in DOMAIN net[c] : i \in DOMAIN net'[c] /\ net'[c][i] = net[c][i]
          /\ TableOf[p[1]] \in clean' =>
               \E k \in DOMAIN net'[Peer(a)] : net'[Peer(a)][k] = Data(p[1], p[2])
      BY <3>1, <3>2, SendOne
    <3>4. \A c \in Agents : UnderWay(c, r) => UnderWay(c, r)'
      <4> TAKE c \in Agents
      <4>1. Peer(c) \in Agents
        BY PeerIsOther
      <4> QED  BY <3>1, <3>3, <4>1 DEF UnderWay
    <3>5. ASSUME NEW c \in Agents, Answering(c, r) PROVE Answering(c, r)' \/ UnderWay(c, r)'
      <4>1. CASE r \in reply[c]
        BY <3>1, <4>1 DEF Answering
      <4>2. CASE c # a /\ held[c] = <<r, value[c][r]>>
        BY <3>1, <4>2 DEF Answering, TypeOK
      <4>3. CASE c = a /\ p = <<r, value[a][r]>>
        <5>1. p[1] = r /\ p[2] = value[a][r]
          BY <4>3
        <5> QED  BY <3>1, <3>3, <4>3, <5>1 DEF UnderWay
      <4> QED  BY <3>5, <4>1, <4>2, <4>3 DEF Answering
    <3> QED  BY <2>1, <3>1, <3>3, <3>4, <3>5, SettlingKept
  <2>12. ASSUME NEW a \in Agents, TimerFresh(a) PROVE Settling(r)'
    <3>1. PICK ms \in Registrations(a) : Send(a, ms)
      BY <2>12 DEF TimerFresh
    <3>2. /\ clean' \subseteq clean
          /\ \A c \in Agents : \A i \in DOMAIN net[c] : i \in DOMAIN net'[c] /\ net'[c][i] = net[c][i]
      BY <3>1, RegistrationsAreMessages, SendKeeps
    <3>3. UNCHANGED <<value, outbox, reply, held>>
      BY <2>12 DEF TimerFresh
    <3>4. \A c \in Agents : UnderWay(c, r) => UnderWay(c, r)'
      <4> TAKE c \in Agents
      <4>1. Peer(c) \in Agents
        BY PeerIsOther
      <4> QED  BY <3>2, <3>3, <4>1 DEF UnderWay
    <3> QED  BY <2>1, <3>2, <3>3, <3>4, SettlingKept DEF Answering
  <2>13. ASSUME NEW a \in Agents,
                Start(a) \/ HandleKeepAlive(a) \/ Elapse(a) \/ TimerSilent(a) \/ Failed(a)
         PROVE  UNCHANGED <<value, outbox, net, reply, held, clean>>
    BY <2>13 DEF Start, HandleKeepAlive, Elapse, TimerSilent, Failed
  <2>14. CASE UNCHANGED vars
    BY <2>2, <2>14 DEF vars
  <2> QED
    BY <2>2, <2>3, <2>4, <2>5, <2>6, <2>7, <2>8, <2>9, <2>10, <2>11, <2>12, <2>13, <2>14
       DEF Next, Handle, Reply, Tick
<1> QED
  BY <1>1, <1>2, TypeCorrect, PTL DEF Spec

\* If nothing of a table was lost since it was registered, its rows agree as soon as
\* nothing of it is under way, for any number of rows and any length of the queues,
\* although both agents send back what they receive.
THEOREM RowsAgree == Spec => []AgreeWhenQuiet
<1>1. TypeOK /\ CleanDiscipline => AgreeWhenQuiet
  <2> SUFFICES ASSUME TypeOK, CleanDiscipline, NEW r \in Rows, TableOf[r] \in clean,
                      Quiet(TableOf[r])
               PROVE  \A a, b \in Agents : value[a][r] = value[b][r]
    BY DEF AgreeWhenQuiet
  <2>1. Settling(r)
    BY DEF CleanDiscipline
  <2>2. ASSUME NEW a \in Agents PROVE ~Answering(a, r)
    <3>1. r \notin reply[a] /\ held[a] # <<r, value[a][r]>>
      BY DEF Quiet, NoRow
    <3> QED  BY <3>1 DEF Answering
  <2>3. ASSUME NEW a \in Agents PROVE ~UnderWay(a, r)
    <3>1. Peer(a) \in Agents
      BY PeerIsOther
    <3>2. \A i \in DOMAIN outbox[a] : outbox[a][i] # <<r, value[a][r]>>
      BY DEF Quiet
    <3>3. \A i \in DOMAIN net[Peer(a)] : net[Peer(a)][i] # Data(r, value[a][r])
      BY <3>1 DEF Quiet, Touched, Data
    <3> QED  BY <3>2, <3>3 DEF UnderWay
  <2> QED  BY <2>1, <2>2, <2>3 DEF Settling
<1> QED
  BY <1>1, TypeCorrect, CleanInvariant, PTL
================================================================================
