------------------------------ MODULE RemoteAgent ------------------------------
(***************************************************************************)
(* Two RemoteAgents (ModernAPI/RemoteAgent.hpp) that keep tables of two    *)
(* processes alike over UDP.  Each table is exported by one of them and    *)
(* imported by the other.                                                  *)
(*                                                                         *)
(* An agent has four threads: the application writes exported rows; the    *)
(* dispatcher sends every change of a row of either kind of table to the   *)
(* peer, what the peer itself sent included; the receiver of the channel   *)
(* handles messages; the timer compares the time of the last keep-alive    *)
(* with the clock, declares the communication failed or resumed and        *)
(* registers for imported tables that are not acknowledged.                *)
(*                                                                         *)
(* Messages are delivered in order or lost, a keep-alive whenever it likes *)
(* and at most one at a time; agents crash and start anew with the initial *)
(* rows.  A write and its report are one step (MemoryTable has them        *)
(* apart).                                                                 *)
(***************************************************************************)
EXTENDS Integers, Sequences, FiniteSets

CONSTANTS
  Agents, Tables,
  NumRows,       \* rows are the numbers 1 .. NumRows
  TableOf,       \* the table of a row
  Exporter,      \* the agent that exports a table
  MaxWrites,     \* bound: writes of the applications
  MaxStarts,     \* bound: starts of agents
  Watchful,      \* bound: agents whose clock may find the peer silent
  MaxQueue       \* bound: messages and reports under way

Rows == 1 .. NumRows
Values == 0 .. MaxWrites

ASSUME AgentAssumption ==
  /\ IsFiniteSet(Agents) /\ Cardinality(Agents) = 2 /\ IsFiniteSet(Tables)
  /\ NumRows \in Nat /\ {MaxWrites, MaxStarts, MaxQueue} \subseteq Nat
  /\ Watchful \subseteq Agents
  /\ TableOf \in [Rows -> Tables] /\ Exporter \in [Tables -> Agents]

Peer(a) == CHOOSE b \in Agents : b # a
Imported(a) == {t \in Tables : Exporter[t] # a}

VARIABLES
  up, starts,    \* the processes that run; how often one was started
  value,         \* the rows of an agent's process
  writes,        \* writes of the applications so far
  outbox,        \* reports that wait in the dispatcher, as <<row, value>>
  net,           \* messages on their way to an agent
  keep,          \* a keep-alive is on its way to an agent
  fresh,         \* the last keep-alive against the clock, see HandleKeepAlive
  got,           \* m_bGotMsgFromRemoteAgentApp, and the communication is OK
  acked,         \* imported tables with m_isAcked
  synced,        \* DATA_SYNCED_STS
  failing,       \* the timer is between Disconnect and what follows Connect
  reply, held,   \* rows that HandleRegisterDB has to send, and the one it has read
  fed,           \* tables with data since the last failure (history)
  clean          \* tables registered with nothing lost since then (history)

process == <<up, starts>>
rows == <<value, outbox>>
link == <<got, acked, synced>>
receiver == <<reply, held>>
history == <<fed, clean>>
vars == <<process, rows, writes, net, keep, fresh, link, failing, receiver, history>>

Register(t) == [kind |-> "register", table |-> t]
Data(r, v) == [kind |-> "data", row |-> r, value |-> v]
Messages == {Register(t) : t \in Tables} \cup {Data(r, v) : r \in Rows, v \in Values}

NoRow == <<>>

Init ==
  /\ up = {} /\ starts = 0
  /\ value = [a \in Agents |-> [r \in Rows |-> 0]]
  /\ outbox = [a \in Agents |-> <<>>]
  /\ writes = 0
  /\ net = [a \in Agents |-> <<>>] /\ keep = [a \in Agents |-> FALSE]
  /\ fresh = [a \in Agents |-> "stale"]
  /\ got = [a \in Agents |-> FALSE]
  /\ acked = [a \in Agents |-> {}]
  /\ synced = [a \in Agents |-> FALSE]
  /\ failing = [a \in Agents |-> FALSE]
  /\ reply = [a \in Agents |-> {}] /\ held = [a \in Agents |-> NoRow]
  /\ fed = [a \in Agents |-> {}] /\ clean = {}
-----------------------------------------------------------------------------
(* Processes and network.                                                  *)

\* The constructor and Start.  m_nTickGetFromLastArrivedAck is not initialised.
Start(a) ==
  /\ a \notin up /\ starts < MaxStarts
  /\ up' = up \cup {a}
  /\ starts' = starts + 1
  /\ \E age \in {"fresh"} \cup {"stale" : w \in Watchful \cap {a}} :
       fresh' = [fresh EXCEPT ![a] = age]
  /\ UNCHANGED <<rows, writes, net, keep, link, failing, receiver, history>>

\* The process dies; its memory is gone.
Crash(a) ==
  /\ a \in up
  /\ up' = up \ {a}
  /\ value' = [value EXCEPT ![a] = [r \in Rows |-> 0]]
  /\ outbox' = [outbox EXCEPT ![a] = <<>>]
  /\ net' = [net EXCEPT ![a] = <<>>] /\ keep' = [keep EXCEPT ![a] = FALSE]
  /\ fresh' = [fresh EXCEPT ![a] = "stale"]
  /\ got' = [got EXCEPT ![a] = FALSE]
  /\ acked' = [acked EXCEPT ![a] = {}]
  /\ synced' = [synced EXCEPT ![a] = FALSE]
  /\ failing' = [failing EXCEPT ![a] = FALSE]
  /\ reply' = [reply EXCEPT ![a] = {}] /\ held' = [held EXCEPT ![a] = NoRow]
  /\ fed' = [fed EXCEPT ![a] = {}] /\ clean' = {}
  /\ UNCHANGED <<starts, writes>>

\* Tables of which a loss of the messages ms takes data.
Touched(ms) == {TableOf[m.row] : m \in {m \in ms : m.kind = "data"}}

\* Sends a sequence of messages of agent a; there is room for MaxQueue, the rest is lost.
Send(a, ms) ==
  LET b == Peer(a)
      room == IF b \in up THEN MaxQueue - Len(net[b]) ELSE 0
      sent == IF Len(ms) <= room THEN Len(ms) ELSE room
  IN /\ net' = [net EXCEPT ![b] = @ \o SubSeq(ms, 1, sent)]
     /\ clean' = clean \ Touched({ms[i] : i \in sent + 1 .. Len(ms)})

\* To an agent that is not watchful it makes no difference.
SendKeepAlive(a) == keep' = [keep EXCEPT ![Peer(a)] = Peer(a) \in up \cap Watchful]

Lose(a) ==
  /\ \/ /\ net[a] # <<>>
        /\ net' = [net EXCEPT ![a] = Tail(@)]
        /\ clean' = clean \ Touched({Head(net[a])})
        /\ UNCHANGED keep
     \/ /\ keep[a]
        /\ keep' = [keep EXCEPT ![a] = FALSE]
        /\ UNCHANGED <<net, clean>>
  /\ UNCHANGED <<process, rows, writes, fresh, link, failing, receiver, fed>>

\* Mutant: only changes of exported rows are reported, so that nothing is sent back.
MutNoEcho(a, r, v) ==
  /\ value' = [value EXCEPT ![a][r] = v]
  /\ outbox' = IF value[a][r] = v \/ Exporter[TableOf[r]] # a THEN outbox
               ELSE [outbox EXCEPT ![a] = Append(@, <<r, v>>)]

\* Row::Write: a value that changes the row is reported to the dispatcher.
WriteRow(a, r, v) ==
  /\ value' = [value EXCEPT ![a][r] = v]
  /\ outbox' = IF value[a][r] = v THEN outbox
               ELSE [outbox EXCEPT ![a] = Append(@, <<r, v>>)]

Write(a, r) ==
  /\ a \in up /\ Exporter[TableOf[r]] = a
  /\ writes < MaxWrites /\ Len(outbox[a]) < MaxQueue
  /\ writes' = writes + 1
  /\ WriteRow(a, r, writes + 1)
  /\ UNCHANGED <<process, net, keep, fresh, link, failing, receiver, history>>

\* The subscribed function: BuildSingleMsg with the reported value.
SendUpdate(a) ==
  /\ outbox[a] # <<>>
  /\ LET report == Head(outbox[a]) IN Send(a, <<Data(report[1], report[2])>>)
  /\ outbox' = [outbox EXCEPT ![a] = Tail(@)]
  /\ UNCHANGED <<process, value, writes, keep, fresh, link, failing, receiver, fed>>
-----------------------------------------------------------------------------
(* The receiver: MessageHandler.  While it replies it takes no message.    *)

Free(a) == a \in up /\ reply[a] = {} /\ held[a] = NoRow

Takes(a, kind) ==
  /\ Free(a) /\ net[a] # <<>> /\ Head(net[a]).kind = kind
  /\ net' = [net EXCEPT ![a] = Tail(@)]

\* The age of the last keep-alive when a tick compares it with the clock that it has
\* read: fresh, at most the timeout; stale, more; ahead, the keep-alive came after the
\* tick had read the clock, and the unsigned difference is huge.
HandleKeepAlive(a) ==
  /\ Free(a) /\ keep[a]
  /\ keep' = [keep EXCEPT ![a] = FALSE]
  /\ \E age \in {"fresh"} \cup {"ahead" : w \in Watchful \cap {a}} :
       fresh' = [fresh EXCEPT ![a] = age]
  /\ UNCHANGED <<process, rows, writes, net, link, failing, receiver, history>>

HandleRegisterDB(a) ==
  /\ Takes(a, "register")
  /\ LET t == Head(net[a]).table IN
     /\ reply' = [reply EXCEPT ![a] = {r \in Rows : TableOf[r] = t}]
     /\ clean' = clean \cup {t}
  /\ UNCHANGED <<process, rows, writes, keep, fresh, link, failing, held, fed>>

\* For each row in turn: read it, and send what was read.
ReadRow(a) ==
  /\ held[a] = NoRow
  /\ \E r \in reply[a] :
       /\ \A s \in reply[a] : r <= s
       /\ reply' = [reply EXCEPT ![a] = @ \ {r}]
       /\ held' = [held EXCEPT ![a] = <<r, value[a][r]>>]
  /\ UNCHANGED <<process, rows, writes, net, keep, fresh, link, failing, history>>

SendRow(a) ==
  /\ held[a] # NoRow
  /\ Send(a, <<Data(held[a][1], held[a][2])>>)
  /\ held' = [held EXCEPT ![a] = NoRow]
  /\ UNCHANGED <<process, rows, writes, keep, fresh, link, failing, reply, fed>>

\* The first row that arrives acknowledges the whole imported table.
HandleSingleDataValue(a) ==
  /\ Takes(a, "data") /\ Len(outbox[a]) < MaxQueue
  /\ LET m == Head(net[a])
         ts == {TableOf[m.row]} \cap Imported(a)
     IN /\ WriteRow(a, m.row, m.value)
        /\ acked' = [acked EXCEPT ![a] = @ \cup ts]
        /\ fed' = [fed EXCEPT ![a] = @ \cup ts]
  /\ UNCHANGED <<process, writes, keep, fresh, got, synced, failing, receiver, clean>>
-----------------------------------------------------------------------------
(* The timer: PeriodicRemoteAgentDataCollection, which ends with a         *)
(* keep-alive to the peer.                                                 *)

\* The clock goes on: the timeout passes, or the 32 bits of the difference wrap.
Elapse(a) ==
  /\ a \in up \cap Watchful
  /\ fresh' = [fresh EXCEPT ![a] = IF @ = "stale" THEN "fresh" ELSE "stale"]
  /\ UNCHANGED <<process, rows, writes, net, keep, link, failing, receiver, history>>

\* Silence goes on.
TimerSilent(a) ==
  /\ a \in up /\ fresh[a] # "fresh" /\ ~got[a] /\ ~failing[a]
  /\ SendKeepAlive(a)
  /\ fresh' = [fresh EXCEPT ![a] = IF @ = "ahead" THEN "fresh" ELSE @]
  /\ UNCHANGED <<process, rows, writes, net, link, failing, receiver, history>>

\* HandleRemoteAgentCommunicationError: Disconnect waits for the receiver and drops
\* what has arrived, ...
TimerStale(a) ==
  /\ Free(a) /\ fresh[a] # "fresh" /\ got[a]
  /\ got' = [got EXCEPT ![a] = FALSE]
  /\ net' = [net EXCEPT ![a] = <<>>] /\ keep' = [keep EXCEPT ![a] = FALSE]
  /\ fresh' = [fresh EXCEPT ![a] = IF @ = "ahead" THEN "fresh" ELSE @]
  /\ fed' = [fed EXCEPT ![a] = {}]
  /\ clean' = clean \ Touched({net[a][i] : i \in DOMAIN net[a]})
  /\ failing' = [failing EXCEPT ![a] = TRUE]
  /\ UNCHANGED <<process, rows, writes, acked, synced, receiver>>

\* Mutant: the imported tables stay acknowledged.
MutStaysAcked(a) ==
  /\ failing[a]
  /\ synced' = [synced EXCEPT ![a] = FALSE]
  /\ SendKeepAlive(a)
  /\ failing' = [failing EXCEPT ![a] = FALSE]
  /\ UNCHANGED <<process, rows, writes, net, fresh, got, acked, receiver, history>>

\* ... and after Connect the acknowledgements are taken back.
Failed(a) ==
  /\ failing[a]
  /\ acked' = [acked EXCEPT ![a] = {}]
  /\ synced' = [synced EXCEPT ![a] = FALSE]
  /\ SendKeepAlive(a)
  /\ failing' = [failing EXCEPT ![a] = FALSE]
  /\ UNCHANGED <<process, rows, writes, net, fresh, got, receiver, history>>

Missing(a) == Imported(a) \ acked[a]

\* The registrations, in an order of the tables.
Registrations(a) ==
  {s \in [1 .. Cardinality(Missing(a)) -> {Register(t) : t \in Missing(a)}] :
     \A i, j \in DOMAIN s : s[i] = s[j] => i = j}

\* Mutant: registrations only when the communication resumes.
MutRegisterOnce(a) ==
  /\ a \in up /\ fresh[a] = "fresh" /\ ~failing[a]
  /\ got' = [got EXCEPT ![a] = TRUE]
  /\ synced' = [synced EXCEPT ![a] = Missing(a) = {}]
  /\ IF got[a] THEN UNCHANGED <<net, clean>> ELSE \E ms \in Registrations(a) : Send(a, ms)
  /\ SendKeepAlive(a)
  /\ UNCHANGED <<process, rows, writes, fresh, acked, failing, receiver, fed>>

\* HandleRemoteAgentCommunicationResume, unless it was called before, and
\* SendRegistrationRequests.
TimerFresh(a) ==
  /\ a \in up /\ fresh[a] = "fresh" /\ ~failing[a]
  /\ got' = [got EXCEPT ![a] = TRUE]
  /\ synced' = [synced EXCEPT ![a] = Missing(a) = {}]
  /\ \E ms \in Registrations(a) : Send(a, ms)
  /\ SendKeepAlive(a)
  /\ UNCHANGED <<process, rows, writes, fresh, acked, failing, receiver, fed>>
-----------------------------------------------------------------------------
Handle(a) == HandleKeepAlive(a) \/ HandleRegisterDB(a) \/ HandleSingleDataValue(a)
Reply(a) == ReadRow(a) \/ SendRow(a)
Tick(a) == TimerSilent(a) \/ TimerStale(a) \/ Failed(a) \/ TimerFresh(a)

Next ==
  \E a \in Agents :
    \/ Start(a) \/ Crash(a) \/ Lose(a) \/ \E r \in Rows : Write(a, r)
    \/ SendUpdate(a) \/ Handle(a) \/ Reply(a) \/ Tick(a) \/ Elapse(a)

Spec == Init /\ [][Next]_vars

\* Threads run and timers tick; of a kind of message that arrives again and again
\* some are handled.
FairSpec ==
  /\ Spec
  /\ \A a \in Agents :
       /\ WF_vars(SendUpdate(a)) /\ WF_vars(Reply(a)) /\ WF_vars(Tick(a))
       /\ SF_vars(HandleRegisterDB(a)) /\ SF_vars(HandleSingleDataValue(a))
-----------------------------------------------------------------------------
TypeOK ==
  /\ up \subseteq Agents /\ starts \in 0 .. MaxStarts
  /\ value \in [Agents -> [Rows -> Values]] /\ writes \in Values
  /\ outbox \in [Agents -> Seq(Rows \X Values)] /\ net \in [Agents -> Seq(Messages)]
  /\ \A a \in Agents : Len(outbox[a]) <= MaxQueue /\ Len(net[a]) <= MaxQueue
  /\ fresh \in [Agents -> {"fresh", "stale", "ahead"}]
  /\ got \in [Agents -> BOOLEAN] /\ synced \in [Agents -> BOOLEAN]
  /\ keep \in [Agents -> BOOLEAN] /\ failing \in [Agents -> BOOLEAN]
  /\ acked \in [Agents -> SUBSET Tables] /\ fed \in [Agents -> SUBSET Tables]
  /\ reply \in [Agents -> SUBSET Rows] /\ held \in [Agents -> {NoRow} \cup (Rows \X Values)]
  /\ clean \subseteq Tables

\* After a failure DATA_SYNCED_STS is not TRUE again before every imported table has
\* got data that arrived after it, whenever messages arrive while it is handled.
SyncedAfterFailure ==
  \A a \in Agents : (synced[a] /\ ~failing[a]) => Imported(a) \subseteq fed[a]

Quiet(t) ==
  \A a \in Agents :
    /\ \A i \in DOMAIN outbox[a] : TableOf[outbox[a][i][1]] # t
    /\ \A i \in DOMAIN net[a] : net[a][i] # Register(t) /\ t \notin Touched({net[a][i]})
    /\ \A r \in reply[a] : TableOf[r] # t
    /\ held[a] # NoRow => TableOf[held[a][1]] # t

\* Both sides send each other every change, also those that came from the other, and
\* a registration is answered beside the updates: if nothing of a table was lost
\* since it was registered, its rows agree as soon as nothing is under way.
AgreeWhenQuiet ==
  \A t \in clean : Quiet(t) =>
    \A r \in Rows : TableOf[r] = t => \A a, b \in Agents : value[a][r] = value[b][r]

\* What makes the invariants above inductive.  Outside the handling of a failure a
\* table is acknowledged only by data that arrived after it.
FedDiscipline ==
  \A a \in Agents : ~failing[a] =>
    /\ acked[a] \subseteq fed[a]
    /\ synced[a] => Imported(a) \subseteq acked[a]

\* The value that a has in row r is on its way to the peer, or will be read for it.
UnderWay(a, r) ==
  \/ \E i \in DOMAIN outbox[a] : outbox[a][i] = <<r, value[a][r]>>
  \/ \E i \in DOMAIN net[Peer(a)] : net[Peer(a)][i] = Data(r, value[a][r])

Answering(a, r) == r \in reply[a] \/ held[a] = <<r, value[a][r]>>

\* A row that differs is brought into line by a value on its way that is not
\* outdated: who takes over an outdated one sends it back.
Settling(r) ==
  \/ \A a, b \in Agents : value[a][r] = value[b][r]
  \/ \E a \in Agents : Answering(a, r) \/ UnderWay(a, r)

CleanDiscipline == \A r \in Rows : TableOf[r] \in clean => Settling(r)

\* As long as the communication lasts, the tables become and stay synchronised,
\* whatever is lost and wherever the peer fails and starts anew.
Synchronises ==
  \A a \in Agents : <>[](got[a] /\ Peer(a) \in up) => <>[]synced[a]
=============================================================================
