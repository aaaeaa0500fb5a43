----------------------------- MODULE MemoryTable -----------------------------
(***************************************************************************)
(* One table of the memory database: table_base and row_base               *)
(* (Include/utils/database.hpp) with the rows of                           *)
(* Modules/database/memory_database/row.cpp.                               *)
(*                                                                         *)
(* write_bytes stores under the row's mutex and reports to the callbacks   *)
(* after unlocking it, one report at a time per row (callback_handler's    *)
(* m_raise_mutex).  The table's own operations run under the lock of       *)
(* m_rows; add_row keeps it while it hands the new row to the table        *)
(* callbacks and subscribes the data callbacks afterwards.                 *)
(*                                                                         *)
(* A row is one object: a row that was removed stays usable for those who  *)
(* hold it, and adding its key again creates another object.  Data is a    *)
(* value, never a buffer; a write that the row ignores changes nothing and *)
(* is no step.                                                             *)
(***************************************************************************)
EXTENDS Naturals

CONSTANTS
  Rows,            \* row objects
  Key,             \* Key[r]: the key a row is added with
  Events,          \* rows of EMPTY_TYPE: they store nothing and always report
  Writers,         \* threads that write
  TableCallbacks,  \* subscribed to the table (subscribe_data_callback)
  RowCallbacks,    \* subscribed to single rows (subscribe_callback)
  Values, Zero,    \* the data, and what a new row holds
  Priorities,
  Resubscribe,     \* a data callback may be subscribed to the table again
  None

Callbacks == TableCallbacks \cup RowCallbacks

ASSUME TableAssumption ==
  /\ Events \subseteq Rows
  /\ TableCallbacks \cap RowCallbacks = {}
  /\ Zero \in Values
  /\ Priorities \subseteq Nat /\ 0 \in Priorities
  /\ Resubscribe \in BOOLEAN
  /\ None \notin Rows \cup Writers

VARIABLES
  rows,           \* m_rows
  created,        \* the row objects that exist
  adding,         \* the row that add_row has announced and not subscribed yet
  dataCallbacks,  \* m_data_callbacks of the table
  rowCallbacks,   \* rowCallbacks[r]: m_row_callback_handler.m_callbacks
  value,          \* value[r]: m_buffer
  writePriority,  \* writePriority[r]: m_write_priority
  raiser,         \* raiser[r]: the thread that holds m_raise_mutex
  at,             \* at[w]: idle, stored (the row unlocked), raising
  target, data,   \* the row and the arguments of w's write_bytes
  clone,          \* clone[w]: cloned_callbacks w has not called yet
  last,           \* last[c][r]: what c knows of r (history)
  subscribed,     \* callbacks whose last call on the table was subscribe (history)
  crossed         \* rows whose last write overlapped another or came before
                  \* add_row had subscribed its callbacks (history)

table == <<rows, created, adding, dataCallbacks>>
calls == <<at, target, data, clone, raiser>>
vars == <<table, rowCallbacks, value, writePriority, calls, last, subscribed, crossed>>

Init ==
  /\ rows = {} /\ created = {} /\ adding = None
  /\ dataCallbacks = {}
  /\ rowCallbacks = [r \in Rows |-> {}]
  /\ value = [r \in Rows |-> Zero]
  /\ writePriority = [r \in Rows |-> 0]
  /\ raiser = [r \in Rows |-> None]
  /\ at = [w \in Writers |-> "idle"]
  /\ target = [w \in Writers |-> None]
  /\ data = [w \in Writers |-> Zero]
  /\ clone = [w \in Writers |-> {}]
  /\ last = [c \in Callbacks |-> [r \in Rows |-> Zero]]
  /\ subscribed = {} /\ crossed = {}
-----------------------------------------------------------------------------
\* add_row: emplace the row and tell the table callbacks ...
AddRow(r) ==
  /\ adding = None
  /\ r \notin created
  /\ \A q \in rows : Key[q] # Key[r]
  /\ rows' = rows \cup {r}
  /\ created' = created \cup {r}
  /\ adding' = r
  /\ UNCHANGED <<dataCallbacks, rowCallbacks, value, writePriority, calls, last, subscribed, crossed>>

\* Mutant: only the rows of the moment of subscribing report.
MutNotFollowed ==
  /\ adding # None
  /\ adding' = None
  /\ UNCHANGED <<rows, created, dataCallbacks, rowCallbacks, value, writePriority,
                 calls, last, subscribed, crossed>>

\* ... then subscribe the table's data callbacks to it.
AddRowSubscribes ==
  /\ adding # None
  /\ rowCallbacks' = [rowCallbacks EXCEPT ![adding] = @ \cup dataCallbacks]
  /\ adding' = None
  /\ UNCHANGED <<rows, created, dataCallbacks, value, writePriority, calls, last, subscribed, crossed>>

\* remove_row; a write of the row that is under way goes on.
RemoveRow(r) ==
  /\ adding = None
  /\ r \in rows
  /\ rowCallbacks' = [rowCallbacks EXCEPT ![r] = @ \ dataCallbacks]
  /\ rows' = rows \ {r}
  /\ UNCHANGED <<created, adding, dataCallbacks, value, writePriority, calls, last, subscribed, crossed>>

\* subscribe_data_callback; the client reads the rows it subscribes to.
SubscribeData(c) ==
  /\ adding = None
  /\ c \notin subscribed
  /\ Resubscribe \/ c \notin dataCallbacks
  /\ IF c \in dataCallbacks
       THEN UNCHANGED <<dataCallbacks, rowCallbacks, last>>
       ELSE /\ dataCallbacks' = dataCallbacks \cup {c}
            /\ rowCallbacks' = [r \in Rows |-> IF r \in rows THEN rowCallbacks[r] \cup {c}
                                                             ELSE rowCallbacks[r]]
            /\ last' = [last EXCEPT ![c] = [r \in Rows |-> IF r \in rows THEN value[r] ELSE @[r]]]
  /\ subscribed' = subscribed \cup {c}
  /\ UNCHANGED <<rows, created, adding, value, writePriority, calls, crossed>>

\* unsubscribe_data_callback: the table itself does not forget the callback.
UnsubscribeData(c) ==
  /\ adding = None
  /\ c \in dataCallbacks /\ c \in subscribed
  /\ rowCallbacks' = [r \in Rows |-> IF r \in rows THEN rowCallbacks[r] \ {c} ELSE rowCallbacks[r]]
  /\ subscribed' = subscribed \ {c}
  /\ UNCHANGED <<table, value, writePriority, calls, last, crossed>>
-----------------------------------------------------------------------------
\* subscribe_callback of a row, by a client that reads the row with it.
SubscribeRow(c, r) ==
  /\ r \in created
  /\ c \notin rowCallbacks[r]
  /\ rowCallbacks' = [rowCallbacks EXCEPT ![r] = @ \cup {c}]
  /\ last' = [last EXCEPT ![c][r] = value[r]]
  /\ UNCHANGED <<table, value, writePriority, calls, subscribed, crossed>>

UnsubscribeRow(c, r) ==
  /\ c \in rowCallbacks[r]
  /\ rowCallbacks' = [rowCallbacks EXCEPT ![r] = @ \ {c}]
  /\ UNCHANGED <<table, value, writePriority, calls, last, subscribed, crossed>>

\* Mutant: the priority is stored one too high.
MutPriorityUp(r, p) ==
  /\ r \in created
  /\ writePriority' = [writePriority EXCEPT ![r] = p + 1]
  /\ UNCHANGED <<table, rowCallbacks, value, calls, last, subscribed, crossed>>

SetWritePriority(r, p) ==
  /\ r \in created
  /\ writePriority' = [writePriority EXCEPT ![r] = p]
  /\ UNCHANGED <<table, rowCallbacks, value, calls, last, subscribed, crossed>>

Quiet(r) == \A w \in Writers : at[w] # "idle" => target[w] # r

\* A write that overlaps nothing is reported in order to all who are subscribed.
Crossing(r) == IF Quiet(r) /\ r # adding THEN crossed \ {r} ELSE crossed \cup {r}

\* Mutant: a write of too low a priority is not stored but reported.
MutReportsIgnored(w, r, v, force, p) ==
  /\ at[w] = "idle" /\ r \in created
  /\ r \in Events \/ force \/ v # value[r]
  /\ value' = IF r \in Events \/ p < writePriority[r] THEN value ELSE [value EXCEPT ![r] = v]
  /\ at' = [at EXCEPT ![w] = "stored"]
  /\ target' = [target EXCEPT ![w] = r]
  /\ data' = [data EXCEPT ![w] = v]
  /\ crossed' = Crossing(r)
  /\ UNCHANGED <<table, rowCallbacks, writePriority, clone, raiser, last, subscribed>>

\* write_bytes under m_mutex, when it is not ignored.
Write(w, r, v, force, p) ==
  /\ at[w] = "idle" /\ r \in created
  /\ p >= writePriority[r]
  /\ r \in Events \/ force \/ v # value[r]
  /\ value' = IF r \in Events THEN value ELSE [value EXCEPT ![r] = v]
  /\ at' = [at EXCEPT ![w] = "stored"]
  /\ target' = [target EXCEPT ![w] = r]
  /\ data' = [data EXCEPT ![w] = v]
  /\ crossed' = Crossing(r)
  /\ UNCHANGED <<table, rowCallbacks, writePriority, clone, raiser, last, subscribed>>

\* notifier: raise_callbacks takes m_raise_mutex and clones the callbacks ...
RaiseBegin(w) ==
  /\ at[w] = "stored"
  /\ raiser[target[w]] = None
  /\ raiser' = [raiser EXCEPT ![target[w]] = w]
  /\ clone' = [clone EXCEPT ![w] = rowCallbacks[target[w]]]
  /\ at' = [at EXCEPT ![w] = "raising"]
  /\ UNCHANGED <<table, rowCallbacks, value, writePriority, target, data, last, subscribed, crossed>>

\* ... calls each of them with the arguments of the write ...
Report(w, c) ==
  /\ at[w] = "raising"
  /\ c \in clone[w]
  /\ clone' = [clone EXCEPT ![w] = @ \ {c}]
  /\ last' = [last EXCEPT ![c][target[w]] = data[w]]
  /\ UNCHANGED <<table, rowCallbacks, value, writePriority, at, target, data, raiser, subscribed, crossed>>

\* ... and lets the mutex go.
EndWrite(w) ==
  /\ at[w] = "raising"
  /\ clone[w] = {}
  /\ raiser' = [raiser EXCEPT ![target[w]] = None]
  /\ at' = [at EXCEPT ![w] = "idle"]
  /\ target' = [target EXCEPT ![w] = None]
  /\ data' = [data EXCEPT ![w] = Zero]
  /\ UNCHANGED <<table, rowCallbacks, value, writePriority, clone, last, subscribed, crossed>>
-----------------------------------------------------------------------------
TableStep ==
  \/ AddRowSubscribes
  \/ \E r \in Rows : AddRow(r) \/ RemoveRow(r)
  \/ \E c \in TableCallbacks : SubscribeData(c) \/ UnsubscribeData(c)

RowStep ==
  \E r \in Rows :
    \/ \E c \in RowCallbacks : SubscribeRow(c, r) \/ UnsubscribeRow(c, r)
    \/ \E p \in Priorities : SetWritePriority(r, p)

WriterStep(w) ==
  \/ \E r \in Rows, v \in Values, force \in BOOLEAN, p \in Priorities : Write(w, r, v, force, p)
  \/ RaiseBegin(w)
  \/ \E c \in Callbacks : Report(w, c)
  \/ EndWrite(w)

Next == TableStep \/ RowStep \/ \E w \in Writers : WriterStep(w)

Spec == Init /\ [][Next]_vars
-----------------------------------------------------------------------------
TypeOK ==
  /\ rows \subseteq created /\ created \subseteq Rows
  /\ adding \in rows \cup {None}
  /\ dataCallbacks \subseteq TableCallbacks
  /\ rowCallbacks \in [Rows -> SUBSET Callbacks]
  /\ value \in [Rows -> Values]
  /\ writePriority \in [Rows -> Priorities]
  /\ raiser \in [Rows -> Writers \cup {None}]
  /\ at \in [Writers -> {"idle", "stored", "raising"}]
  /\ target \in [Writers -> Rows \cup {None}]
  /\ \A w \in Writers : at[w] # "idle" => target[w] \in Rows
  /\ data \in [Writers -> Values]
  /\ clone \in [Writers -> SUBSET Callbacks]
  /\ last \in [Callbacks -> [Rows -> Values]]
  /\ subscribed \subseteq TableCallbacks
  /\ crossed \subseteq created

\* When the writes of a row have returned, every callback on it has been told
\* what the row holds, although row.cpp reports after the unlock: unless the
\* last write overlapped another one or came from on_row_added, and then the
\* next write that does not overlap puts it right.
CaughtUp ==
  \A r \in created \ (Events \cup crossed) : Quiet(r) =>
    \A c \in rowCallbacks[r] : last[c][r] = value[r]

\* The same of every row, as the comment in write_bytes has it: reporting after
\* the unlock is "a no issue since the callbacks are reported synchronously
\* with the arguments of this functions" (row.cpp:80).
AlwaysCaughtUp ==
  \A r \in created \ Events : Quiet(r) =>
    \A c \in rowCallbacks[r] : last[c][r] = value[r]

\* A data callback the table accepted is subscribed to exactly the rows of the
\* table, the ones added or removed later included.
TableFollowed ==
  \A c \in subscribed : \A r \in created \ {adding} : c \in rowCallbacks[r] <=> r \in rows
-----------------------------------------------------------------------------
\* A thread inside write_bytes has a row that exists.
WriteDiscipline == \A w \in Writers : at[w] # "idle" => target[w] \in created

\* Of a row whose last write did not overlap: that write is the only one, what
\* it carries is what the row holds, and whoever it will not call any more
\* knows it.
OneWriter ==
  \A r \in Rows \ crossed :
    /\ \A v, w \in Writers : at[v] # "idle" /\ at[w] # "idle" /\ target[v] = r /\ target[w] = r
         => v = w
    /\ \A w \in Writers : at[w] # "idle" /\ target[w] = r =>
         r # adding /\ (r \notin Events => data[w] = value[r])
    /\ \A w \in Writers : at[w] = "raising" /\ target[w] = r /\ r \notin Events =>
         \A c \in rowCallbacks[r] \ clone[w] : last[c][r] = value[r]
    /\ r \notin Events /\ (r \notin created \/ r = adding) =>
         \A c \in TableCallbacks : last[c][r] = value[r]

\* Nobody is subscribed to a row before it exists.
NewRowsSilent == \A r \in Rows \ created : rowCallbacks[r] = {}

ReportInv == WriteDiscipline /\ NewRowsSilent /\ OneWriter /\ CaughtUp

\* m_data_callbacks holds every callback that is on a row through the table.
ListComplete ==
  /\ subscribed \subseteq dataCallbacks
  /\ \A r \in created : rowCallbacks[r] \cap TableCallbacks \subseteq dataCallbacks

FollowInv == NewRowsSilent /\ ListComplete /\ TableFollowed
=============================================================================
