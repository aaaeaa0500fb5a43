-------------------------- MODULE MemoryTableProofs --------------------------
(***************************************************************************)
(* Proofs about MemoryTable: the types, that a write which overlaps no     *)
(* other brings every subscriber of its row up to date, and that a         *)
(* callback subscribed once to a table follows its rows.                   *)
(***************************************************************************)
EXTENDS MemoryTable, TLAPS

\* The variables keep their types under every operation on table and rows.
THEOREM TypeCorrect == Spec => []TypeOK
<1> USE TableAssumption DEF Callbacks
<1>1. Init => TypeOK
  BY DEF Init, TypeOK
<1>2. TypeOK /\ [Next]_vars => TypeOK'
  <2> SUFFICES ASSUME TypeOK, [Next]_vars PROVE TypeOK'
    OBVIOUS
  <2> USE DEF TypeOK, table, calls
  <2>1. ASSUME NEW r \in Rows, AddRow(r) PROVE TypeOK'
    BY <2>1 DEF AddRow
  <2>2. CASE AddRowSubscribes
    BY <2>2 DEF AddRowSubscribes
  <2>3. ASSUME NEW r \in Rows, RemoveRow(r) PROVE TypeOK'
    BY <2>3 DEF RemoveRow
  <2>4. ASSUME NEW c \in TableCallbacks, SubscribeData(c) PROVE TypeOK'
    BY <2>4 DEF SubscribeData
  <2>5. ASSUME NEW c \in TableCallbacks, UnsubscribeData(c) PROVE TypeOK'
    BY <2>5 DEF UnsubscribeData
  <2>6. ASSUME NEW r \in Rows, NEW c \in RowCallbacks, SubscribeRow(c, r) PROVE TypeOK'
    BY <2>6 DEF SubscribeRow
  <2>7. ASSUME NEW r \in Rows, NEW c \in RowCallbacks, UnsubscribeRow(c, r) PROVE TypeOK'
    BY <2>7 DEF UnsubscribeRow
  <2>8. ASSUME NEW r \in Rows, NEW p \in Priorities, SetWritePriority(r, p) PROVE TypeOK'
    BY <2>8 DEF SetWritePriority
  <2>9. ASSUME NEW w \in Writers, NEW r \in Rows, NEW v \in Values, NEW force \in BOOLEAN,
               NEW p \in Priorities, Write(w, r, v, force, p)
        PROVE  TypeOK'
    BY <2>9 DEF Write, Crossing
  <2>10. ASSUME NEW w \in Writers, RaiseBegin(w) PROVE TypeOK'
    BY <2>10 DEF RaiseBegin
  <2>11. ASSUME NEW w \in Writers, NEW c \in Callbacks, Report(w, c) PROVE TypeOK'
    BY <2>11 DEF Report
  <2>12. ASSUME NEW w \in Writers, EndWrite(w) PROVE TypeOK'
    BY <2>12 DEF EndWrite
  <2>13. CASE UNCHANGED vars
    BY <2>13 DEF vars
  <2> HIDE DEF TypeOK
  <2> QED
    BY <2>1, <2>2, <2>3, <2>4, <2>5, <2>6, <2>7, <2>8, <2>9, <2>10, <2>11, <2>12, <2>13
       DEF Next, TableStep, RowStep, WriterStep
<1> QED
  BY <1>1, <1>2, PTL DEF Spec

\* A callback that subscribes to the table once is on every row of the table,
\* on those added later too, and on no removed one (table_base's list of data
\* callbacks against the callbacks of each row).
THEOREM SubscriptionFollows ==
  ASSUME ~Resubscribe
  PROVE  Spec => []TableFollowed
<1> USE TableAssumption DEF Callbacks
<1>1. Init => FollowInv
  BY DEF Init, FollowInv, NewRowsSilent, ListComplete, TableFollowed
<1>2. TypeOK /\ FollowInv /\ [Next]_vars => FollowInv'
  <2> SUFFICES ASSUME TypeOK, FollowInv, [Next]_vars PROVE FollowInv'
    OBVIOUS
  <2> USE DEF TypeOK, FollowInv, NewRowsSilent, ListComplete, TableFollowed, table, calls
  <2>1. ASSUME NEW r \in Rows, AddRow(r) PROVE FollowInv'
    BY <2>1 DEF AddRow
  <2>2. CASE AddRowSubscribes
    BY <2>2 DEF AddRowSubscribes
  <2>3. ASSUME NEW r \in Rows, RemoveRow(r) PROVE FollowInv'
    BY <2>3 DEF RemoveRow
  <2>4. ASSUME NEW c \in TableCallbacks, SubscribeData(c) PROVE FollowInv'
    BY <2>4 DEF SubscribeData
  <2>5. ASSUME NEW c \in TableCallbacks, UnsubscribeData(c) PROVE FollowInv'
    BY <2>5 DEF UnsubscribeData
  <2>6. ASSUME NEW r \in Rows, NEW c \in RowCallbacks, SubscribeRow(c, r) PROVE FollowInv'
    BY <2>6 DEF SubscribeRow
  <2>7. ASSUME NEW r \in Rows, NEW c \in RowCallbacks, UnsubscribeRow(c, r) PROVE FollowInv'
    BY <2>7 DEF UnsubscribeRow
  <2>8. ASSUME UNCHANGED <<rows, created, adding, dataCallbacks, rowCallbacks, subscribed>>
        PROVE  FollowInv'
    BY <2>8
  <2> HIDE DEF FollowInv
  <2> QED
    BY <2>1, <2>2, <2>3, <2>4, <2>5, <2>6, <2>7, <2>8
       DEF Next, TableStep, RowStep, WriterStep, SetWritePriority, Write, RaiseBegin, Report,
           EndWrite, vars
<1>3. FollowInv => TableFollowed
  BY DEF FollowInv
<1> QED
  BY <1>1, <1>2, <1>3, TypeCorrect, PTL DEF Spec

\* Reporting after the unlock is harmless for a row whose last write overlapped
\* no other and came after add_row had subscribed the data callbacks: once
\* that write has returned every callback on the row has its value, whatever is
\* subscribed, unsubscribed, added, removed and written meanwhile. A later
\* such write makes up for writes that overlapped.
THEOREM SubscribersCatchUp == Spec => []CaughtUp
<1> USE TableAssumption DEF Callbacks
<1>1. Init => ReportInv
  BY DEF Init, ReportInv, WriteDiscipline, NewRowsSilent, OneWriter, CaughtUp
<1>2. TypeOK /\ ReportInv /\ [Next]_vars => ReportInv'
  <2> SUFFICES ASSUME TypeOK, ReportInv, [Next]_vars PROVE ReportInv'
    OBVIOUS
  <2> USE DEF TypeOK, ReportInv, WriteDiscipline, NewRowsSilent, OneWriter, CaughtUp, Quiet,
              table, calls
  <2>1. ASSUME NEW r \in Rows, AddRow(r) PROVE ReportInv'
    BY <2>1 DEF AddRow
  <2>2. CASE AddRowSubscribes
    BY <2>2 DEF AddRowSubscribes
  <2>3. ASSUME NEW r \in Rows, RemoveRow(r) PROVE ReportInv'
    BY <2>3 DEF RemoveRow
  <2>4. ASSUME NEW c \in TableCallbacks, SubscribeData(c) PROVE ReportInv'
    <3>1. CASE c \in dataCallbacks
      BY <2>4, <3>1 DEF SubscribeData
    <3>2. CASE c \notin dataCallbacks
      <4>1. \A r \in Rows : last'[c][r] = IF r \in rows THEN value[r] ELSE last[c][r]
        BY <2>4, <3>2 DEF SubscribeData
      <4>2. \A d \in Callbacks : d # c => last'[d] = last[d]
        BY <2>4, <3>2 DEF SubscribeData
      <4>3. \A r \in Rows : rowCallbacks'[r] = IF r \in rows THEN rowCallbacks[r] \cup {c}
                                                            ELSE rowCallbacks[r]
        BY <2>4, <3>2 DEF SubscribeData
      <4>4. UNCHANGED <<rows, created, adding, value, at, target, data, clone, crossed>> /\ adding = None
        BY <2>4 DEF SubscribeData
      <4>5. ASSUME NEW r \in created, NEW d \in rowCallbacks'[r],
                   d \in rowCallbacks[r] => last[d][r] = value[r]
            PROVE  last'[d][r] = value'[r]
        <5>1. r \in Rows
          OBVIOUS
        <5>2. d \in rowCallbacks[r] \cup {c}
          BY <4>3, <5>1
        <5>3. d \in Callbacks
          BY <5>1, <5>2
        <5>4. CASE d = c
          BY <4>1, <4>3, <4>4, <4>5, <5>1, <5>4
        <5>5. CASE d # c
          <6>1. last'[d] = last[d] /\ d \in rowCallbacks[r]
            BY <4>2, <5>2, <5>3, <5>5
          <6> QED  BY <4>4, <4>5, <6>1
        <5> QED  BY <5>4, <5>5
      <4>6. CaughtUp'
        BY <4>4, <4>5
      <4>7. ASSUME NEW w \in Writers, at'[w] = "raising", target'[w] \notin Events \cup crossed',
                   NEW d \in rowCallbacks'[target'[w]] \ clone'[w]
            PROVE  last'[d][target'[w]] = value'[target'[w]]
        <5>1. target[w] \in created /\ target'[w] = target[w]
          BY <4>4, <4>7
        <5>2. d \in rowCallbacks[target[w]] => last[d][target[w]] = value[target[w]]
          BY <4>4, <4>7, <5>1
        <5> QED  BY <4>5, <4>7, <5>1, <5>2
      <4>8. ASSUME NEW r \in Rows \ Events, r \notin created, NEW d \in TableCallbacks
            PROVE  last'[d][r] = value'[r]
        <5>1. r \notin rows /\ last[d][r] = value[r]
          BY <4>8
        <5> QED  BY <4>1, <4>2, <4>4, <4>8, <5>1
      <4>9. OneWriter'
        BY <4>4, <4>7, <4>8
      <4>10. WriteDiscipline' /\ NewRowsSilent'
        BY <4>3, <4>4
      <4> QED  BY <4>6, <4>9, <4>10
    <3> QED  BY <3>1, <3>2
  <2>5. ASSUME NEW c \in TableCallbacks, UnsubscribeData(c) PROVE ReportInv'
    BY <2>5 DEF UnsubscribeData
  <2>6. ASSUME NEW r \in Rows, NEW c \in RowCallbacks, SubscribeRow(c, r) PROVE ReportInv'
    BY <2>6 DEF SubscribeRow
  <2>7. ASSUME NEW r \in Rows, NEW c \in RowCallbacks, UnsubscribeRow(c, r) PROVE ReportInv'
    BY <2>7 DEF UnsubscribeRow
  <2>8. ASSUME NEW r \in Rows, NEW p \in Priorities, SetWritePriority(r, p) PROVE ReportInv'
    BY <2>8 DEF SetWritePriority
  <2>9. ASSUME NEW w \in Writers, NEW r \in Rows, NEW v \in Values, NEW force \in BOOLEAN,
               NEW p \in Priorities, Write(w, r, v, force, p)
        PROVE  ReportInv'
    BY <2>9 DEF Write, Crossing
  <2>10. ASSUME NEW w \in Writers, RaiseBegin(w) PROVE ReportInv'
    BY <2>10 DEF RaiseBegin
  <2>11. ASSUME NEW w \in Writers, NEW c \in Callbacks, Report(w, c) PROVE ReportInv'
    BY <2>11 DEF Report
  <2>12. ASSUME NEW w \in Writers, EndWrite(w) PROVE ReportInv'
    BY <2>12 DEF EndWrite
  <2>13. CASE UNCHANGED vars
    BY <2>13 DEF vars
  <2> HIDE DEF ReportInv
  <2> QED
    BY <2>1, <2>2, <2>3, <2>4, <2>5, <2>6, <2>7, <2>8, <2>9, <2>10, <2>11, <2>12, <2>13
       DEF Next, TableStep, RowStep, WriterStep
<1>3. ReportInv => CaughtUp
  BY DEF ReportInv
<1> QED
  BY <1>1, <1>2, <1>3, TypeCorrect, PTL DEF Spec
=============================================================================
