----------------------------- MODULE ActionQueue -----------------------------
(***************************************************************************)
(* What a context promises to whoever posts actions to it, without worker, *)
(* mutex, batches, timers or suspension: an accepted action waits in one   *)
(* line, is started at most once, only from the head of the line and only  *)
(* while no other queued action runs, and ends completed, with an          *)
(* exception or cancelled.  Only a closed context cancels or refuses.      *)
(***************************************************************************)
EXTENDS Naturals, Sequences

CONSTANT Jobs      \* the action objects

VARIABLES line,    \* accepted actions that have not been started, oldest first
          state,   \* what the action object reports
          open     \* the context accepts actions

vars == <<line, state, open>>

Init ==
  /\ line = <<>>
  /\ state = [j \in Jobs |-> "none"]
  /\ open = TRUE

Accept(j) ==
  /\ open
  /\ state[j] = "none"
  /\ state' = [state EXCEPT ![j] = "pending"]
  /\ line' = Append(line, j)
  /\ UNCHANGED open

Refuse(j) ==
  /\ ~open
  /\ state[j] = "none"
  /\ state' = [state EXCEPT ![j] = "refused"]
  /\ UNCHANGED <<line, open>>

Start ==
  /\ line # <<>>
  /\ \A j \in Jobs : state[j] # "running"
  /\ state' = [state EXCEPT ![Head(line)] = "running"]
  /\ line' = Tail(line)
  /\ UNCHANGED open

Finish(j) ==
  /\ state[j] = "running"
  /\ \E result \in {"completed", "exception"} : state' = [state EXCEPT ![j] = result]
  /\ UNCHANGED <<line, open>>

\* Posted by code that already runs on the context: executed in place.
InPlace(j) ==
  /\ state[j] = "none"
  /\ \E result \in {"completed", "exception"} : state' = [state EXCEPT ![j] = result]
  /\ UNCHANGED <<line, open>>

\* The action object is dropped and a new one takes its place.
Renew(j) ==
  /\ state[j] \in {"completed", "exception", "cancelled", "refused"}
  /\ state' = [state EXCEPT ![j] = "none"]
  /\ UNCHANGED <<line, open>>

\* What is cancelled is the tail of the line from n + 1 on ...
CancelTail(n) ==
  /\ state' = [j \in Jobs |-> IF \E i \in n + 1 .. Len(line) : line[i] = j
                                THEN "cancelled" ELSE state[j]]
  /\ line' = SubSeq(line, 1, n)

\* ... when the context closes from inside, keeping open what its worker holds ...
CloseAndCancel ==
  /\ open
  /\ open' = FALSE
  /\ \E n \in 0 .. Len(line) : CancelTail(n)

Close ==
  /\ open
  /\ open' = FALSE
  /\ UNCHANGED <<line, state>>

\* ... or once it is closed: everything, or the oldest.
CancelAll ==
  /\ ~open
  /\ CancelTail(0)
  /\ UNCHANGED open

CancelHead ==
  /\ ~open
  /\ line # <<>>
  /\ state' = [state EXCEPT ![Head(line)] = "cancelled"]
  /\ line' = Tail(line)
  /\ UNCHANGED open

Next ==
  \/ \E j \in Jobs : Accept(j) \/ Refuse(j) \/ Finish(j) \/ InPlace(j) \/ Renew(j)
  \/ Start \/ Close \/ CloseAndCancel \/ CancelAll \/ CancelHead

Spec == Init /\ [][Next]_vars
=============================================================================
