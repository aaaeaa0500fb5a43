-------------------------------- MODULE Signal --------------------------------
(***************************************************************************)
(* utils::signal (Include/utils/signal.hpp): functions are kept under      *)
(* integer tokens, the lowest free one for a new subscription.  raise      *)
(* copies the functions under the mutex and calls the copies in the order  *)
(* of their tokens without it, so that subscriptions come and go while it  *)
(* is under way.                                                           *)
(*                                                                         *)
(* One raise at a time is modelled; a module that uses the signal says     *)
(* which thread raises it.                                                 *)
(***************************************************************************)
EXTENDS Integers, FiniteSets

CONSTANTS
  Funcs,         \* functions that may be subscribed
  None

ASSUME SignalAssumption == IsFiniteSet(Funcs) /\ None \notin Funcs

Undefined == -1  \* signal_token_undefined

\* There are never more subscriptions than functions, so a token below this is free.
Tokens == 0 .. Cardinality(Funcs) - 1

VARIABLES
  subscribers,   \* m_subscribers: a set of <<token, function>>
  token,         \* the token that the owner of a function keeps
  cloned,        \* what the running raise has copied and not called yet
  calling        \* the function it is calling

signalVars == <<subscribers, token, cloned, calling>>

SignalInit ==
  /\ subscribers = {}
  /\ token = [f \in Funcs |-> Undefined]
  /\ cloned = {} /\ calling = None

Used == {s[1] : s \in subscribers}

\* Mutant: the number of subscribers as the new token.
MutCountAsToken(f) ==
  /\ token[f] = Undefined
  /\ subscribers' = subscribers \cup {<<Cardinality(subscribers), f>>}
  /\ token' = [token EXCEPT ![f] = Cardinality(subscribers)]
  /\ UNCHANGED <<cloned, calling>>

\* Mutant: the token after the highest one, so that they grow for ever.
MutNextToken(f) ==
  /\ token[f] = Undefined
  /\ \E t \in 0 .. 2 * Cardinality(Funcs) :
       /\ \A u \in Used : u < t
       /\ \A u \in 0 .. t - 1 : \E v \in Used : u <= v
       /\ subscribers' = subscribers \cup {<<t, f>>}
       /\ token' = [token EXCEPT ![f] = t]
  /\ UNCHANGED <<cloned, calling>>

\* subscribe searches from 0 for a token that is not in use.
Subscribe(f) ==
  /\ token[f] = Undefined
  /\ \E t \in Tokens \ Used :
       /\ \A u \in 0 .. t - 1 : u \in Used
       /\ subscribers' = subscribers \cup {<<t, f>>}
       /\ token' = [token EXCEPT ![f] = t]
  /\ UNCHANGED <<cloned, calling>>

\* unsubscribe erases what is under the token; the owner forgets it, as RemoteAgent does.
Unsubscribe(f) ==
  /\ token[f] # Undefined
  /\ subscribers' = {s \in subscribers : s[1] # token[f]}
  /\ token' = [token EXCEPT ![f] = Undefined]
  /\ UNCHANGED <<cloned, calling>>

Raise ==
  /\ cloned' = subscribers
  /\ UNCHANGED <<subscribers, token, calling>>

Invoke ==
  /\ calling = None
  /\ \E s \in cloned :
       /\ \A o \in cloned : s[1] <= o[1]
       /\ cloned' = cloned \ {s}
       /\ calling' = s[2]
  /\ UNCHANGED <<subscribers, token>>

Invoked ==
  /\ calling # None
  /\ calling' = None
  /\ UNCHANGED <<subscribers, token, cloned>>

\* raise has called everything it copied.
Raised == cloned = {} /\ calling = None

SignalTypeOK ==
  /\ subscribers \subseteq Tokens \X Funcs
  /\ token \in [Funcs -> Tokens \cup {Undefined}]
  /\ cloned \subseteq Tokens \X Funcs
  /\ calling \in Funcs \cup {None}

\* However tokens are given back and used again, each owner's token leads to its own
\* function, nobody's to another's: an owner that unsubscribes once ends its own
\* subscription and no other.
TokenOwned ==
  /\ \A f \in Funcs : token[f] # Undefined => <<token[f], f>> \in subscribers
  /\ \A s \in subscribers : token[s[2]] = s[1]
=============================================================================
