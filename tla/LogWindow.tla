------------------------------ MODULE LogWindow ------------------------------
(***************************************************************************)
(* The logs of one window as StateChangeListener draws from them, which    *)
(* knows neither channels nor goroutines: NextEvent yields the oldest log  *)
(* left, and EndOfEvents comes when none is left or when the oldest one    *)
(* cannot be decoded.                                                      *)
(*                                                                         *)
(* LogIterator implements this specification.                              *)
(***************************************************************************)
EXTENDS Naturals

CONSTANT MaxLogs   \* bound on the logs of a window

VARIABLES
  pending,  \* the logs not yielded yet, numbered as in the chain
  bad,      \* the logs that cannot be decoded
  pc        \* "next": the iterator is asked, "body": a log is handled

windowVars == <<pending, bad, pc>>

Init ==
  /\ \E n \in 0 .. MaxLogs : pending = 1 .. n /\ bad \in SUBSET (1 .. n)
  /\ pc = "next"

Oldest(e) == e \in pending /\ \A f \in pending : e =< f

NextEvent ==
  /\ pc = "next"
  /\ \E e \in pending \ bad : Oldest(e) /\ pending' = pending \ {e}
  /\ pc' = "body"
  /\ UNCHANGED bad

EndOfEvents ==
  /\ pc = "next"
  /\ pending = {} \/ \E e \in bad : Oldest(e)
  /\ pc' = "ended"
  /\ UNCHANGED <<pending, bad>>

\* The log is handled, or the subscription is left because of it.
LeaveBody ==
  /\ pc = "body"
  /\ pc' \in {"next", "returned"}
  /\ UNCHANGED <<pending, bad>>

Next == NextEvent \/ EndOfEvents \/ LeaveBody

Spec == Init /\ [][Next]_windowVars
=============================================================================
