----------------------------- MODULE StateUpdate -----------------------------
(***************************************************************************)
(* internal/rarimo/stateupdate.go: StateUpdateMessageMaker.  Given the     *)
(* block of a StateUpdated log, it looks in a history of the contract for  *)
(* the transition made in that block and turns it into an operation.       *)
(*                                                                         *)
(* getStatesOnBlock and getGISTsOnBlock are the same algorithm on two      *)
(* histories.  Here a lookup is one function of the history it reads;      *)
(* HistorySearch is the loop itself, one contract call at a time, and      *)
(* shows that it computes this function.                                   *)
(***************************************************************************)
EXTENDS Integers, Sequences

CONSTANT
  StatesPerRequest   \* entries asked for by one call (states_per_request)

ASSUME PageAssumption == StatesPerRequest \in Nat

NotFound == 0

\* Positions (from 1) at which the pages of a history of length len start:
\* the newest page first, every further one moved back by one entry less
\* than its size, so that neighbours share an entry.  A page that would
\* start at contract index 1 or 0 is not asked for, unless it is the first.
PageStarts(len) ==
  {p \in 2 .. len :
     \E n \in 0 .. len :
       /\ p = len - StatesPerRequest - n * (StatesPerRequest - 1) + 1
       /\ n = 0 \/ p > 2}

\* (mutations: the block of the replaced entry is compared; later blocks match)
MatchesReplaced(h, p, b) ==
  {k \in p + 1 .. p + StatesPerRequest - 1 : h[k - 1].block = b}
MatchesLater(h, p, b) ==
  {k \in p + 1 .. p + StatesPerRequest - 1 : h[k].block >= b}

\* Positions in the page from p that hold a transition made in block b: the
\* entry before it, which it replaced, must be in the same page.
Matches(h, p, b) ==
  {k \in p + 1 .. p + StatesPerRequest - 1 : h[k].block = b}

\* The position of the transition a lookup returns.  A history that is not
\* longer than one page is not searched.  Of several transitions in block b
\* it is the oldest one in the newest page that has any.
Lookup(h, b) ==
  LET hits == IF Len(h) =< StatesPerRequest \/ StatesPerRequest = 0 THEN {}
              ELSE {p \in PageStarts(Len(h)) : Matches(h, p, b) # {}}
  IN  IF hits = {} THEN NotFound
      ELSE LET newest == CHOOSE p \in hits : \A q \in hits : q =< p
               found  == Matches(h, newest, b)
           IN  CHOOSE k \in found : \A m \in found : k =< m
=============================================================================
