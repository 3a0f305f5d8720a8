-------------------------------- MODULE Oracle --------------------------------
(***************************************************************************)
(* The oracles of the network as a whole: savers create operations, the    *)
(* voter of one oracle votes on them, and both read the same chain.  A     *)
(* saver reads a transition as two neighbours in a page of the history; a  *)
(* voter reads its two entries by their hashes, at another time.           *)
(*                                                                         *)
(* The savers appear by what they promise, StateRelay, which               *)
(* StateChangeListener is shown to implement; the voter in full.           *)
(***************************************************************************)
EXTENDS Voting

Savers == INSTANCE StateRelay WITH ops <- created

\* (mutation: block_window left out)
SaveEarly == \E t \in Trees : \E k \in 2 .. Len(hist[t]) :
  /\ OpAt(t, k) \notin created
  /\ Announced(OpAt(t, k))

\* A saver reports a transition that is final.  Nothing says that one will: what
\* StateRelay promises is that nothing else is reported.
Save == \E op \in Savers!FinalOps :
  /\ op \notin created
  /\ Announced(op)

OracleNext == Save \/ Revote \/ RunVoter \/ Chain

\* Only the voter is fair: savers may leave out any transition.
OracleSpec == Init /\ [][OracleNext]_vars /\ Fairness

-----------------------------------------------------------------------------
\* An oracle never votes NO on what savers report, its own or others': what a
\* saver and a voter read of one transition, at different times and in
\* different ways, is the same.
SaversAreConfirmed == \A v \in votes : v.yes

\* Where transitions may be: an issuer has each state once.
Positions == GenesisLen + 1 .. GenesisLen + Cardinality(States) * Cardinality(Issuers)

\* The transition at position k of history t was reported.
Told(t, k) == k =< Len(hist[t]) /\ OpAt(t, k) \in created

\* The oracle has voted YES on it, or a call of its verification failed.
Voted(t, k) ==
  /\ Told(t, k)
  /\ phase # "start"
  /\ \/ OpAt(t, k) \notin owed
     \/ \E v \in votes : v.op = OpAt(t, k) /\ v.yes

\* What savers report before the catch-up lists what core has, or at any time
\* once its subscriber listens, gets the oracle's YES, unless a call of its
\* verification fails: between the report and the vote lie a listing that may
\* panic and be repeated, the operations before it, a subscription, and two
\* reads of a chain that moves.  What is reported between the listing and the
\* subscription is all that may go without a vote.
ReportsAreVoted ==
  \A t \in Trees : \A k \in Positions :
    /\ (phase = "start" /\ Told(t, k)) ~> Voted(t, k)
    /\ [](SubscriberOf([tree |-> t]) \in live /\ ~Told(t, k)
            => [](Told(t, k) => <>Voted(t, k)))
=============================================================================
