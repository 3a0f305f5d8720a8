-------------------------------- MODULE Voting --------------------------------
(***************************************************************************)
(* internal/services/voting and the Revote call of internal/services/grpc: *)
(* the oracle votes on the operations that savers, its own and those of    *)
(* other oracles, have created in Rarimo core.                             *)
(*                                                                         *)
(* RunVoter first catches up on the operations core already has and then   *)
(* subscribes to new ones, one subscription per type of operation; Revote  *)
(* runs beside both.  Each of these routines verifies one operation at a   *)
(* time: it reads the new and the replaced entry from the contract, by two *)
(* calls between which the chain may be reorganised, has core turn the     *)
(* message made from them into an operation, and compares.                 *)
(*                                                                         *)
(* The catch-up, the subscriber and Voter.Process are code of              *)
(* saver-grpc-lib, modelled as the service relies on them: the catch-up    *)
(* panics when it cannot list the operations, an operation that cannot be  *)
(* processed is passed over, and Process casts the vote of a verifier that *)
(* returned no error, and no vote otherwise.                               *)
(***************************************************************************)
EXTENDS StateContract, FiniteSets

CONSTANTS
  FaultKinds,  \* which calls may fail
  MaxFaults,   \* bound on failed calls
  MaxOps,      \* bound on operations in core
  MaxRevotes,  \* bound on Revote calls
  None         \* no verification, no entry, no message

ASSUME VotingAssumption ==
  /\ FaultKinds \subseteq {"list", "read", "query", "cast"}
  /\ MaxFaults \in Nat /\ MaxOps \in Nat /\ MaxRevotes \in Nat

Subscribers == {"gist", "state"}
Routines == Subscribers \union {"catchup", "revote"}

VARIABLES
  created,  \* operations in core
  votes,    \* votes cast: [op, yes, since]
  phase,    \* of RunVoter: "start", "catchup" or "done"
  live,     \* the subscribers that have subscribed
  todo,     \* per routine, the operations it will still verify
  task,     \* per routine, the verification under way, or None
  revotes, faults,
  owed      \* history: operations this oracle has to vote YES on

voterVars == <<phase, live, todo, task, revotes>>
vars == <<chainVars, created, votes, voterVars, faults, owed>>

Init ==
  /\ ContractInit
  /\ created = {} /\ votes = {}
  /\ phase = "start" /\ live = {}
  /\ todo = [r \in Routines |-> {}]
  /\ task = [r \in Routines |-> None]
  /\ revotes = 0 /\ faults = 0 /\ owed = {}

Fault(k) ==
  /\ k \in FaultKinds
  /\ faults < MaxFaults
  /\ faults' = faults + 1

-----------------------------------------------------------------------------
\* OpQueryGISTUpdate and OpQueryStateUpdate.
SubscriberOf(op) == IF op.tree = Gist THEN "gist" ELSE "state"

(***************************************************************************)
(* Rarimo core and the savers.  A saver reports what it believes it found  *)
(* on the chain: the transition may be reorganised away again, or be       *)
(* reported with another block or another predecessor.                     *)
(***************************************************************************)
Claims(t, k) ==
  LET op == OpAt(t, k)
  IN  {op} \union {[op EXCEPT !.block = b] : b \in InitHead .. head}
           \union {[op EXCEPT !.old = hist[t][j].val] : j \in 1 .. Len(hist[t])}

\* What the oracle has to vote YES on when it is told of the operations in S.
Due(S) == {op \in S : Genuine(op) /\ op.block =< final}

\* Operation op is created in core, and its subscriber is told if it listens.
Announced(op) ==
  /\ created' = created \union {op}
  /\ IF SubscriberOf(op) \in live
     THEN /\ todo' = [todo EXCEPT ![SubscriberOf(op)] = @ \union {op}]
          /\ owed' = owed \union Due({op})
     ELSE UNCHANGED <<todo, owed>>
  /\ UNCHANGED <<chainVars, votes, phase, live, task, revotes, faults>>

Create ==
  /\ Cardinality(created) < MaxOps
  /\ \E t \in Trees : \E k \in GenesisLen + 1 .. Len(hist[t]) : \E op \in Claims(t, k) :
       op \notin created /\ Announced(op)

-----------------------------------------------------------------------------
\* The catch-up lists the operations in core.  It panics when it cannot, and
\* running.UntilSuccess starts it again.
List ==
  /\ phase = "start"
  /\ \/ Fault("list") /\ UNCHANGED <<phase, todo, owed>>
     \/ /\ phase' = "catchup"
        /\ todo' = [todo EXCEPT !["catchup"] = created]
        /\ owed' = owed \union Due(created)
        /\ UNCHANGED faults
  /\ UNCHANGED <<chainVars, created, votes, live, task, revotes>>

\* The catch-up is over; only then RunVoter goes on.
CaughtUp ==
  /\ phase = "catchup"
  /\ todo["catchup"] = {} /\ task["catchup"] = None
  /\ phase' = "done"
  /\ UNCHANGED <<chainVars, created, votes, live, todo, task, revotes, faults, owed>>

\* (mutation: the subscribers do not wait for the catch-up)
SubscribeAtOnce(r) ==
  /\ phase # "start"
  /\ r \notin live
  /\ live' = live \union {r}
  /\ UNCHANGED <<chainVars, created, votes, phase, todo, task, revotes, faults, owed>>

\* One of the two subscribers begins to listen.
Subscribe(r) ==
  /\ phase = "done"
  /\ r \notin live
  /\ live' = live \union {r}
  /\ UNCHANGED <<chainVars, created, votes, phase, todo, task, revotes, faults, owed>>

Verification(op) == [op |-> op, since |-> 0, latest |-> None, msg |-> None]

\* (mutation: the voter is given no verifier for operations on states)
ProcessGistOnly(r) ==
  /\ task[r] = None
  /\ \E op \in todo[r] :
       /\ todo' = [todo EXCEPT ![r] = @ \ {op}]
       /\ task' = IF op.tree = Gist THEN [task EXCEPT ![r] = Verification(op)] ELSE task
  /\ UNCHANGED <<chainVars, created, votes, phase, live, revotes, faults, owed>>

\* A routine turns to the next of its operations.
Process(r) ==
  /\ task[r] = None
  /\ \E op \in todo[r] :
       /\ todo' = [todo EXCEPT ![r] = @ \ {op}]
       /\ task' = [task EXCEPT ![r] = Verification(op)]
  /\ UNCHANGED <<chainVars, created, votes, phase, live, revotes, faults, owed>>

\* Someone asks for another vote on an operation.
Revote ==
  /\ task["revote"] = None
  /\ revotes < MaxRevotes
  /\ revotes' = revotes + 1
  /\ \E op \in created : task' = [task EXCEPT !["revote"] = Verification(op)]
  /\ UNCHANGED <<chainVars, created, votes, phase, live, todo, faults, owed>>

-----------------------------------------------------------------------------
(***************************************************************************)
(* Verify: two reads of the contract, then the comparison by core.         *)
(***************************************************************************)
EndOf(r) == task' = [task EXCEPT ![r] = None]

\* (mutation: an error is taken for a wrong operation)
FailVotesNo(r) ==
  /\ EndOf(r)
  /\ votes' = votes \union {[op |-> task[r].op, yes |-> FALSE, since |-> final]}

\* Verify returns an error: no vote.
Fail(r) == EndOf(r) /\ UNCHANGED votes

\* A call of routine r failed; what it was about is no longer owed, unless the
\* routine only repeats what another one has to do.
CallFails(r, k) ==
  /\ Fault(k)
  /\ owed' = IF r = "revote" THEN owed ELSE owed \ {task[r].op}

NoFault == UNCHANGED <<faults, owed>>

\* GetGISTRootInfo and GetStateInfoByIdAndState find an entry by its value.
With(t, v) == {k \in 1 .. Len(hist[t]) : hist[t][k].val = v}

\* The entry that the operation says is new is read.
ReadLatest(r) ==
  /\ task[r] # None /\ task[r].latest = None
  /\ LET op == task[r].op
     IN  \/ CallFails(r, "read") /\ Fail(r)
         \/ With(op.tree, op.new) = {} /\ Fail(r) /\ NoFault
         \/ /\ \E k \in With(op.tree, op.new) :
                 task' = [task EXCEPT ![r].latest = hist[op.tree][k],
                                      ![r].since = final]
            /\ NoFault
            /\ UNCHANGED votes

\* (mutation: whether one entry replaced the other is not looked at)
ReplacesAny(t, k, v) == TRUE

\* The entry at position k of history t was replaced by value v.
Replaces(t, k, v) == k < Len(hist[t]) /\ hist[t][k + 1].val = v

\* The entry that the operation says was replaced is read, and the message is
\* made from both.
ReadReplaced(r) ==
  /\ task[r] # None /\ task[r].latest # None /\ task[r].msg = None
  /\ LET op     == task[r].op
         latest == task[r].latest
     IN  \/ CallFails(r, "read") /\ Fail(r)
         \/ /\ \A k \in With(op.tree, op.old) : ~Replaces(op.tree, k, latest.val)
            /\ Fail(r)
            /\ NoFault
         \/ /\ \E k \in With(op.tree, op.old) :
                 /\ Replaces(op.tree, k, latest.val)
                 /\ task' = [task EXCEPT ![r].msg =
                               [tree |-> op.tree, new |-> latest.val,
                                block |-> latest.block, old |-> hist[op.tree][k].val]]
            /\ NoFault
            /\ UNCHANGED votes

\* Core makes an operation of the message; the vote says whether it is the one
\* under verification.  A vote reported as not cast may have been cast.
Vote(r) ==
  /\ task[r] # None /\ task[r].msg # None
  /\ LET v == [op |-> task[r].op, yes |-> task[r].msg = task[r].op, since |-> task[r].since]
     IN  \/ CallFails(r, "query") /\ Fail(r)
         \/ /\ EndOf(r)
            /\ votes' = votes \union {v}
            /\ \/ NoFault
               \/ CallFails(r, "cast")

Verify(r) ==
  /\ ReadLatest(r) \/ ReadReplaced(r) \/ Vote(r)
  /\ UNCHANGED <<chainVars, created, phase, live, todo, revotes>>

-----------------------------------------------------------------------------
Chain ==
  ContractNext /\ UNCHANGED <<created, votes, voterVars, faults, owed>>

RunVoter ==
  \/ List \/ CaughtUp
  \/ \E r \in Subscribers : Subscribe(r)
  \/ \E r \in Routines : Process(r) \/ Verify(r)

Next == Create \/ Revote \/ RunVoter \/ Chain

Spec == Init /\ [][Next]_vars

\* Every routine goes on until it is done.
Fairness ==
  /\ WF_vars(List \/ CaughtUp)
  /\ \A r \in Subscribers : WF_vars(Subscribe(r))
  /\ \A r \in Routines : WF_vars(Process(r) \/ Verify(r))

FairSpec == Spec /\ Fairness

-----------------------------------------------------------------------------
IsOp(op) == \E t \in Trees :
  op \in [tree : {t}, new : ValueOf(t), block : Nat, old : ValueOf(t)]

\* Type invariant.
TypeOK ==
  /\ ChainTypeOK
  /\ \A op \in created : IsOp(op)
  /\ owed \subseteq created
  /\ votes \subseteq [op : created, yes : BOOLEAN, since : 0 .. final]
  /\ phase \in {"start", "catchup", "done"}
  /\ live \subseteq Subscribers /\ (live # {} => phase = "done")
  /\ \A r \in Routines :
       /\ todo[r] \subseteq created
       /\ task[r] = None \/ task[r].op \in created

\* A YES is cast only on a transition the contract has made, provided that the
\* block the operation names was final when its verification began: although
\* the two entries are read by two calls, which a reorganisation may separate.
\* Of a block that was not yet final nothing is promised.
YesIsTrue ==
  \A v \in votes : v.yes /\ v.op.block =< v.since => Genuine(v.op)

\* A NO is never cast on a transition that was final when its verification
\* began, whichever calls failed.
NoIsTrue ==
  \A v \in votes : ~v.yes /\ v.op.block =< v.since => ~Genuine(v.op)

\* Every operation that the catch-up lists, or that a subscriber is told of, is
\* voted YES on when it is final by then, unless a call of its verification
\* failed.  An operation created between the listing and the subscription is
\* not owed a vote: only Revote helps it.
OwedIsVoted ==
  []<>(\A op \in owed : \E v \in votes : v.op = op /\ v.yes)
=============================================================================
