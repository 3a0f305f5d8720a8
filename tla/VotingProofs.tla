------------------------------ MODULE VotingProofs ------------------------------
(***************************************************************************)
(* What the votes of an oracle are worth, for every value of the           *)
(* constants: however the chain is reorganised between the two reads of a  *)
(* verification, and whichever calls fail.                                 *)
(***************************************************************************)
EXTENDS Oracle, StateContractProofs

Ops == UNION {[tree : {t}, new : ValueOf(t), block : Nat, old : ValueOf(t)] : t \in Trees}
Entries == UNION {EntryOf(t) : t \in Trees}
Verifications == [op : created, since : 0 .. final,
                  latest : {None} \union Entries, msg : {None} \union Ops]

\* The entry verification v has read is the one histories h have for its
\* operation, as far as blocks go that were final when it was read.
LatestOK(h, v) == LET t == v.op.tree IN
  /\ v.latest.val = v.op.new
  /\ v.latest.block =< v.since => \E j \in 1 .. Len(h[t]) : h[t][j] = v.latest
  /\ \A j \in 1 .. Len(h[t]) :
       h[t][j].val = v.op.new /\ h[t][j].block =< v.since => h[t][j] = v.latest

\* The message made of it says what they say, as far as those blocks go.
MsgOK(h, v) == LET t == v.op.tree IN
  /\ v.msg.block =< v.since => GenuineIn(h, v.msg)
  /\ \A j \in 2 .. Len(h[t]) :
       h[t][j].val = v.op.new /\ h[t][j].block =< v.since => v.msg = OpIn(h, t, j)

TaskOK(h, v) ==
  /\ v.latest # None => LatestOK(h, v)
  /\ v.msg # None => v.latest # None /\ MsgOK(h, v)

\* A vote on what was final when its verification began is right.
VoteOK(h, v) ==
  /\ v.yes /\ v.op.block =< v.since => GenuineIn(h, v.op)
  /\ ~v.yes /\ v.op.block =< v.since => ~GenuineIn(h, v.op)

VInv ==
  /\ ChainInv /\ Distinct(hist)
  /\ TypeOK
  /\ created \subseteq Ops
  /\ todo \in [Routines -> SUBSET created]
  /\ task \in [Routines -> {None} \union Verifications]
  /\ \A r \in Routines : task[r] # None => TaskOK(hist, task[r])
  /\ \A v \in votes : VoteOK(hist, v)

-----------------------------------------------------------------------------
\* The operations are those that core can hold.
LEMMA OpsAre == \A op : IsOp(op) <=> op \in Ops
BY DEF IsOp, Ops

\* What stands in a history makes an operation and an entry.
LEMMA EntriesTyped ==
  ASSUME ChainInv, NEW t \in Trees, NEW k \in 1 .. Len(hist[t])
  PROVE  /\ hist[t][k] \in EntryOf(t) /\ hist[t][k] \in Entries
         /\ hist[t][k].val \in ValueOf(t) /\ hist[t][k].block \in Nat
<1>1. hist[t][k] \in EntryOf(t)
  BY ElementOfSeq DEF ChainInv, HistOK
<1> QED BY <1>1 DEF Entries, EntryOf

\* What is right of the contract before a step of the chain is so after it.
LEMMA RightForever ==
  ASSUME ChainInv, ContractNext, NEW v, v.since \in Nat, v.since =< final
  PROVE  /\ VoteOK(hist, v) => VoteOK(hist', v)
         /\ LatestOK(hist, v) /\ v.op.tree \in Trees => LatestOK(hist', v)
         /\ MsgOK(hist, v) /\ v.op.tree \in Trees => MsgOK(hist', v)
<1>0. /\ final \in Nat /\ HistOK(hist, head) /\ HistOK(hist', head')
      /\ Keeps(hist, hist', v.since) /\ Keeps(hist', hist, v.since)
  <2>1. /\ final \in Nat /\ HistOK(hist, head) /\ HistOK(hist', head')
        /\ Keeps(hist, hist', final) /\ Keeps(hist', hist, final)
    BY ChainStepOK DEF ChainInv, Agree
  <2>2. ASSUME NEW g, NEW b, HistOK(g, b), NEW t \in Trees, NEW k \in 1 .. Len(g[t]),
               g[t][k].block =< v.since
        PROVE  g[t][k].block =< final
    <3>1. g[t][k] \in EntryOf(t)
      BY <2>2, ElementOfSeq DEF HistOK
    <3> QED BY <2>1, <2>2, <3>1 DEF EntryOf
  <2> QED BY <2>1, <2>2 DEF Keeps
<1>1. ASSUME NEW op, op.block =< v.since
      PROVE  GenuineIn(hist, op) <=> GenuineIn(hist', op)
  BY <1>0, <1>1, GenuineKept
<1>2. VoteOK(hist, v) => VoteOK(hist', v)
  BY <1>1 DEF VoteOK
<1>3. ASSUME LatestOK(hist, v), v.op.tree \in Trees PROVE LatestOK(hist', v)
  <2> DEFINE t == v.op.tree
  <2>1. Len(hist[t]) \in Nat /\ Len(hist'[t]) \in Nat
    BY <1>0, <1>3, LenProperties DEF HistOK
  <2>2. v.latest.block =< v.since => \E j \in 1 .. Len(hist'[t]) : hist'[t][j] = v.latest
    BY <1>0, <1>3, <2>1 DEF LatestOK, Keeps
  <2>3. \A j \in 1 .. Len(hist'[t]) : hist'[t][j].block =< v.since =>
          j \in 1 .. Len(hist[t]) /\ hist[t][j] = hist'[t][j]
    BY <1>0, <1>3, <2>1 DEF Keeps
  <2> QED BY <1>3, <2>2, <2>3 DEF LatestOK
<1>4. ASSUME MsgOK(hist, v), v.op.tree \in Trees PROVE MsgOK(hist', v)
  <2> DEFINE t == v.op.tree
  <2>1. v.msg.block =< v.since => GenuineIn(hist', v.msg)
    BY <1>1, <1>4 DEF MsgOK
  <2>2. ASSUME NEW j \in 2 .. Len(hist'[t]),
               hist'[t][j].val = v.op.new, hist'[t][j].block =< v.since
        PROVE  v.msg = OpIn(hist', t, j)
    <3>1. /\ j \in 2 .. Len(hist[t]) /\ OpIn(hist, t, j) = OpIn(hist', t, j)
          /\ hist[t][j] = hist'[t][j]
      BY <1>0, <1>4, <2>2, PositionKept
    <3> QED BY <1>4, <2>2, <3>1 DEF MsgOK
  <2> QED BY <2>1, <2>2 DEF MsgOK
<1> QED BY <1>2, <1>3, <1>4

-----------------------------------------------------------------------------
\* The voter starts with nothing to verify and no vote cast.
LEMMA VInit == Init => VInv
<1> SUFFICES ASSUME Init PROVE VInv
  OBVIOUS
<1>1. ChainInv /\ Distinct(hist)
  BY ChainInitOK, DistinctInit DEF Init
<1>2. ChainTypeOK
  BY <1>1 DEF ChainInv, HistOK, ChainTypeOK
<1>3. /\ created = {} /\ votes = {} /\ phase = "start" /\ live = {} /\ owed = {}
      /\ \A r \in Routines : todo[r] = {} /\ task[r] = None
      /\ todo \in [Routines -> SUBSET {}] /\ task \in [Routines -> {None}]
  BY DEF Init
<1>4. TypeOK
  BY <1>2, <1>3 DEF TypeOK
<1>5. todo \in [Routines -> SUBSET created]
  BY <1>3
<1>6. task \in [Routines -> {None} \union Verifications]
  BY <1>3
<1> QED BY <1>1, <1>3, <1>4, <1>5, <1>6 DEF VInv

\* An operation created in core concerns no verification that is under way.
LEMMA VAnnounced ==
  ASSUME VInv, NEW op, op \in Ops, Announced(op)
  PROVE  VInv'
<1>1. /\ UNCHANGED <<chainVars, head, final, hist, votes, phase, live, task>>
      /\ created' = created \union {op}
  BY DEF Announced, chainVars
<1>2. todo' \in [Routines -> SUBSET created']
  <2>1. CASE SubscriberOf(op) \in live
    BY <1>1, <2>1 DEF Announced, VInv
  <2>2. CASE SubscriberOf(op) \notin live
    BY <1>1, <2>2 DEF Announced, VInv
  <2> QED BY <2>1, <2>2
<1>3. task' \in [Routines -> {None} \union Verifications']
  BY <1>1 DEF VInv, Verifications
<1>4. owed' \subseteq created'
  BY <1>1 DEF Announced, VInv, TypeOK, Due
<1>5. TypeOK'
  <2>1. \A o \in created' : IsOp(o)
    BY <1>1, OpsAre DEF VInv
  <2>2. \A r \in Routines : todo'[r] \subseteq created'
    BY <1>2
  <2>3. \A r \in Routines : task'[r] = None \/ task'[r].op \in created'
    BY <1>1 DEF VInv, TypeOK
  <2>4. votes' \subseteq [op : created', yes : BOOLEAN, since : 0 .. final']
    BY <1>1 DEF VInv, TypeOK
  <2>5. ChainTypeOK'
    BY <1>1 DEF VInv, TypeOK, ChainTypeOK
  <2> QED BY <1>1, <1>4, <2>1, <2>2, <2>3, <2>4, <2>5 DEF VInv, TypeOK
<1>6. ChainInv' /\ Distinct(hist')
  BY <1>1 DEF VInv, ChainInv, HistOK
<1> QED BY <1>1, <1>2, <1>3, <1>5, <1>6 DEF VInv

\* A step of the voter that starts no verification and ends none.
LEMMA VKept ==
  ASSUME VInv, UNCHANGED <<chainVars, created, votes, task>>,
         todo' \in [Routines -> SUBSET created],
         owed' \subseteq created, phase' \in {"start", "catchup", "done"},
         live' \subseteq Subscribers, live' # {} => phase' = "done"
  PROVE  VInv'
<1>1. UNCHANGED <<head, final, hist>>
  BY DEF chainVars
<1>2. TypeOK'
  BY <1>1 DEF VInv, TypeOK, ChainTypeOK
<1>3. ChainInv' /\ Distinct(hist')
  BY <1>1 DEF VInv, ChainInv, HistOK
<1>4. task' \in [Routines -> {None} \union Verifications']
  BY <1>1 DEF VInv, Verifications
<1> QED BY <1>1, <1>2, <1>3, <1>4 DEF VInv

\* A step of one verification: it starts, goes on or ends, perhaps with a vote.
LEMMA VStep ==
  ASSUME VInv, NEW r \in Routines, NEW v, task' = [task EXCEPT ![r] = v],
         UNCHANGED <<chainVars, created, phase, live>>,
         v = None \/ (v \in Verifications /\ TaskOK(hist, v)),
         todo' \in [Routines -> SUBSET created], owed' \subseteq created,
         NEW w,
         \/ votes' = votes
         \/ /\ w \in [op : created, yes : BOOLEAN, since : 0 .. final]
            /\ votes' = votes \union {w} /\ VoteOK(hist, w)
  PROVE  VInv'
<1>1. UNCHANGED <<head, final, hist>>
  BY DEF chainVars
<1>2. ChainInv' /\ Distinct(hist')
  BY <1>1 DEF VInv, ChainInv, HistOK
<1>3. task' \in [Routines -> {None} \union Verifications']
  BY <1>1 DEF VInv, Verifications
<1>4. \A q \in Routines : task'[q] # None => TaskOK(hist', task'[q])
  BY <1>1 DEF VInv
<1>5. \A u \in votes' : VoteOK(hist', u)
  BY <1>1 DEF VInv
<1>6. TypeOK'
  <2>1. \A q \in Routines : task'[q] = None \/ task'[q].op \in created'
    BY <1>3 DEF Verifications
  <2>2. votes' \subseteq [op : created', yes : BOOLEAN, since : 0 .. final']
    BY <1>1 DEF VInv, TypeOK
  <2> QED BY <1>1, <2>1, <2>2 DEF VInv, TypeOK, ChainTypeOK
<1> QED BY <1>1, <1>2, <1>3, <1>4, <1>5, <1>6 DEF VInv

\* Two fields of a verification are set.
LEMMA RecordUpdate ==
  ASSUME NEW A, NEW B, NEW C, NEW D, NEW x \in [op : A, since : B, latest : C, msg : D],
         NEW e \in C, NEW f \in B, NEW y, y = [x EXCEPT !.latest = e, !.since = f]
  PROVE  /\ y \in [op : A, since : B, latest : C, msg : D]
         /\ y.op = x.op /\ y.latest = e /\ y.since = f /\ y.msg = x.msg
OBVIOUS

\* A verification that reads its first entry.
LEMMA VReadLatest ==
  ASSUME VInv, NEW r \in Routines, ReadLatest(r),
         UNCHANGED <<chainVars, created, phase, live, todo>>
  PROVE  VInv'
<1>0. /\ task[r] \in Verifications /\ TaskOK(hist, task[r]) /\ task[r].msg = None
      /\ task[r].op \in Ops /\ task[r].latest = None
      /\ todo' \in [Routines -> SUBSET created] /\ owed \subseteq created
      /\ final \in Nat
  BY DEF ReadLatest, VInv, TaskOK, TypeOK, Verifications, ChainInv
<1>1. owed' \subseteq created
  BY <1>0 DEF ReadLatest, CallFails, NoFault
<1>2. CASE Fail(r)
  BY <1>0, <1>1, <1>2, VStep DEF Fail, EndOf
<1> DEFINE t == task[r].op.tree
<1>3. CASE \E k \in With(t, task[r].op.new) :
             /\ task' = [task EXCEPT ![r].latest = hist[t][k], ![r].since = final]
             /\ UNCHANGED votes
  <2>1. PICK k \in With(t, task[r].op.new) :
          task' = [task EXCEPT ![r].latest = hist[t][k], ![r].since = final]
    BY <1>3
  <2> DEFINE v == [task[r] EXCEPT !.latest = hist[t][k], !.since = final]
  <2>2. task' = [task EXCEPT ![r] = v]
    BY <2>1 DEF VInv
  <2>3. k \in 1 .. Len(hist[t]) /\ hist[t][k].val = task[r].op.new
    BY DEF With
  <2>4. t \in Trees /\ hist[t][k] \in Entries
    <3>1. t \in Trees
      BY <1>0 DEF Ops
    <3> QED BY <2>3, <3>1, EntriesTyped DEF VInv
  <2>5. v \in Verifications /\ v.op = task[r].op /\ v.latest = hist[t][k] /\ v.since = final
        /\ v.msg = None
    <3>1. /\ task[r] \in [op : created, since : 0 .. final,
                           latest : {None} \union Entries, msg : {None} \union Ops]
          /\ hist[t][k] \in {None} \union Entries /\ final \in 0 .. final
      BY <1>0, <2>4 DEF Verifications
    <3>2. v = [task[r] EXCEPT !.latest = hist[t][k], !.since = final]
      OBVIOUS
    <3> HIDE DEF v
    <3> QED BY <1>0, <3>1, <3>2, RecordUpdate DEF Verifications
  <2> HIDE DEF v
  <2>6. \A j \in 1 .. Len(hist[t]) : hist[t][j].val = task[r].op.new => hist[t][j] = hist[t][k]
    BY <2>3, <2>4 DEF VInv, Distinct
  <2>7. LatestOK(hist, v)
    BY <2>3, <2>5, <2>6 DEF LatestOK
  <2>8. TaskOK(hist, v)
    BY <2>5, <2>7 DEF TaskOK
  <2> QED BY <1>0, <1>1, <1>3, <2>2, <2>5, <2>8, VStep
<1> QED BY <1>2, <1>3 DEF ReadLatest

\* A verification that reads its second entry and makes the message: if its
\* first entry was final, the two are neighbours, whatever happened between.
LEMMA VReadReplaced ==
  ASSUME VInv, NEW r \in Routines, ReadReplaced(r),
         UNCHANGED <<chainVars, created, phase, live, todo>>
  PROVE  VInv'
<1>0. /\ task[r] \in Verifications /\ TaskOK(hist, task[r])
      /\ LatestOK(hist, task[r]) /\ task[r].latest # None
      /\ task[r].op \in Ops /\ task[r].latest \in Entries
      /\ todo' \in [Routines -> SUBSET created] /\ owed \subseteq created
  BY DEF ReadReplaced, VInv, TaskOK, TypeOK, Verifications
<1>1. owed' \subseteq created
  BY <1>0 DEF ReadReplaced, CallFails, NoFault
<1>2. CASE Fail(r)
  BY <1>0, <1>1, <1>2, VStep DEF Fail, EndOf
<1> DEFINE op == task[r].op
           t == op.tree
           e == task[r].latest
           M(k) == [tree |-> t, new |-> e.val, block |-> e.block, old |-> hist[t][k].val]
<1>3. CASE \E k \in With(t, op.old) :
             /\ Replaces(t, k, e.val)
             /\ task' = [task EXCEPT ![r].msg = M(k)]
             /\ UNCHANGED votes
  <2>1. PICK k \in With(t, op.old) :
          Replaces(t, k, e.val) /\ task' = [task EXCEPT ![r].msg = M(k)]
    BY <1>3
  <2> DEFINE v == [task[r] EXCEPT !.msg = M(k)]
  <2>2. task' = [task EXCEPT ![r] = v]
    BY <2>1 DEF VInv
  <2>3. t \in Trees /\ Len(hist[t]) \in Nat
    <3>1. t \in Trees
      BY <1>0 DEF Ops
    <3> QED BY <3>1, LenProperties DEF VInv, ChainInv, HistOK
  <2>4. /\ k \in 1 .. Len(hist[t]) /\ k + 1 \in 2 .. Len(hist[t]) /\ k + 1 \in 1 .. Len(hist[t])
        /\ k + 1 - 1 = k /\ hist[t][k + 1].val = e.val
    BY <2>1, <2>3 DEF With, Replaces
  <2>5. /\ hist[t][k].val \in ValueOf(t) /\ hist[t][k + 1].val \in ValueOf(t)
        /\ e.block \in Nat
    BY <1>0, <2>3, <2>4, EntriesTyped DEF VInv, Entries, EntryOf
  <2>6. M(k) \in Ops
    <3>1. M(k) \in [tree : {t}, new : ValueOf(t), block : Nat, old : ValueOf(t)]
      BY <2>4, <2>5
    <3> QED BY <2>3, <3>1 DEF Ops
  <2>7. v \in Verifications /\ v.op = op /\ v.latest = e /\ v.since = task[r].since
        /\ v.msg = M(k)
    BY <1>0, <2>6 DEF Verifications
  <2>8. ASSUME NEW j \in 1 .. Len(hist[t]), hist[t][j] = e
        PROVE  j = k + 1 /\ M(k) = OpIn(hist, t, j)
    <3>1. j = k + 1
      BY <2>3, <2>4, <2>8 DEF VInv, Distinct
    <3> QED BY <2>4, <2>8, <3>1 DEF OpIn
  <2> HIDE DEF v
  <2>9. MsgOK(hist, v)
    <3>1. ASSUME M(k).block =< task[r].since PROVE GenuineIn(hist, M(k))
      <4>1. PICK j \in 1 .. Len(hist[t]) : hist[t][j] = e
        BY <1>0, <3>1 DEF LatestOK
      <4>2. M(k) = OpIn(hist, t, k + 1) /\ M(k).tree = t
        BY <2>8, <4>1
      <4> QED BY <2>3, <2>4, <4>2 DEF GenuineIn
    <3>2. ASSUME NEW j \in 2 .. Len(hist[t]),
                 hist[t][j].val = op.new, hist[t][j].block =< task[r].since
          PROVE  M(k) = OpIn(hist, t, j)
      <4>1. j \in 1 .. Len(hist[t])
        BY <2>3
      <4>2. hist[t][j] = e
        BY <1>0, <3>2, <4>1 DEF LatestOK
      <4> QED BY <2>8, <4>1, <4>2
    <3> HIDE DEF M
    <3> QED BY <2>7, <3>1, <3>2 DEF MsgOK
  <2>10. LatestOK(hist, v)
    BY <1>0, <2>7 DEF LatestOK
  <2>11. TaskOK(hist, v)
    BY <1>0, <2>7, <2>9, <2>10 DEF TaskOK
  <2> QED BY <1>0, <1>1, <1>3, <2>2, <2>7, <2>11, VStep
<1> QED BY <1>2, <1>3 DEF ReadReplaced

\* A verification that comes to its vote.
LEMMA VVote ==
  ASSUME VInv, NEW r \in Routines, Vote(r),
         UNCHANGED <<chainVars, created, phase, live, todo>>
  PROVE  VInv'
<1> DEFINE v == task[r]
           yes == v.msg = v.op
           w == [op |-> v.op, yes |-> yes, since |-> v.since]
<1>0. /\ v \in Verifications /\ MsgOK(hist, v)
      /\ v.op \in Ops /\ v.op \in created /\ v.since \in 0 .. final
      /\ todo' \in [Routines -> SUBSET created] /\ owed \subseteq created
  BY DEF Vote, VInv, TaskOK, TypeOK, Verifications
<1>1. owed' \subseteq created
  BY <1>0 DEF Vote, CallFails, NoFault
<1>2. EndOf(r) /\ (votes' = votes \/ votes' = votes \union {w})
  BY DEF Vote, Fail
<1>3. w \in [op : created, yes : BOOLEAN, since : 0 .. final]
  BY <1>0
<1>4. w.op = v.op /\ w.since = v.since /\ (w.yes <=> yes)
  OBVIOUS
<1>5. ASSUME yes, v.op.block =< v.since PROVE GenuineIn(hist, v.op)
  BY <1>0, <1>5 DEF MsgOK
<1>6. ASSUME GenuineIn(hist, v.op), v.op.block =< v.since PROVE yes
  <2>1. PICK j \in 2 .. Len(hist[v.op.tree]) : v.op = OpIn(hist, v.op.tree, j)
    BY <1>6 DEF GenuineIn
  <2>2. hist[v.op.tree][j].val = v.op.new /\ hist[v.op.tree][j].block = v.op.block
    BY <2>1 DEF OpIn
  <2>3. v.msg = OpIn(hist, v.op.tree, j)
    BY <1>0, <1>6, <2>2 DEF MsgOK
  <2> QED BY <2>1, <2>3
<1> HIDE DEF w, yes
<1>7. VoteOK(hist, w)
  BY <1>4, <1>5, <1>6 DEF VoteOK
<1>8. task' = [task EXCEPT ![r] = None]
  BY <1>2 DEF EndOf
<1> QED BY <1>0, <1>1, <1>2, <1>3, <1>7, <1>8, VStep

\* The verification of an operation begins.
LEMMA VBegin ==
  ASSUME VInv, NEW r \in Routines, NEW op \in created,
         task' = [task EXCEPT ![r] = Verification(op)],
         UNCHANGED <<chainVars, created, votes, phase, live, owed>>,
         todo' \in [Routines -> SUBSET created]
  PROVE  VInv'
<1> DEFINE v == Verification(op)
<1>1. /\ v.op = op /\ v.since = 0 /\ v.latest = None /\ v.msg = None
      /\ v = [op |-> v.op, since |-> v.since, latest |-> v.latest, msg |-> v.msg]
  BY DEF Verification
<1>2. 0 \in 0 .. final
  BY DEF VInv, ChainInv
<1> HIDE DEF v
<1>3. v \in Verifications
  BY <1>1, <1>2 DEF Verifications
<1>4. TaskOK(hist, v)
  BY <1>1 DEF TaskOK
<1>5. owed' \subseteq created
  BY DEF VInv, TypeOK
<1>6. task' = [task EXCEPT ![r] = v]
  BY DEF v
<1> QED BY <1>3, <1>4, <1>5, <1>6, VStep

\* A step of the chain leaves the voter alone, and what it knows of final
\* blocks right.
LEMMA VChain == ASSUME VInv, Chain PROVE VInv'
<1>0. /\ ContractNext /\ UNCHANGED <<created, votes, phase, live, todo, task, owed>>
      /\ final \in Nat
  BY DEF Chain, voterVars, VInv, ChainInv
<1>1. ChainInv' /\ final =< final' /\ Distinct(hist')
  BY <1>0, ChainStepOK, ValuesStayUnique DEF VInv
<1>2. ChainTypeOK'
  BY <1>1 DEF ChainInv, HistOK, ChainTypeOK
<1>3. \A n \in 0 .. final : n \in 0 .. final' /\ n \in Nat /\ n =< final
  BY <1>0, <1>1 DEF ChainInv
<1>4. votes' \subseteq [op : created', yes : BOOLEAN, since : 0 .. final']
  BY <1>0, <1>3 DEF VInv, TypeOK
<1>5. TypeOK'
  BY <1>0, <1>2, <1>4 DEF VInv, TypeOK
<1>6. task' \in [Routines -> {None} \union Verifications']
  <2>1. Verifications \subseteq Verifications'
    BY <1>0, <1>3 DEF Verifications
  <2> QED BY <1>0, <2>1 DEF VInv
<1>7. ASSUME NEW r \in Routines, task[r] # None PROVE TaskOK(hist', task[r])
  <2>1. task[r] \in Verifications /\ TaskOK(hist, task[r])
    BY <1>7 DEF VInv
  <2>2. task[r].since \in Nat /\ task[r].since =< final /\ task[r].op \in Ops
    BY <1>3, <2>1 DEF VInv, Verifications
  <2>3. task[r].op.tree \in Trees
    BY <2>2 DEF Ops
  <2> QED BY <1>0, <2>1, <2>2, <2>3, RightForever DEF TaskOK, VInv
<1>8. ASSUME NEW v \in votes PROVE VoteOK(hist', v)
  <2>1. VoteOK(hist, v) /\ v.since \in 0 .. final
    BY DEF VInv, TypeOK
  <2>2. v.since \in Nat /\ v.since =< final
    BY <1>3, <2>1
  <2> QED BY <1>0, <2>1, <2>2, RightForever DEF VInv
<1> QED BY <1>0, <1>1, <1>5, <1>6, <1>7, <1>8 DEF VInv

\* So does every step but that of a saver.
LEMMA VShared ==
  ASSUME VInv, Revote \/ RunVoter \/ Chain \/ UNCHANGED vars
  PROVE  VInv'
<1>0. /\ todo \in [Routines -> SUBSET created] /\ owed \subseteq created
      /\ phase \in {"start", "catchup", "done"}
      /\ live \subseteq Subscribers /\ (live # {} => phase = "done")
      /\ "revote" \in Routines /\ "catchup" \in Routines
  BY DEF VInv, TypeOK, Routines
<1>1. CASE Revote
  BY <1>0, <1>1, VBegin DEF Revote
<1>2. CASE List
  <2>1. owed' \subseteq created
    BY <1>0, <1>2 DEF List, Due
  <2>2. /\ UNCHANGED <<chainVars, created, votes, task, live>>
        /\ todo' \in [Routines -> SUBSET created] /\ phase' \in {"start", "catchup", "done"}
    BY <1>0, <1>2 DEF List
  <2>3. live = {}
    BY <1>0, <1>2 DEF List
  <2> QED BY <1>0, <2>1, <2>2, <2>3, VKept
<1>3. CASE CaughtUp
  BY <1>0, <1>3, VKept DEF CaughtUp
<1>4. ASSUME NEW r \in Subscribers, Subscribe(r) PROVE VInv'
  BY <1>0, <1>4, VKept DEF Subscribe
<1>5. ASSUME NEW r \in Routines, Process(r) PROVE VInv'
  <2>1. PICK op \in todo[r] :
          /\ todo' = [todo EXCEPT ![r] = @ \ {op}]
          /\ task' = [task EXCEPT ![r] = Verification(op)]
    BY <1>5 DEF Process
  <2>2. op \in created /\ todo' \in [Routines -> SUBSET created]
    BY <1>0, <2>1
  <2> QED BY <1>5, <2>1, <2>2, VBegin DEF Process
<1>6. ASSUME NEW r \in Routines, Verify(r) PROVE VInv'
  BY <1>6, VReadLatest, VReadReplaced, VVote DEF Verify
<1>7. CASE Chain
  BY <1>7, VChain
<1>8. CASE UNCHANGED vars
  BY <1>0, <1>8, VKept DEF vars, voterVars
<1> QED BY <1>1, <1>2, <1>3, <1>4, <1>5, <1>6, <1>7, <1>8 DEF RunVoter

\* Every step of the voter, of savers as bad as they may be, and of the chain.
LEMMA VNext == ASSUME VInv, [Next]_vars PROVE VInv'
<1>1. CASE Create
  <2>1. PICK t \in Trees : \E k \in GenesisLen + 1 .. Len(hist[t]) : \E op \in Claims(t, k) :
          Announced(op)
    BY <1>1 DEF Create
  <2>2. PICK k \in GenesisLen + 1 .. Len(hist[t]) : \E op \in Claims(t, k) : Announced(op)
    BY <2>1
  <2>3. PICK op \in Claims(t, k) : Announced(op)
    BY <2>2
  <2>4. k \in 1 .. Len(hist[t]) /\ k - 1 \in 1 .. Len(hist[t])
    BY ContractAssumption, LenProperties DEF VInv, ChainInv, HistOK
  <2>5. OpAt(t, k) \in [tree : {t}, new : ValueOf(t), block : Nat, old : ValueOf(t)]
    BY <2>4, EntriesTyped DEF VInv, OpAt
  <2>6. \A b \in InitHead .. head : b \in Nat
    BY ContractAssumption DEF VInv, ChainInv
  <2>7. \A j \in 1 .. Len(hist[t]) : hist[t][j].val \in ValueOf(t)
    BY EntriesTyped DEF VInv
  <2>8. op \in [tree : {t}, new : ValueOf(t), block : Nat, old : ValueOf(t)]
    BY <2>3, <2>5, <2>6, <2>7 DEF Claims
  <2> QED BY <2>3, <2>8, VAnnounced DEF Ops
<1> QED BY <1>1, VShared DEF Next

-----------------------------------------------------------------------------
\* The voter keeps its types.
THEOREM VoterTyped == Spec => []TypeOK
<1>1. VInv => TypeOK
  BY DEF VInv
<1> QED BY <1>1, VInit, VNext, PTL DEF Spec

\* A YES on what was final when its verification began is right for ever.
THEOREM YesStaysTrue == Spec => []YesIsTrue
<1>1. VInv => YesIsTrue
  BY DEF VInv, YesIsTrue, VoteOK, Genuine, GenuineIn, OpAt, OpIn
<1> QED BY <1>1, VInit, VNext, PTL DEF Spec

\* And so is a NO.
THEOREM NoStaysTrue == Spec => []NoIsTrue
<1>1. VInv => NoIsTrue
  BY DEF VInv, NoIsTrue, VoteOK, Genuine, GenuineIn, OpAt, OpIn
<1> QED BY <1>1, VInit, VNext, PTL DEF Spec

-----------------------------------------------------------------------------
\* Core holds what savers promise, so that all of it is final when the voter
\* reads it.
OInv ==
  /\ \A op \in created : GenuineIn(hist, op) /\ op.block =< final
  /\ \A r \in Routines :
       task[r] # None /\ task[r].latest # None => task[r].op.block =< task[r].since
  /\ SaversAreConfirmed

\* A saver reports.
LEMMA OSave == ASSUME VInv, OInv, Save PROVE VInv' /\ OInv'
<1>1. PICK op \in Savers!FinalOps : Announced(op)
  BY DEF Save
<1>2. op.block =< final
  BY DEF Savers!FinalOps
<1>3. PICK t \in Trees : \E k \in 2 .. Len(hist[t]) : op = OpIn(hist, t, k)
  BY DEF Savers!FinalOps, Savers!OpAt, Savers!Trees, Trees, OpIn
<1>4. PICK k \in 2 .. Len(hist[t]) : op = OpIn(hist, t, k)
  BY <1>3
<1>5. GenuineIn(hist, op)
  <2>1. op.tree = t
    BY <1>4 DEF OpIn
  <2> QED BY <1>4, <2>1 DEF GenuineIn
<1>6. k \in 1 .. Len(hist[t]) /\ k - 1 \in 1 .. Len(hist[t])
  BY LenProperties DEF VInv, ChainInv, HistOK
<1>7. op \in Ops
  <2>1. op \in [tree : {t}, new : ValueOf(t), block : Nat, old : ValueOf(t)]
    BY <1>4, <1>6, EntriesTyped DEF VInv, OpIn
  <2> QED BY <2>1 DEF Ops
<1>8. VInv'
  BY <1>1, <1>7, VAnnounced
<1>9. created' = created \union {op} /\ UNCHANGED <<final, hist, task, votes>>
  BY <1>1 DEF Announced, chainVars
<1>10. OInv'
  BY <1>2, <1>5, <1>9 DEF OInv, SaversAreConfirmed
<1> QED BY <1>8, <1>10

\* A verification comes to its vote: it is a YES.
LEMMA OVote ==
  ASSUME VInv, OInv, NEW r \in Routines, Vote(r), UNCHANGED <<chainVars, created>>
  PROVE  OInv'
<1> DEFINE v == task[r]
           w == [op |-> v.op, yes |-> v.msg = v.op, since |-> v.since]
<1>1. v \in Verifications /\ MsgOK(hist, v) /\ v.op \in created /\ v.op.block =< v.since
  BY DEF Vote, VInv, TaskOK, Verifications, OInv
<1>2. PICK j \in 2 .. Len(hist[v.op.tree]) : v.op = OpIn(hist, v.op.tree, j)
  BY <1>1 DEF OInv, GenuineIn
<1>3. hist[v.op.tree][j].val = v.op.new /\ hist[v.op.tree][j].block =< v.since
  BY <1>1, <1>2 DEF OpIn
<1>4. v.msg = v.op
  BY <1>1, <1>2, <1>3 DEF MsgOK
<1>5. w.yes
  BY <1>4
<1>6. EndOf(r) /\ (votes' = votes \/ votes' = votes \union {w})
  BY DEF Vote, Fail
<1> HIDE DEF w
<1>7. SaversAreConfirmed'
  BY <1>5, <1>6 DEF OInv, SaversAreConfirmed
<1>8. \A q \in Routines : task'[q] = task[q] \/ task'[q] = None
  BY <1>6 DEF EndOf, VInv
<1> QED BY <1>7, <1>8 DEF OInv, chainVars

\* Every other step leaves the votes alone; what is read is read of a final
\* block.
LEMMA OShared ==
  ASSUME VInv, OInv, Revote \/ RunVoter \/ Chain \/ UNCHANGED vars
  PROVE  OInv'
<1>0. \A r \in Routines : task[r] = None \/ task[r] \in Verifications
  BY DEF VInv
<1>1. ASSUME UNCHANGED <<chainVars, created, votes>>,
             \A r \in Routines :
               \/ task'[r] = task[r] \/ task'[r] = None \/ task'[r].latest = None
               \/ task'[r].op.block =< task'[r].since
      PROVE  OInv'
  BY <1>1 DEF OInv, SaversAreConfirmed, chainVars
<1>2. ASSUME NEW r \in Routines, NEW op,
             task' = [task EXCEPT ![r] = Verification(op)],
             UNCHANGED <<chainVars, created, votes>>
      PROVE  OInv'
  <2>1. Verification(op).latest = None
    BY DEF Verification
  <2> QED BY <1>1, <1>2, <2>1 DEF VInv
<1>3. CASE Revote
  BY <1>2, <1>3 DEF Revote, Routines
<1>4. ASSUME NEW r \in Routines, Process(r) PROVE OInv'
  BY <1>2, <1>4 DEF Process
<1>5. CASE List \/ CaughtUp \/ (\E r \in Subscribers : Subscribe(r)) \/ UNCHANGED vars
  BY <1>1, <1>5 DEF List, CaughtUp, Subscribe, vars, voterVars
<1>6. ASSUME NEW r \in Routines, ReadLatest(r), UNCHANGED <<chainVars, created>>
      PROVE  OInv'
  <2>1. CASE Fail(r)
    BY <1>1, <1>6, <2>1 DEF Fail, EndOf, VInv
  <2>2. CASE \E k \in With(task[r].op.tree, task[r].op.new) :
               /\ task' = [task EXCEPT ![r].latest = hist[task[r].op.tree][k], ![r].since = final]
               /\ UNCHANGED votes
    <3>1. task[r] \in Verifications /\ task[r].op \in created
      BY <1>0, <1>6 DEF ReadLatest, Verifications
    <3>2. task[r].op.block =< final
      BY <3>1 DEF OInv
    <3>3. task'[r].op = task[r].op /\ task'[r].since = final
      BY <2>2, <3>1 DEF VInv, Verifications
    <3>4. \A q \in Routines \ {r} : task'[q] = task[q]
      BY <2>2 DEF VInv
    <3> QED BY <1>1, <1>6, <2>2, <3>2, <3>3, <3>4
  <2> QED BY <1>6, <2>1, <2>2 DEF ReadLatest
<1>7. ASSUME NEW r \in Routines, ReadReplaced(r), UNCHANGED <<chainVars, created>>
      PROVE  OInv'
  <2>1. CASE Fail(r)
    BY <1>1, <1>7, <2>1 DEF Fail, EndOf, VInv
  <2>2. ASSUME NEW m, task' = [task EXCEPT ![r].msg = m], UNCHANGED votes PROVE OInv'
    <3>1. task[r] \in Verifications /\ task[r].op.block =< task[r].since
      BY <1>0, <1>7 DEF ReadReplaced, OInv
    <3>2. task'[r].op = task[r].op /\ task'[r].since = task[r].since
      BY <2>2, <3>1 DEF VInv, Verifications
    <3>3. \A q \in Routines \ {r} : task'[q] = task[q]
      BY <2>2 DEF VInv
    <3> QED BY <1>1, <1>7, <2>2, <3>1, <3>2, <3>3
  <2> QED BY <1>7, <2>1, <2>2 DEF ReadReplaced
<1>8. CASE Chain
  <2>1. /\ ContractNext /\ UNCHANGED <<created, votes, task>>
        /\ HistOK(hist, head) /\ final \in Nat /\ created \subseteq Ops
    BY <1>8 DEF Chain, voterVars, VInv, ChainInv
  <2>2. /\ Keeps(hist, hist', final) /\ HistOK(hist', head')
        /\ final' \in Nat /\ final =< final'
    BY <2>1, ChainStepOK DEF VInv, ChainInv, Agree
  <2>3. ASSUME NEW op \in created PROVE GenuineIn(hist', op) /\ op.block =< final'
    <3>1. GenuineIn(hist, op) /\ op.block =< final /\ op.block \in Nat
      BY <2>1 DEF OInv, Ops
    <3>2. GenuineIn(hist', op)
      BY <2>1, <2>2, <3>1, GenuineKept
    <3> QED BY <2>1, <2>2, <3>1, <3>2
  <2> QED BY <2>1, <2>3 DEF OInv, SaversAreConfirmed
<1>9. ASSUME NEW r \in Routines, Verify(r) PROVE OInv'
  BY <1>6, <1>7, <1>9, OVote DEF Verify
<1> QED BY <1>3, <1>4, <1>5, <1>8, <1>9 DEF RunVoter

\* What savers report, the oracle never votes NO on.
THEOREM SaversStayConfirmed == OracleSpec => []SaversAreConfirmed
<1>1. Init => VInv /\ OInv
  <2>1. Init => OInv
    BY DEF Init, OInv, SaversAreConfirmed
  <2> QED BY <2>1, VInit
<1>2. VInv /\ OInv /\ [OracleNext]_vars => (VInv /\ OInv)'
  BY VShared, OShared, OSave DEF OracleNext
<1>3. OInv => SaversAreConfirmed
  BY DEF OInv
<1> QED BY <1>1, <1>2, <1>3, PTL DEF OracleSpec
=============================================================================
