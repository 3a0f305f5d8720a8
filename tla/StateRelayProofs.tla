--------------------------- MODULE StateRelayProofs ---------------------------
(* What the abstract relay promises, for every value of the constants. *)
EXTENDS StateRelay, StateContractProofs

RelayInv == ChainInv /\ OpsStayTrue

\* Every step of the relay keeps the chain in order and the story true.
LEMMA RelayStep ==
  ASSUME RelayInv, [Next]_relayVars
  PROVE  RelayInv'
<1>1. CASE Create
  <2>1. PICK op \in FinalOps : ops' = ops \union {op} /\ UNCHANGED chainVars
    BY <1>1 DEF Create
  <2>2. PICK t \in Trees : \E k \in 2 .. Len(hist[t]) : op = OpAt(t, k)
    BY <2>1 DEF FinalOps
  <2>3. op.tree = t /\ op.block =< final
    BY <2>1, <2>2 DEF FinalOps, OpAt
  <2>4. Genuine(op)
    BY <2>2, <2>3 DEF Genuine
  <2>5. \A o \in ops' : Genuine(o) /\ o.block =< final
    BY <2>1, <2>3, <2>4 DEF RelayInv, OpsStayTrue
  <2>6. OpsStayTrue'
    BY <2>1, <2>5 DEF OpsStayTrue, Genuine, OpAt, chainVars
  <2> QED BY <2>1, <2>6 DEF RelayInv, ChainInv, HistOK, chainVars
<1>2. CASE Chain
  <2>1. /\ ChainInv' /\ Keeps(hist, hist', final) /\ final =< final'
        /\ HistOK(hist', head')
    BY <1>2, ChainStepOK DEF Chain, RelayInv, ChainInv, Agree
  <2>2. ASSUME NEW op \in ops PROVE Genuine(op)' /\ op.block =< final'
    <3>1. Genuine(op) /\ op.block =< final
      BY DEF RelayInv, OpsStayTrue
    <3>2. Genuine(op)'
      BY <2>1, <3>1, GenuineForever DEF RelayInv
    <3>3. op.block \in Nat
      <4>1. PICK k \in 2 .. Len(hist[op.tree]) : op = OpAt(op.tree, k)
        BY <3>1 DEF Genuine
      <4>2. op.tree \in Trees /\ hist[op.tree] \in Seq(EntryOf(op.tree))
        BY <3>1 DEF Genuine, RelayInv, ChainInv, HistOK
      <4>3. k \in 1 .. Len(hist[op.tree])
        BY <4>2, LenProperties
      <4>4. hist[op.tree][k] \in EntryOf(op.tree)
        BY <4>2, <4>3, ElementOfSeq
      <4> QED BY <4>1, <4>4 DEF OpAt, EntryOf
    <3> QED BY <2>1, <3>1, <3>2, <3>3 DEF RelayInv, ChainInv
  <2> QED BY <1>2, <2>1, <2>2 DEF Chain, OpsStayTrue, RelayInv
<1>3. CASE UNCHANGED relayVars
  BY <1>3 DEF RelayInv, ChainInv, HistOK, OpsStayTrue, Genuine, OpAt, relayVars, chainVars
<1> QED BY <1>1, <1>2, <1>3 DEF Next

\* What core was told stays true of the contract for ever, whatever is
\* reorganised.  With RelayImplemented it holds of the saver.
THEOREM StoryStaysTrue == Spec => []OpsStayTrue
<1>1. Init => RelayInv
  BY ChainInitOK DEF Init, RelayInv, OpsStayTrue
<1>2. RelayInv => OpsStayTrue
  BY DEF RelayInv
<1> QED BY <1>1, <1>2, RelayStep, PTL DEF Spec
=============================================================================
