---------------------- MODULE StateChangeListenerProofs ----------------------
(***************************************************************************)
(* The saver's type invariant, its safety invariants and the refinement of *)
(* the abstract relay, for every value of the constants.                   *)
(***************************************************************************)
EXTENDS StateChangeListener, StateUpdateProofs

\* While a log is handled there is one, and while an operation is checked or
\* broadcast there is one.
ControlOK ==
  /\ pc \in InLoop \ {"next"} => ev \in LogType
  /\ pc \in {"checkGist", "sendGist", "checkState", "sendState"} => IsOp(msg)

TInv == ChainInv /\ TypeOK /\ ControlOK

\* The window being fetched is final, and so is all that came out of it.
SInv ==
  /\ pc \in InLoop \union {"fetch"} => fromBlock =< lastBlock /\ lastBlock =< final
  /\ pc \in InLoop => \A e \in pending : e.block =< lastBlock
  /\ HandledAreFinal
  /\ pc \in InLoop \ {"next"} => ev \in handled
  /\ pc \in {"checkGist", "sendGist", "checkState", "sendState"} =>
       Genuine(msg) /\ msg.block =< final
  /\ OperationsAreFinal

\* Where the logs handled by this life of the process lie.
HandledBehind ==
  /\ pc \in {"idle", "fetch"} => \A e \in handled : e.block < fromBlock
  /\ pc \in InLoop => \A e \in handled : e.block =< lastBlock
  /\ pc = "down" => handled = {}

\* Every log of the window being handled is still with the iterator, in front of
\* none that was taken from it, or was taken; what lies behind the window is
\* final.
EInv ==
  /\ pc \in InLoop \union {"fetch"} => lastBlock =< fromBlock + MaxBlocks
  /\ pc \in InLoop =>
       /\ \A e \in Logs : fromBlock =< e.block /\ e.block =< lastBlock =>
            e \in pending \union handled
       /\ \A e \in pending : fromBlock =< e.block
  /\ pc \in InLoop \ {"next"} =>
       fromBlock =< ev.block /\ \A e \in pending : ev.idx < e.idx
  /\ fromBlock =< final + 1 \/ fromBlock =< lifeStart
  /\ LostOnlyBehindUnsupported

\* How the saver has to be configured: a log is fetched only when no
\* reorganisation can reach its block, and the chain is old enough for
\* head - block_window not to wrap.
DeepEnough == BlockWindow >= ReorgDepth /\ InitHead >= BlockWindow + ReorgDepth

\* No log of a window is lost on purpose or with a log that cannot be decoded.
NoneDropped == DisableFiltration /\ "decode" \notin FaultKinds

-----------------------------------------------------------------------------
\* The logs of the chain have the type of a log.
LEMMA LogsTyped == ChainInv => Logs \subseteq LogType
<1> SUFFICES ASSUME ChainInv, NEW k \in GenesisLen + 1 .. Len(hist[Gist])
             PROVE  Log(k) \in LogType
  BY DEF Logs
<1>1. /\ Gist \in Trees /\ hist[Gist] \in Seq(EntryOf(Gist))
      /\ Len(hist[Gist]) \in Nat /\ GenesisLen \in Nat
  BY ContractAssumption, LenProperties DEF ChainInv, HistOK, Trees
<1>2. k \in Nat /\ k \in 1 .. Len(hist[Gist])
  BY <1>1
<1>3. hist[Gist][k] \in EntryOf(Gist)
  BY <1>1, <1>2, ElementOfSeq
<1> QED BY <1>2, <1>3 DEF Log, LogType, EntryOf

\* What stands at a position of a history that replaced another makes an
\* operation, and a genuine one.
LEMMA OpsTyped ==
  ASSUME ChainInv, NEW t \in Trees, NEW k \in 2 .. Len(hist[t])
  PROVE  IsOp(OpAt(t, k)) /\ Genuine(OpAt(t, k))
<1>1. hist[t] \in Seq(EntryOf(t)) /\ Len(hist[t]) \in Nat
  BY LenProperties DEF ChainInv, HistOK
<1>2. k \in 1 .. Len(hist[t]) /\ k - 1 \in 1 .. Len(hist[t])
  BY <1>1
<1>3. hist[t][k] \in EntryOf(t) /\ hist[t][k - 1] \in EntryOf(t)
  BY <1>1, <1>2, ElementOfSeq
<1>4. IsOp(OpAt(t, k))
  BY <1>3 DEF IsOp, OpAt, EntryOf
<1>5. Genuine(OpAt(t, k))
  BY DEF Genuine, OpAt
<1> QED BY <1>4, <1>5

\* The positions a lookup in a history of the contract returns.
LEMMA LookupInHistory ==
  ASSUME ChainInv, NEW t \in Trees, NEW b, Lookup(hist[t], b) # NotFound
  PROVE  /\ Lookup(hist[t], b) \in 2 .. Len(hist[t])
         /\ hist[t][Lookup(hist[t], b)].block = b
BY LookupSound DEF ChainInv, HistOK

\* uint64 arithmetic stays among the natural numbers.
LEMMA Arithmetic ==
  ASSUME NEW a \in Nat
  PROVE  /\ Sub64(a, BlockWindow) \in Nat
         /\ Add64(a, 1) \in Nat
         /\ \A h \in Nat : WindowEnd(h, a) \in Nat
<1>1. /\ BlockWindow \in Nat /\ MaxBlocks \in Nat /\ Modulus \in Nat
      /\ BlockWindow < Modulus
  BY ListenerAssumption
<1>2. \A x, y \in Nat : Add64(x, y) \in Nat
  BY <1>1 DEF Add64
<1>3. \A x \in Nat : Sub64(x, BlockWindow) \in Nat
  BY <1>1 DEF Sub64
<1> QED BY <1>1, <1>2, <1>3 DEF WindowEnd

-----------------------------------------------------------------------------
\* The saver starts well typed, before any log or operation is at hand.
LEMMA TInit == Init => TInv
<1> SUFFICES ASSUME Init PROVE TInv
  OBVIOUS
<1>1. ChainInv
  BY ChainInitOK DEF Init
<1>2. ChainTypeOK
  BY <1>1 DEF ChainInv, HistOK, ChainTypeOK
<1> QED BY <1>1, <1>2 DEF Init, TInv, TypeOK, ControlOK, InLoop

\* Steps that leave the chain alone keep what is known of it.
LEMMA ChainKept ==
  ASSUME TInv, UNCHANGED chainVars
  PROVE  ChainInv' /\ ChainTypeOK'
BY DEF TInv, TypeOK, chainVars, ChainInv, HistOK, ChainTypeOK

\* Going on with the next log keeps the types.
LEMMA TContinue ==
  ASSUME TInv, Continue, UNCHANGED <<chainVars, coreVars>>,
         faults' \in Nat, crashes' \in Nat, UNCHANGED <<lifeStart, handled>>
  PROVE  TInv'
<1>1. ChainInv' /\ ChainTypeOK'
  BY ChainKept
<1> QED BY <1>1 DEF TInv, TypeOK, ControlOK, Continue, coreVars, InLoop

\* GISTUpdateMsgByBlock and StateUpdateMsgByBlock leave a well-typed operation or
\* go on.
LEMMA TCraft ==
  ASSUME TInv, NEW t \in Trees, NEW next \in {"checkGist", "checkState"},
         Craft(t, next), pc \in InLoop \ {"next"}
  PROVE  TInv'
<1>1. ChainInv' /\ ChainTypeOK'
  BY ChainKept DEF Craft
<1>2. CASE Fault("lookup") /\ Continue
  BY <1>2, TContinue DEF Craft, Fault, TInv, TypeOK
<1>3. CASE UNCHANGED bookkeeping /\ Continue
  BY <1>3, TContinue DEF Craft, bookkeeping, TInv, TypeOK
<1>4. ASSUME NEW k, k = Lookup(hist[t], ev.block), k # NotFound, msg' = OpAt(t, k),
             pc' = next, UNCHANGED <<fromBlock, lastBlock, pending, ev>>,
             UNCHANGED bookkeeping
      PROVE  TInv'
  <2>1. IsOp(OpAt(t, k))
    BY <1>4, LookupInHistory, OpsTyped DEF TInv
  <2>2. ev \in LogType
    BY DEF TInv, ControlOK
  <2> QED BY <1>1, <1>4, <2>1, <2>2
          DEF Craft, TInv, TypeOK, ControlOK, bookkeeping, coreVars, InLoop
<1> QED BY <1>2, <1>3, <1>4 DEF Craft

\* checkGISTExist and checkStateExist keep the operation at hand or go on.
LEMMA TCheck ==
  ASSUME TInv, NEW next \in {"sendGist", "sendState"}, Check(next),
         pc \in {"checkGist", "checkState"}
  PROVE  TInv'
<1>1. ChainInv' /\ ChainTypeOK'
  BY ChainKept DEF Check
<1>2. CASE msg \in ops /\ Continue /\ UNCHANGED bookkeeping
  BY <1>2, TContinue DEF Check, bookkeeping, TInv, TypeOK
<1>3. CASE pc' = next /\ UNCHANGED memory /\ faults' \in Nat
           /\ UNCHANGED <<crashes, lifeStart, handled>>
  BY <1>1, <1>3 DEF Check, TInv, TypeOK, ControlOK, memory, coreVars, InLoop
<1> QED BY <1>2, <1>3 DEF Check, Fault, bookkeeping, TInv, TypeOK

\* BroadcastTx adds nothing but the operation at hand, whether it fails or not.
LEMMA TSend ==
  ASSUME TInv, pc \in {"sendGist", "sendState"},
         inflight' \in {inflight, inflight \union {msg}},
         faults' \in Nat, UNCHANGED <<chainVars, ops, crashes, lifeStart, handled>>,
         \/ Continue
         \/ pc' = "issuer" /\ msg' = None /\ UNCHANGED <<fromBlock, lastBlock, pending, ev>>
  PROVE  TInv'
<1>1. ChainInv' /\ ChainTypeOK'
  BY ChainKept
<1>2. \A op \in inflight' \union ops' : IsOp(op)
  BY DEF TInv, TypeOK, ControlOK
<1>3. ev \in LogType
  BY DEF TInv, ControlOK, InLoop
<1>4. fromBlock' \in Nat /\ lastBlock' \in Nat /\ pending' \subseteq LogType
  BY DEF TInv, TypeOK, Continue
<1> QED BY <1>1, <1>2, <1>3, <1>4 DEF TInv, TypeOK, ControlOK, Continue, InLoop

\* The end of subscription moves fromBlock to another block number.
LEMMA TReturn ==
  ASSUME TInv, Return, UNCHANGED <<chainVars, coreVars>>,
         faults' \in Nat, UNCHANGED <<crashes, lifeStart, handled>>
  PROVE  TInv'
<1>1. ChainInv' /\ ChainTypeOK'
  BY ChainKept
<1>2. fromBlock' \in Nat
  BY Arithmetic DEF Return, TInv, TypeOK
<1> QED BY <1>1, <1>2 DEF TInv, TypeOK, ControlOK, Return, coreVars, InLoop

-----------------------------------------------------------------------------
\* Every action preserves the types.
LEMMA TNext ==
  ASSUME TInv, [Next]_vars
  PROVE  TInv'
<1> USE DEF TInv
<1>1. CASE Start
  <2>1. ChainInv' /\ ChainTypeOK'
    BY <1>1, ChainKept DEF Start
  <2>2. fromBlock' \in Nat
    BY <1>1, ListenerAssumption DEF Start, ChainInv
  <2> QED BY <1>1, <2>1, <2>2 DEF Start, TypeOK, ControlOK, coreVars, InLoop
<1>2. CASE Crash
  <2>1. ChainInv' /\ ChainTypeOK'
    BY <1>2, ChainKept DEF Crash
  <2> QED BY <1>2, <2>1 DEF Crash, TypeOK, ControlOK, coreVars, InLoop
<1>3. CASE ReadHead
  <2>1. ChainInv' /\ ChainTypeOK'
    BY <1>3, ChainKept DEF ReadHead
  <2>2. lastBlock' \in Nat /\ pc' \in {"idle", "fetch"}
    BY <1>3, Arithmetic DEF ReadHead, TypeOK, ChainInv
  <2>3. faults' \in Nat /\ UNCHANGED <<crashes, lifeStart, handled>>
    BY <1>3 DEF ReadHead, Fault, bookkeeping, TypeOK
  <2> QED BY <1>3, <2>1, <2>2, <2>3 DEF ReadHead, TypeOK, ControlOK, coreVars, InLoop
<1>4. CASE Fetch
  <2>1. ChainInv' /\ ChainTypeOK'
    BY <1>4, ChainKept DEF Fetch
  <2>2. pending' \subseteq LogType
    BY <1>4, LogsTyped DEF Fetch, FilterStateUpdated, TypeOK
  <2>3. faults' \in Nat /\ UNCHANGED <<crashes, lifeStart, handled>>
    BY <1>4 DEF Fetch, Fault, bookkeeping, TypeOK
  <2>4. lastBlock' \in Nat /\ pc' \in {"idle", "next"}
    BY <1>4 DEF Fetch, TypeOK
  <2> QED BY <1>4, <2>1, <2>2, <2>3, <2>4 DEF Fetch, TypeOK, ControlOK, coreVars, InLoop
<1>5. CASE NextEvent
  <2>1. ChainInv' /\ ChainTypeOK'
    BY <1>5, ChainKept DEF NextEvent
  <2>2. ev' \in LogType /\ pending' \subseteq LogType /\ handled' \subseteq LogType
    BY <1>5 DEF NextEvent, TypeOK
  <2> QED BY <1>5, <2>1, <2>2 DEF NextEvent, TypeOK, ControlOK, coreVars, InLoop
<1>6. CASE EndOfEvents
  BY <1>6, TReturn DEF EndOfEvents, Fault, bookkeeping, TypeOK
<1>7. CASE CraftGist
  BY <1>7, TCraft, ContractAssumption DEF CraftGist, Trees, InLoop
<1>8. CASE CheckGist
  BY <1>8, TCheck DEF CheckGist
<1>9. CASE SendGist
  BY <1>9, TSend DEF SendGist, Send, Fault, bookkeeping, TypeOK
<1>10. CASE CheckIssuer
  <2>1. CASE Supported(ev.id) /\ pc' = "state" /\ UNCHANGED memory
    <3>1. ChainInv' /\ ChainTypeOK'
      BY <1>10, ChainKept DEF CheckIssuer
    <3>2. ev \in LogType
      BY <1>10 DEF CheckIssuer, ControlOK, InLoop
    <3> QED BY <1>10, <2>1, <3>1, <3>2
            DEF CheckIssuer, TypeOK, ControlOK, memory, coreVars, bookkeeping, InLoop
  <2>2. CASE Return
    BY <1>10, <2>2, TReturn DEF CheckIssuer, bookkeeping, TypeOK
  <2> QED BY <1>10, <2>1, <2>2 DEF CheckIssuer
<1>11. CASE CraftState
  <2>1. pc \in InLoop \ {"next"} /\ Craft(ev.id, "checkState")
    BY <1>11 DEF CraftState, InLoop
  <2>2. ev.id \in Trees
    BY <2>1 DEF ControlOK, LogType
  <2> QED BY <2>1, <2>2, TCraft
<1>12. CASE CheckState
  BY <1>12, TCheck DEF CheckState
<1>13. CASE SendState
  BY <1>13, TSend DEF SendState, Send, Fault, bookkeeping, TypeOK
<1>14. CASE Include
  <2>1. ChainInv' /\ ChainTypeOK'
    BY <1>14, ChainKept DEF Include
  <2> QED BY <1>14, <2>1 DEF Include, TypeOK, ControlOK, memory, bookkeeping
<1>15. CASE PeerCreates
  <2>1. ChainInv' /\ ChainTypeOK'
    BY <1>15, ChainKept DEF PeerCreates
  <2>2. \A op \in ops' : IsOp(op)
    <3>0. PICK t \in PeerTrees : \E k \in GenesisLen + 1 .. Len(hist[t]) :
            ops' = ops \union {OpAt(t, k)}
      BY <1>15 DEF PeerCreates
    <3>1. PICK k \in GenesisLen + 1 .. Len(hist[t]) : ops' = ops \union {OpAt(t, k)}
      BY <3>0
    <3>2. t \in Trees
      BY ListenerAssumption
    <3>3. k \in 2 .. Len(hist[t])
      <4>1. GenesisLen \in Nat \ {0} /\ Len(hist[t]) \in Nat
        BY <3>2, ContractAssumption, LenProperties DEF ChainInv, HistOK
      <4> QED BY <4>1
    <3> QED BY <3>1, <3>2, <3>3, OpsTyped DEF TypeOK
  <2> QED BY <1>15, <2>1, <2>2 DEF PeerCreates, TypeOK, ControlOK, memory, bookkeeping
<1>16. CASE Chain
  <2>1. ChainInv' /\ ChainTypeOK'
    BY <1>16, ChainStepOK DEF Chain, ChainInv, HistOK, ChainTypeOK
  <2> QED BY <1>16, <2>1 DEF Chain, TypeOK, ControlOK, memory, bookkeeping, coreVars
<1>17. CASE UNCHANGED vars
  <2>1. ChainInv' /\ ChainTypeOK'
    BY <1>17, ChainKept DEF vars
  <2> QED BY <1>17, <2>1 DEF vars, TypeOK, ControlOK, memory, bookkeeping, coreVars
<1> QED BY <1>1, <1>2, <1>3, <1>4, <1>5, <1>6, <1>7, <1>8, <1>9, <1>10, <1>11,
           <1>12, <1>13, <1>14, <1>15, <1>16, <1>17 DEF Next, Subscription

\* Type correctness of the saver.
THEOREM TypeCorrect == Spec => []TypeOK
<1>1. Spec => []TInv
  BY TInit, TNext, PTL DEF Spec
<1>2. TInv => TypeOK
  BY DEF TInv
<1> QED BY <1>1, <1>2, PTL

-----------------------------------------------------------------------------
\* With a chain that is old enough the window wraps nowhere: it ends at a final
\* block, not before it starts, and fromBlock moves right behind it.
LEMMA WindowFinal ==
  ASSUME DeepEnough, TInv, Sub64(head, BlockWindow) >= fromBlock
  PROVE  /\ fromBlock =< WindowEnd(head, fromBlock)
         /\ WindowEnd(head, fromBlock) =< final
<1>1. /\ head \in Nat /\ final \in Nat /\ fromBlock \in Nat
      /\ head =< MaxHead /\ final >= head - ReorgDepth /\ head >= InitHead - ReorgDepth
  BY DEF TInv, ChainInv, TypeOK
<1>2. /\ BlockWindow \in Nat /\ MaxBlocks \in Nat /\ Modulus \in Nat
      /\ ReorgDepth \in Nat /\ InitHead \in Nat /\ MaxHead \in Nat
      /\ StartFromBlock \in Nat
      /\ StartFromBlock + MaxBlocks + MaxHead + 1 < Modulus
  BY ListenerAssumption, ContractAssumption
<1>3. head - BlockWindow >= 0 /\ head - BlockWindow =< final
  BY <1>1, <1>2 DEF DeepEnough
<1>4. Sub64(head, BlockWindow) = head - BlockWindow
  BY <1>1, <1>2, <1>3 DEF Sub64
<1>5. Add64(fromBlock, MaxBlocks) = fromBlock + MaxBlocks
  BY <1>1, <1>2, <1>4 DEF Add64
<1> QED BY <1>1, <1>2, <1>3, <1>4, <1>5 DEF WindowEnd

\* While a window is handled, moving fromBlock behind it does not wrap.
LEMMA NextWindow ==
  ASSUME TInv, SInv, pc \in InLoop \union {"fetch"}
  PROVE  Add64(lastBlock, 1) = lastBlock + 1 /\ lastBlock \in Nat
<1>1. /\ head \in Nat /\ final \in Nat /\ lastBlock \in Nat
      /\ final =< head /\ head =< MaxHead /\ lastBlock =< final
  BY DEF TInv, ChainInv, TypeOK, SInv
<1>2. /\ MaxBlocks \in Nat /\ Modulus \in Nat /\ MaxHead \in Nat
      /\ StartFromBlock \in Nat
      /\ StartFromBlock + MaxBlocks + MaxHead + 1 < Modulus
  BY ListenerAssumption, ContractAssumption
<1> QED BY <1>1, <1>2 DEF Add64

\* The part of the invariant about operations is kept by a step that leaves
\* the chain alone and reports nothing new but the operation it has checked.
LEMMA ReportsKept ==
  ASSUME OperationsAreFinal, UNCHANGED chainVars,
         \A op \in Reported' : op \in Reported \/ (Genuine(op) /\ op.block =< final)
  PROVE  OperationsAreFinal'
<1> SUFFICES ASSUME NEW op \in Reported' PROVE Genuine(op)' /\ op.block =< final'
  BY DEF OperationsAreFinal
<1>1. Genuine(op) /\ op.block =< final
  BY DEF OperationsAreFinal
<1> QED BY <1>1 DEF Genuine, OpAt, chainVars

\* At the start nothing was handled or reported.
LEMMA SInit == Init => SInv
BY DEF Init, SInv, HandledAreFinal, OperationsAreFinal, Reported, InLoop

\* Going on with the next log keeps the window and the reports final.
LEMMA SContinue ==
  ASSUME TInv, SInv, pc \in InLoop, Continue, UNCHANGED <<chainVars, handled>>,
         \A op \in Reported' : op \in Reported \/ (Genuine(op) /\ op.block =< final)
  PROVE  SInv'
<1>1. OperationsAreFinal'
  BY ReportsKept DEF SInv
<1> QED BY <1>1 DEF SInv, Continue, InLoop, HandledAreFinal, chainVars

\* So does the end of subscription.
LEMMA SReturn ==
  ASSUME TInv, SInv, pc \in InLoop, Return, UNCHANGED <<chainVars, handled, coreVars>>
  PROVE  SInv'
<1>1. OperationsAreFinal'
  BY ReportsKept DEF SInv, coreVars, Reported
<1> QED BY <1>1 DEF SInv, Return, InLoop, HandledAreFinal, chainVars

\* The operation crafted for a log of a final block is genuine on the chain as it
\* is now, and final.
LEMMA SCraft ==
  ASSUME TInv, SInv, NEW t \in Trees, NEW next \in {"checkGist", "checkState"},
         Craft(t, next), pc \in InLoop \ {"next"}
  PROVE  SInv'
<1>1. OperationsAreFinal' /\ UNCHANGED <<chainVars, coreVars>>
  BY ReportsKept DEF SInv, Craft, coreVars, Reported
<1>2. CASE Continue
  BY <1>1, <1>2, SContinue DEF Craft, Fault, bookkeeping, coreVars, Reported
<1>3. ASSUME NEW k, k = Lookup(hist[t], ev.block), k # NotFound, msg' = OpAt(t, k),
             pc' = next, UNCHANGED <<fromBlock, lastBlock, pending, ev>>,
             UNCHANGED bookkeeping
      PROVE  SInv'
  <2>1. k \in 2 .. Len(hist[t]) /\ hist[t][k].block = ev.block
    BY <1>3, LookupInHistory DEF TInv
  <2>2. Genuine(OpAt(t, k))
    BY <2>1, OpsTyped DEF TInv
  <2>3. OpAt(t, k).block =< final
    BY <2>1 DEF OpAt, SInv, HandledAreFinal
  <2>4. (Genuine(msg) /\ msg.block =< final)'
    BY <1>1, <1>3, <2>2, <2>3 DEF Genuine, OpAt, chainVars
  <2> QED BY <1>1, <1>3, <2>4 DEF SInv, InLoop, HandledAreFinal, chainVars, bookkeeping
<1> QED BY <1>2, <1>3 DEF Craft

\* The existence check leaves it so.
LEMMA SCheck ==
  ASSUME TInv, SInv, NEW next \in {"sendGist", "sendState"}, Check(next),
         pc \in {"checkGist", "checkState"}
  PROVE  SInv'
<1>1. OperationsAreFinal' /\ UNCHANGED <<chainVars, coreVars, handled>>
  BY ReportsKept DEF SInv, Check, coreVars, Reported, Fault, bookkeeping
<1>2. CASE Continue
  BY <1>1, <1>2, SContinue DEF coreVars, Reported, InLoop
<1>3. CASE pc' = next /\ UNCHANGED memory
  <2>1. (Genuine(msg) /\ msg.block =< final)'
    BY <1>1, <1>3 DEF SInv, Genuine, OpAt, chainVars, memory
  <2> QED BY <1>1, <1>3, <2>1 DEF SInv, InLoop, HandledAreFinal, chainVars, memory
<1> QED BY <1>2, <1>3 DEF Check

\* Broadcasting such an operation keeps every report genuine and final.
LEMMA SSend ==
  ASSUME TInv, SInv, pc \in {"sendGist", "sendState"},
         inflight' \in {inflight, inflight \union {msg}},
         UNCHANGED <<chainVars, ops, handled>>,
         \/ Continue
         \/ pc' = "issuer" /\ msg' = None /\ UNCHANGED <<fromBlock, lastBlock, pending, ev>>
  PROVE  SInv'
<1>1. \A op \in Reported' : op \in Reported \/ (Genuine(op) /\ op.block =< final)
  BY DEF SInv, Reported
<1>2. CASE Continue
  BY <1>1, <1>2, SContinue DEF InLoop
<1>3. CASE pc' = "issuer" /\ UNCHANGED <<fromBlock, lastBlock, pending, ev>>
  <2>1. OperationsAreFinal'
    BY <1>1, ReportsKept DEF SInv
  <2> QED BY <1>3, <2>1 DEF SInv, InLoop, HandledAreFinal, chainVars
<1> QED BY <1>2, <1>3

\* What was final before a step of the chain is final after it.
LEMMA SChain ==
  ASSUME TInv, SInv, Chain
  PROVE  SInv'
<1>1. /\ ChainInv' /\ Keeps(hist, hist', final) /\ final =< final'
      /\ HistOK(hist', head')
  BY ChainStepOK DEF Chain, TInv, ChainInv, HistOK, Agree
<1>2. final \in Nat /\ final' \in Nat
  BY <1>1 DEF TInv, ChainInv
<1>3. ASSUME NEW op, Genuine(op), op.block =< final
      PROVE  Genuine(op)' /\ op.block =< final'
  <2>1. Genuine(op)'
    BY <1>1, <1>3, GenuineForever DEF TInv
  <2>2. op.block \in Nat
    <3>1. PICK k \in 2 .. Len(hist[op.tree]) : op = OpAt(op.tree, k)
      BY <1>3 DEF Genuine
    <3>2. IsOp(op)
      BY <1>3, <3>1, OpsTyped DEF TInv, Genuine
    <3> QED BY <3>2 DEF IsOp
  <2> QED BY <1>1, <1>2, <1>3, <2>1, <2>2
<1>4. OperationsAreFinal'
  BY <1>3 DEF SInv, OperationsAreFinal, Chain, coreVars, Reported
<1>5. HandledAreFinal'
  <2>1. \A e \in handled : e.block \in Nat
    BY DEF TInv, TypeOK, LogType
  <2> QED BY <1>1, <1>2, <2>1 DEF SInv, HandledAreFinal, Chain, bookkeeping
<1>6. pc \in {"checkGist", "sendGist", "checkState", "sendState"} =>
        (Genuine(msg) /\ msg.block =< final)'
  BY <1>3 DEF SInv, Chain, memory
<1>7. lastBlock =< final => lastBlock =< final'
  BY <1>1, <1>2 DEF TInv, TypeOK
<1> QED BY <1>4, <1>5, <1>6, <1>7 DEF SInv, Chain, memory, bookkeeping

\* Every action preserves the safety invariant.
LEMMA SNext ==
  ASSUME DeepEnough, TInv, SInv, [Next]_vars
  PROVE  SInv'
<1>0. ASSUME UNCHANGED <<chainVars, coreVars>>
      PROVE  OperationsAreFinal'
  BY <1>0, ReportsKept DEF SInv, coreVars, Reported
<1>1. CASE Start
  BY <1>0, <1>1 DEF Start, SInv, HandledAreFinal, InLoop
<1>2. CASE Crash
  BY <1>0, <1>2 DEF Crash, SInv, HandledAreFinal, InLoop
<1>3. CASE ReadHead
  <2>1. HandledAreFinal' /\ pc = "idle" /\ UNCHANGED <<chainVars, coreVars>>
    BY <1>3 DEF ReadHead, SInv, HandledAreFinal, chainVars, Fault, bookkeeping
  <2>2. CASE UNCHANGED <<pc, lastBlock>>
    BY <1>0, <2>1, <2>2 DEF SInv, InLoop
  <2>3. CASE /\ Sub64(head, BlockWindow) >= fromBlock
             /\ lastBlock' = WindowEnd(head, fromBlock) /\ pc' = "fetch"
    BY <1>0, <1>3, <2>1, <2>3, WindowFinal DEF ReadHead, SInv, InLoop, chainVars
  <2> QED BY <1>3, <2>2, <2>3 DEF ReadHead
<1>4. CASE Fetch
  <2>1. HandledAreFinal' /\ pc = "fetch" /\ UNCHANGED <<chainVars, coreVars>>
    BY <1>4 DEF Fetch, SInv, HandledAreFinal, chainVars, Fault, bookkeeping
  <2>2. CASE pc' = "idle"
    BY <1>0, <2>1, <2>2 DEF SInv, InLoop
  <2>3. CASE /\ pending' = FilterStateUpdated(fromBlock, lastBlock)
             /\ pc' = "next" /\ UNCHANGED lastBlock
    BY <1>0, <1>4, <2>1, <2>3 DEF Fetch, SInv, InLoop, chainVars, FilterStateUpdated
  <2> QED BY <1>4, <2>2, <2>3 DEF Fetch
<1>5. CASE NextEvent
  <2>1. PICK e \in pending : /\ ev' = e /\ pending' = pending \ {e}
                            /\ handled' = handled \union {e}
    BY <1>5 DEF NextEvent
  <2>2. e.block =< final
    <3>1. e.block \in Nat /\ lastBlock \in Nat /\ final \in Nat
      BY DEF TInv, ChainInv, TypeOK, LogType
    <3> QED BY <1>5, <3>1 DEF NextEvent, SInv, InLoop
  <2> QED BY <1>0, <1>5, <2>1, <2>2 DEF NextEvent, SInv, HandledAreFinal, InLoop, chainVars
<1>6. CASE EndOfEvents
  BY <1>6, SReturn DEF EndOfEvents, Fault, bookkeeping, InLoop
<1>7. CASE CraftGist
  BY <1>7, SCraft, ContractAssumption DEF CraftGist, Trees, InLoop
<1>8. CASE CheckGist
  BY <1>8, SCheck DEF CheckGist
<1>9. CASE SendGist
  BY <1>9, SSend DEF SendGist, Send, Fault, bookkeeping
<1>10. CASE CheckIssuer
  <2>1. CASE pc' = "state" /\ UNCHANGED memory
    BY <1>0, <1>10, <2>1
       DEF CheckIssuer, SInv, HandledAreFinal, InLoop, memory, bookkeeping, chainVars
  <2>2. CASE Return
    BY <1>10, <2>2, SReturn DEF CheckIssuer, bookkeeping, InLoop
  <2> QED BY <1>10, <2>1, <2>2 DEF CheckIssuer
<1>11. CASE CraftState
  <2>1. pc \in InLoop \ {"next"} /\ Craft(ev.id, "checkState")
    BY <1>11 DEF CraftState, InLoop
  <2>2. ev.id \in Trees
    BY <2>1 DEF TInv, ControlOK, LogType
  <2> QED BY <2>1, <2>2, SCraft
<1>12. CASE CheckState
  BY <1>12, SCheck DEF CheckState
<1>13. CASE SendState
  BY <1>13, SSend DEF SendState, Send, Fault, bookkeeping
<1>14. CASE Include
  <2>1. OperationsAreFinal'
    BY <1>14, ReportsKept DEF Include, SInv, Reported
  <2> QED BY <1>14, <2>1
          DEF Include, SInv, HandledAreFinal, memory, bookkeeping, chainVars, Genuine, OpAt
<1>15. CASE PeerCreates
  <2>1. PICK t \in PeerTrees : \E k \in GenesisLen + 1 .. Len(hist[t]) :
          hist[t][k].block =< final /\ ops' = ops \union {OpAt(t, k)}
    BY <1>15 DEF PeerCreates
  <2>2. PICK k \in GenesisLen + 1 .. Len(hist[t]) :
          hist[t][k].block =< final /\ ops' = ops \union {OpAt(t, k)}
    BY <2>1
  <2>3. t \in Trees /\ k \in 2 .. Len(hist[t])
    <3>1. t \in Trees
      BY ListenerAssumption
    <3>2. GenesisLen \in Nat \ {0} /\ Len(hist[t]) \in Nat
      BY <3>1, ContractAssumption, LenProperties DEF TInv, ChainInv, HistOK
    <3> QED BY <3>1, <3>2
  <2>4. Genuine(OpAt(t, k)) /\ OpAt(t, k).block =< final
    BY <2>2, <2>3, OpsTyped DEF TInv, OpAt
  <2>5. OperationsAreFinal'
    BY <1>15, <2>2, <2>4, ReportsKept DEF PeerCreates, SInv, Reported
  <2> QED BY <1>15, <2>5
          DEF PeerCreates, SInv, HandledAreFinal, memory, bookkeeping, chainVars, Genuine, OpAt
<1>16. CASE Chain
  BY <1>16, SChain
<1>17. CASE UNCHANGED vars
  BY <1>0, <1>17 DEF vars, SInv, HandledAreFinal, memory, bookkeeping, chainVars, Genuine, OpAt
<1> QED BY <1>1, <1>2, <1>3, <1>4, <1>5, <1>6, <1>7, <1>8, <1>9, <1>10, <1>11,
           <1>12, <1>13, <1>14, <1>15, <1>16, <1>17 DEF Next, Subscription

\* Whatever the saver hands to the broadcaster, and whatever reaches core,
\* stays true: when block_window covers the depth of a reorganisation, the
\* operations describe transitions nothing can take back.
THEOREM OperationsStayFinal == ASSUME DeepEnough PROVE Spec => []OperationsAreFinal
<1>1. Spec => []TInv
  BY TInit, TNext, PTL DEF Spec
<1>2. TInv /\ SInv /\ [Next]_vars => SInv'
  BY SNext
<1>3. SInv => OperationsAreFinal
  BY DEF SInv
<1> QED BY <1>1, <1>2, <1>3, SInit, PTL DEF Spec

\* A log is handled only when its block is final.
THEOREM HandledStayFinal == ASSUME DeepEnough PROVE Spec => []HandledAreFinal
<1>1. Spec => []TInv
  BY TInit, TNext, PTL DEF Spec
<1>2. TInv /\ SInv /\ [Next]_vars => SInv'
  BY SNext
<1>3. SInv => HandledAreFinal
  BY DEF SInv
<1> QED BY <1>1, <1>2, <1>3, SInit, PTL DEF Spec

-----------------------------------------------------------------------------
\* Only steps of the chain change its histories.
LEMMA HistMoves == ASSUME [Next]_vars PROVE ContractNext \/ UNCHANGED hist
<1>1. CASE UNCHANGED vars
  BY <1>1 DEF vars, chainVars
<1>2. CASE Start \/ Crash \/ Include \/ PeerCreates
  BY <1>2 DEF Start, Crash, Include, PeerCreates, chainVars
<1>3. CASE Subscription
  BY <1>3 DEF Subscription, ReadHead, Fetch, NextEvent, EndOfEvents, CraftGist, CheckGist,
     SendGist, CheckIssuer, CraftState, CheckState, SendState, Craft, Check, Send, chainVars
<1>4. CASE Chain
  BY <1>4 DEF Chain
<1> QED BY <1>1, <1>2, <1>3, <1>4 DEF Next

\* Two genuine operations that replace the same value are one.
LEMMA OneSuccessor ==
  ASSUME ChainInv, Distinct(hist), NEW a, NEW b, Genuine(a), Genuine(b),
         a.tree = b.tree, a.old = b.old
  PROVE  a = b
<1> DEFINE t == a.tree
<1>1. PICK j \in 2 .. Len(hist[t]) : a = OpAt(t, j)
  BY DEF Genuine
<1>2. PICK k \in 2 .. Len(hist[t]) : b = OpAt(t, k)
  BY DEF Genuine
<1>3. t \in Trees /\ Len(hist[t]) \in Nat
  BY LenProperties DEF Genuine, ChainInv, HistOK
<1>4. j - 1 \in 1 .. Len(hist[t]) /\ k - 1 \in 1 .. Len(hist[t])
  BY <1>3
<1>5. hist[t][j - 1].val = hist[t][k - 1].val
  BY <1>1, <1>2 DEF OpAt
<1>6. j - 1 = k - 1
  BY <1>3, <1>4, <1>5 DEF Distinct
<1> QED BY <1>1, <1>2, <1>6

\* Core never holds two stories of the contract.
THEOREM OneStory == ASSUME DeepEnough PROVE Spec => []NoFork
<1>1. Spec => []TInv
  BY TInit, TNext, PTL DEF Spec
<1>2. TInv /\ Distinct(hist) /\ [Next]_vars => Distinct(hist)'
  <2> SUFFICES ASSUME TInv, Distinct(hist), [Next]_vars PROVE Distinct(hist')
    BY DEF Distinct
  <2>1. CASE ContractNext
    BY <2>1, ValuesStayUnique DEF TInv
  <2>2. CASE UNCHANGED hist
    BY <2>2
  <2> QED BY <2>1, <2>2, HistMoves
<1>3. Init => Distinct(hist)
  BY DistinctInit DEF Init
<1>4. TInv /\ Distinct(hist) /\ OperationsAreFinal => NoFork
  BY OneSuccessor DEF TInv, OperationsAreFinal, NoFork
<1>5. Spec => []OperationsAreFinal
  BY OperationsStayFinal
<1> QED BY <1>1, <1>2, <1>3, <1>4, <1>5, PTL DEF Spec

-----------------------------------------------------------------------------
\* The saver implements the abstract relay.
THEOREM RelayImplemented == ASSUME DeepEnough PROVE Spec => ImplementsRelay
<1>1. Init => Relay!Init
  BY DEF Init, Reported, Relay!Init, ContractInit, Relay!ContractInit, MaxOf, Relay!MaxOf,
         Trees, Relay!Trees, Entry, Relay!Entry
<1>2. ASSUME TInv, SInv, [Next]_vars
      PROVE  [Relay!Next]_(Relay!relayVars)
  <2> DEFINE told(op) == /\ Reported' = Reported \union {op}
                         /\ UNCHANGED chainVars
  <2>0. ASSUME NEW op, Genuine(op), op.block =< final, told(op)
        PROVE  Relay!Create
    <3>1. op \in Relay!FinalOps
      BY <2>0 DEF Genuine, OpAt, Trees, Relay!FinalOps, Relay!OpAt, Relay!Trees
    <3> QED BY <2>0, <3>1 DEF Relay!Create, chainVars, Relay!chainVars
  <2>1. CASE SendGist \/ SendState
    <3>1. Genuine(msg) /\ msg.block =< final
      BY <1>2, <2>1 DEF SendGist, SendState, SInv
    <3>2. UNCHANGED <<chainVars, Reported>> \/ told(msg)
      BY <2>1 DEF SendGist, SendState, Send, Reported
    <3> QED BY <2>0, <3>1, <3>2 DEF Relay!Next, Relay!relayVars, chainVars, Relay!chainVars
  <2>2. CASE PeerCreates
    <3>1. PICK t \in PeerTrees : \E k \in GenesisLen + 1 .. Len(hist[t]) :
            hist[t][k].block =< final /\ ops' = ops \union {OpAt(t, k)}
      BY <2>2 DEF PeerCreates
    <3>2. PICK k \in GenesisLen + 1 .. Len(hist[t]) :
            hist[t][k].block =< final /\ ops' = ops \union {OpAt(t, k)}
      BY <3>1
    <3>3. t \in Trees
      BY ListenerAssumption
    <3>4. GenesisLen \in Nat \ {0} /\ Len(hist[t]) \in Nat
      BY <1>2, <3>3, ContractAssumption, LenProperties DEF TInv, ChainInv, HistOK
    <3>5. k \in 2 .. Len(hist[t])
      BY <3>4
    <3>6. Genuine(OpAt(t, k)) /\ OpAt(t, k).block =< final
      BY <1>2, <3>2, <3>3, <3>5, OpsTyped DEF TInv, OpAt
    <3>7. told(OpAt(t, k))
      BY <2>2, <3>2 DEF PeerCreates, Reported
    <3> QED BY <2>0, <3>6, <3>7 DEF Relay!Next
  <2>3. CASE Chain
    BY <2>3 DEF Chain, coreVars, Reported, Relay!Next, Relay!Chain,
         ContractNext, Relay!ContractNext, MineEmpty, Relay!MineEmpty,
         MineOne, Relay!MineOne, MineTwo, Relay!MineTwo, Reorg, Relay!Reorg,
         Seal, Relay!Seal, MaxOf, Relay!MaxOf, MadeUpTo, Relay!MadeUpTo,
         Fresh, Relay!Fresh, Transited, Relay!Transited, Entry, Relay!Entry,
         RootWith, Relay!RootWith, Trees, Relay!Trees
  <2>4. ASSUME UNCHANGED <<chainVars, Reported>> PROVE UNCHANGED Relay!relayVars
    BY <2>4 DEF chainVars, Relay!relayVars, Relay!chainVars
  <2>5. CASE Start \/ Crash \/ ReadHead \/ Fetch \/ NextEvent \/ EndOfEvents
    BY <2>4, <2>5 DEF Start, Crash, ReadHead, Fetch, NextEvent, EndOfEvents, coreVars, Reported
  <2>6. CASE CraftGist \/ CheckGist \/ CheckIssuer \/ CraftState \/ CheckState
    BY <2>4, <2>6 DEF CraftGist, CheckGist, CheckIssuer, CraftState, CheckState,
                      Craft, Check, coreVars, Reported
  <2>7. CASE Include
    BY <2>4, <2>7 DEF Include, Reported
  <2>8. CASE UNCHANGED vars
    BY <2>4, <2>8 DEF vars, coreVars, Reported
  <2> QED BY <1>2, <2>1, <2>2, <2>3, <2>5, <2>6, <2>7, <2>8 DEF Next, Subscription
<1>3. Spec => []TInv
  BY TInit, TNext, PTL DEF Spec
<1>4. TInv /\ SInv /\ [Next]_vars => SInv'
  BY SNext
<1> QED BY <1>1, <1>2, <1>3, <1>4, SInit, PTL DEF Spec, ImplementsRelay, Relay!Spec

-----------------------------------------------------------------------------
\* A step of the chain makes no log in a final block.
LEMMA LogsStable ==
  ASSUME TInv, Chain
  PROVE  \A e \in Logs' : e.block \in Nat /\ (e.block =< final => e \in Logs)
<1>1. /\ Gist \in Trees /\ hist'[Gist] \in Seq(EntryOf(Gist))
      /\ Len(hist'[Gist]) \in Nat /\ Len(hist[Gist]) \in Nat /\ GenesisLen \in Nat
      /\ Keeps(hist', hist, final)
  BY ChainStepOK, ContractAssumption, LenProperties
     DEF Chain, TInv, ChainInv, HistOK, Agree, Trees
<1> SUFFICES ASSUME NEW e \in Logs'
             PROVE  e.block \in Nat /\ (e.block =< final => e \in Logs)
  OBVIOUS
<1>2. PICK k \in GenesisLen + 1 .. Len(hist'[Gist]) :
        e = [idx |-> k, id |-> hist'[Gist][k].id, block |-> hist'[Gist][k].block,
             root |-> hist'[Gist][k].val]
  BY DEF Logs, Log
<1>3. k \in 1 .. Len(hist'[Gist]) /\ e.block = hist'[Gist][k].block
  BY <1>1, <1>2
<1>4. e.block \in Nat
  <2>1. hist'[Gist][k] \in EntryOf(Gist)
    BY <1>1, <1>3, ElementOfSeq
  <2> QED BY <1>3, <2>1 DEF EntryOf
<1>5. ASSUME e.block =< final PROVE e \in Logs
  <2>1. k =< Len(hist[Gist]) /\ hist[Gist][k] = hist'[Gist][k]
    BY <1>1, <1>3, <1>5 DEF Keeps
  <2>2. e = Log(k) /\ k \in GenesisLen + 1 .. Len(hist[Gist])
    BY <1>1, <1>2, <2>1 DEF Log
  <2> QED BY <2>2 DEF Logs
<1> QED BY <1>4, <1>5

\* Every action keeps the logs handled behind the window.
LEMMA HNext ==
  ASSUME DeepEnough, TInv, SInv, HandledBehind, [Next]_vars
  PROVE  HandledBehind'
<1>0. ASSUME pc \in InLoop, pc' \in InLoop, UNCHANGED <<lastBlock, handled>>
      PROVE  HandledBehind'
  BY <1>0 DEF HandledBehind, InLoop
<1>1. CASE Start
  BY <1>1 DEF Start, HandledBehind, InLoop
<1>2. CASE Crash
  BY <1>2 DEF Crash, HandledBehind, InLoop
<1>3. CASE ReadHead
  BY <1>3 DEF ReadHead, HandledBehind, InLoop, Fault, bookkeeping
<1>4. CASE Fetch
  <2>1. \A e \in handled : e.block < fromBlock /\ e.block =< lastBlock
    <3>1. \A e \in handled : e.block \in Nat
      BY DEF TInv, TypeOK, LogType
    <3>2. fromBlock \in Nat /\ lastBlock \in Nat /\ fromBlock =< lastBlock
      BY <1>4 DEF Fetch, TInv, TypeOK, SInv
    <3> QED BY <1>4, <3>1, <3>2 DEF Fetch, HandledBehind
  <2> QED BY <1>4, <2>1 DEF Fetch, HandledBehind, InLoop, Fault, bookkeeping
<1>5. CASE NextEvent
  BY <1>5 DEF NextEvent, SInv, HandledBehind, InLoop
<1>6. ASSUME Return, pc \in InLoop, UNCHANGED handled
      PROVE  HandledBehind'
  <2>1. fromBlock' = lastBlock + 1 /\ lastBlock \in Nat
    BY <1>6, NextWindow DEF Return
  <2>2. \A e \in handled : e.block \in Nat
    BY DEF TInv, TypeOK, LogType
  <2> QED BY <1>6, <2>1, <2>2 DEF Return, HandledBehind, InLoop
<1>7. CASE EndOfEvents
  BY <1>6, <1>7 DEF EndOfEvents, Fault, bookkeeping, InLoop
<1>8. CASE CraftGist \/ CraftState
  BY <1>0, <1>8 DEF CraftGist, CraftState, Craft, Continue, Fault, bookkeeping, InLoop
<1>9. CASE CheckGist \/ CheckState
  BY <1>0, <1>9 DEF CheckGist, CheckState, Check, Continue, Fault, bookkeeping, memory, InLoop
<1>10. CASE SendGist \/ SendState
  BY <1>0, <1>10 DEF SendGist, SendState, Send, Continue, Fault, bookkeeping, InLoop
<1>11. CASE CheckIssuer
  BY <1>0, <1>6, <1>11 DEF CheckIssuer, bookkeeping, memory, InLoop
<1>12. CASE UNCHANGED <<pc, memory, bookkeeping>>
  BY <1>12 DEF HandledBehind, memory, bookkeeping
<1>13. CASE Include \/ PeerCreates \/ Chain \/ UNCHANGED vars
  BY <1>12, <1>13 DEF Include, PeerCreates, Chain, vars
<1> QED BY <1>1, <1>2, <1>3, <1>4, <1>5, <1>7, <1>8, <1>9, <1>10, <1>11, <1>13
        DEF Next, Subscription

\* No life of the process fetches a block twice.
THEOREM BlocksFetchedOnce == ASSUME DeepEnough PROVE Spec => NoRefetch
<1>1. Spec => []TInv
  BY TInit, TNext, PTL DEF Spec
<1>2. TInv /\ SInv /\ [Next]_vars => SInv'
  BY SNext
<1>3. Init => HandledBehind
  BY DEF Init, HandledBehind, InLoop
<1>4. TInv /\ SInv /\ HandledBehind /\ [Next]_vars => HandledBehind'
  BY HNext
<1>5. ASSUME TInv, HandledBehind, [Next]_vars
      PROVE  [pc = "fetch" /\ pc' = "next" =>
                \A e \in handled : \A f \in pending' : e.block < f.block]_vars
  <2> SUFFICES ASSUME pc = "fetch", pc' = "next", NEW e \in handled, NEW f \in pending'
               PROVE  e.block < f.block
    OBVIOUS
  <2>1. CASE Fetch
    <3>1. e.block < fromBlock
      BY <1>5 DEF HandledBehind
    <3>2. pending' = FilterStateUpdated(fromBlock, lastBlock)
      BY <2>1 DEF Fetch
    <3>3. f \in Logs /\ fromBlock =< f.block
      BY <3>2 DEF FilterStateUpdated
    <3>4. e.block \in Nat /\ f.block \in Nat /\ fromBlock \in Nat
      BY <1>5, <3>3, LogsTyped DEF TInv, TypeOK, LogType
    <3> QED BY <3>1, <3>3, <3>4
  <2>2. CASE ~ Fetch
    BY <1>5, <2>2 DEF Next, Subscription, Start, Crash, ReadHead, NextEvent, EndOfEvents,
       CraftGist, CheckGist, SendGist, CheckIssuer, CraftState, CheckState, SendState,
       Include, PeerCreates, Chain, vars
  <2> QED BY <2>1, <2>2
<1> QED BY <1>1, <1>2, <1>3, <1>4, <1>5, SInit, PTL DEF Spec, NoRefetch

-----------------------------------------------------------------------------
\* The logs handled, and those at hand, are on the chain.
OnChain == handled \subseteq Logs /\ (pc \in InLoop => pending \subseteq Logs)

\* A step of the chain loses no log of a final block.
LEMMA LogsKept ==
  ASSUME TInv, Chain
  PROVE  \A e \in Logs : e.block =< final => e \in Logs'
<1>1. /\ Gist \in Trees /\ GenesisLen \in Nat
      /\ Len(hist[Gist]) \in Nat /\ Len(hist'[Gist]) \in Nat
      /\ Keeps(hist, hist', final)
  BY ChainStepOK, ContractAssumption, LenProperties
     DEF Chain, TInv, ChainInv, HistOK, Agree, Trees
<1> SUFFICES ASSUME NEW e \in Logs, e.block =< final PROVE e \in Logs'
  OBVIOUS
<1>0. PICK k \in GenesisLen + 1 .. Len(hist[Gist]) : e = Log(k)
  BY DEF Logs
<1>2. k \in 1 .. Len(hist[Gist]) /\ hist[Gist][k].block =< final
  BY <1>0, <1>1 DEF Log
<1>3. k =< Len(hist'[Gist]) /\ hist'[Gist][k] = hist[Gist][k]
  BY <1>1, <1>2 DEF Keeps
<1>4. k \in GenesisLen + 1 .. Len(hist'[Gist])
  BY <1>1, <1>3
<1>5. Logs' = {[idx |-> m, id |-> hist'[Gist][m].id, block |-> hist'[Gist][m].block,
                root |-> hist'[Gist][m].val] : m \in GenesisLen + 1 .. Len(hist'[Gist])}
  BY DEF Logs, Log
<1>6. e = [idx |-> k, id |-> hist'[Gist][k].id, block |-> hist'[Gist][k].block,
           root |-> hist'[Gist][k].val]
  BY <1>0, <1>3 DEF Log
<1> QED BY <1>4, <1>5, <1>6

\* Every step keeps the logs the saver knows on the chain, for they are final.
LEMMA OnChainNext ==
  ASSUME DeepEnough, TInv, SInv, OnChain, [Next]_vars
  PROVE  OnChain'
<1>1. CASE Chain
  <2>1. UNCHANGED <<pc, pending, handled>>
    BY <1>1 DEF Chain, memory, bookkeeping
  <2>2. \A e \in handled : e.block =< final
    BY DEF SInv, HandledAreFinal
  <2>3. ASSUME pc \in InLoop, NEW e \in pending PROVE e.block =< final
    <3>1. e.block =< lastBlock /\ lastBlock =< final
      BY <2>3 DEF SInv
    <3>2. e.block \in Nat /\ lastBlock \in Nat /\ final \in Nat
      BY DEF TInv, ChainInv, TypeOK, LogType
    <3> QED BY <3>1, <3>2
  <2> QED BY <1>1, <2>1, <2>2, <2>3, LogsKept DEF OnChain
<1>2. ASSUME UNCHANGED <<chainVars, handled>>, pc' \in InLoop => pc \in InLoop /\ UNCHANGED pending
      PROVE  OnChain'
  BY <1>2 DEF OnChain, chainVars, Logs, Log
<1>3. CASE Start \/ Crash
  BY <1>3 DEF Start, Crash, OnChain, InLoop
<1>4. CASE ReadHead
  BY <1>2, <1>4 DEF ReadHead, Fault, bookkeeping, InLoop
<1>5. CASE Fetch
  BY <1>5 DEF Fetch, Fault, bookkeeping, InLoop, OnChain, FilterStateUpdated, chainVars, Logs, Log
<1>6. CASE NextEvent
  BY <1>6 DEF NextEvent, InLoop, OnChain, chainVars, Logs, Log
<1>7. CASE EndOfEvents
  BY <1>2, <1>7 DEF EndOfEvents, Return, Fault, bookkeeping, InLoop
<1>8. CASE CraftGist \/ CraftState
  BY <1>2, <1>8 DEF CraftGist, CraftState, Craft, Continue, Fault, bookkeeping, InLoop
<1>9. CASE CheckGist \/ CheckState
  BY <1>2, <1>9 DEF CheckGist, CheckState, Check, Continue, Fault, bookkeeping, memory, InLoop
<1>10. CASE SendGist \/ SendState
  BY <1>2, <1>10 DEF SendGist, SendState, Send, Continue, Fault, bookkeeping, InLoop
<1>11. CASE CheckIssuer
  BY <1>2, <1>11 DEF CheckIssuer, Return, bookkeeping, memory, InLoop
<1>12. CASE Include \/ PeerCreates \/ UNCHANGED vars
  BY <1>2, <1>12 DEF Include, PeerCreates, vars, memory, bookkeeping
<1> QED BY <1>1, <1>3, <1>4, <1>5, <1>6, <1>7, <1>8, <1>9, <1>10, <1>11, <1>12
        DEF Next, Subscription

\* The logs stay paired with the states of their issuers.
LEMMA PairedNext == ASSUME TInv, Paired(hist), [Next]_vars PROVE Paired(hist')
<1>1. CASE ContractNext
  BY <1>1, RootsStayPaired DEF TInv
<1>2. CASE UNCHANGED hist
  BY <1>2
<1> QED BY <1>1, <1>2, HistMoves

\* The logs handled stay on the chain.
LEMMA HandledOnChain == ASSUME DeepEnough PROVE Spec => [](TInv /\ SInv /\ OnChain /\ Paired(hist))
<1>1. Init => OnChain
  BY DEF Init, OnChain, InLoop
<1>2. Init => Paired(hist)
  BY PairedInit DEF Init
<1>3. TInv /\ Paired(hist) /\ [Next]_vars => Paired(hist)'
  BY PairedNext DEF Paired
<1>4. TInv /\ SInv /\ OnChain /\ [Next]_vars => OnChain'
  BY OnChainNext
<1>5. TInv /\ SInv /\ [Next]_vars => SInv'
  BY SNext
<1> QED BY <1>1, <1>2, <1>3, <1>4, <1>5, TInit, TNext, SInit, PTL DEF Spec

-----------------------------------------------------------------------------
\* A log comes behind a handled one of an unsupported issuer, in the same window.
Behind(e) ==
  \E f \in handled : ~Supported(f.id) /\ f.idx < e.idx /\ e.block =< f.block + MaxBlocks

\* At the start there is no log behind fromBlock, for the chain carries none.
LEMMA EInit == Init => EInv
<1> SUFFICES ASSUME Init PROVE EInv
  OBVIOUS
<1>1. ChainInv
  BY ChainInitOK DEF Init
<1> QED BY <1>1, LogsTyped DEF Init, EInv, LostOnlyBehindUnsupported, InLoop, LogType, ChainInv

\* A step that stays in the loop, or in front of it, takes no log from the
\* iterator.
LEMMA EKept ==
  ASSUME EInv, UNCHANGED <<chainVars, fromBlock, lastBlock, pending, handled, lifeStart>>,
         pc' \in InLoop => pc \in InLoop,
         pc' \in InLoop \ {"next"} => pc \in InLoop \ {"next"} /\ UNCHANGED ev,
         pc' # "fetch"
  PROVE  EInv'
BY DEF EInv, LostOnlyBehindUnsupported, chainVars, Logs, Log

\* Where a window is left, what is left of it was handled or is behind a log of
\* an unsupported issuer.
LEMMA EReturn ==
  ASSUME TInv, SInv, EInv, pc \in InLoop, \A e \in pending : Behind(e), Return,
         UNCHANGED <<chainVars, handled, lifeStart>>
  PROVE  EInv'
<1>1. /\ fromBlock' = lastBlock + 1 /\ lastBlock \in Nat /\ lastBlock =< final
      /\ fromBlock \in Nat /\ final \in Nat /\ final' = final
  BY NextWindow DEF Return, SInv, chainVars, TInv, TypeOK, ChainInv
<1>2. fromBlock' =< final' + 1
  BY <1>1
<1>3. ASSUME NEW e \in Logs, lifeStart =< e.block, e.block < fromBlock', e \notin handled
      PROVE  Behind(e)
  <2>1. e.block \in Nat
    BY LogsTyped DEF TInv, LogType
  <2>2. CASE e.block < fromBlock
    BY <1>3, <2>2 DEF EInv, LostOnlyBehindUnsupported, Behind
  <2>3. CASE ~ (e.block < fromBlock)
    <3>1. fromBlock =< e.block /\ e.block =< lastBlock
      BY <1>1, <1>3, <2>1, <2>3
    <3> QED BY <1>3, <3>1 DEF EInv
  <2> QED BY <2>2, <2>3
<1>4. LostOnlyBehindUnsupported'
  BY <1>3 DEF LostOnlyBehindUnsupported, Behind, chainVars, Logs, Log
<1> QED BY <1>2, <1>4 DEF EInv, Return, InLoop

\* A log of an unsupported issuer leaves the rest of its window behind it.
LEMMA RestIsBehind ==
  ASSUME TInv, SInv, EInv, pc \in InLoop \ {"next"}, ~Supported(ev.id)
  PROVE  \A e \in pending : Behind(e)
<1> SUFFICES ASSUME NEW e \in pending PROVE Behind(e)
  OBVIOUS
<1>1. ev \in handled /\ ev.idx < e.idx /\ fromBlock =< ev.block
  BY DEF SInv, EInv
<1>2. e.block =< lastBlock /\ lastBlock =< fromBlock + MaxBlocks
  BY DEF SInv, EInv, InLoop
<1>3. /\ e.block \in Nat /\ ev.block \in Nat /\ lastBlock \in Nat /\ fromBlock \in Nat
      /\ MaxBlocks \in Nat
  BY ListenerAssumption DEF TInv, TypeOK, ControlOK, LogType
<1>4. e.block =< ev.block + MaxBlocks
  BY <1>1, <1>2, <1>3
<1> QED BY <1>1, <1>4 DEF Behind

\* A window spans no more than MaxBlocks blocks behind its first.
LEMMA WindowShort ==
  ASSUME DeepEnough, TInv, Sub64(head, BlockWindow) >= fromBlock
  PROVE  WindowEnd(head, fromBlock) =< fromBlock + MaxBlocks
<1>1. /\ head \in Nat /\ final \in Nat /\ fromBlock \in Nat
      /\ head =< MaxHead /\ final >= head - ReorgDepth /\ head >= InitHead - ReorgDepth
  BY DEF TInv, ChainInv, TypeOK
<1>2. /\ BlockWindow \in Nat /\ MaxBlocks \in Nat /\ Modulus \in Nat
      /\ ReorgDepth \in Nat /\ InitHead \in Nat /\ MaxHead \in Nat
      /\ StartFromBlock \in Nat
      /\ StartFromBlock + MaxBlocks + MaxHead + 1 < Modulus
  BY ListenerAssumption, ContractAssumption
<1>3. Sub64(head, BlockWindow) = head - BlockWindow
  BY <1>1, <1>2 DEF Sub64, DeepEnough
<1>4. Add64(fromBlock, MaxBlocks) = fromBlock + MaxBlocks
  BY <1>1, <1>2, <1>3 DEF Add64
<1> QED BY <1>1, <1>2, <1>3, <1>4 DEF WindowEnd

\* Every action keeps what was lost behind logs of unsupported issuers.
LEMMA ENext ==
  ASSUME DeepEnough, "decode" \notin FaultKinds, TInv, SInv, OnChain, EInv, [Next]_vars
  PROVE  EInv'
<1>0. \A e \in Logs : e.block \in Nat
  BY LogsTyped DEF TInv, LogType
<1>1. CASE Start
  <2>1. fromBlock' = lifeStart' /\ fromBlock' \in Nat /\ Logs' = Logs
    BY <1>1, ListenerAssumption DEF Start, TInv, ChainInv, chainVars, Logs, Log
  <2>2. LostOnlyBehindUnsupported'
    BY <1>0, <2>1 DEF LostOnlyBehindUnsupported
  <2> QED BY <1>1, <2>1, <2>2 DEF Start, EInv, InLoop
<1>2. CASE Crash
  <2>1. fromBlock' = 0 /\ lifeStart' = 0 /\ Logs' = Logs /\ final' \in Nat
    BY <1>2 DEF Crash, TInv, ChainInv, chainVars, Logs, Log
  <2>2. LostOnlyBehindUnsupported'
    BY <1>0, <2>1 DEF LostOnlyBehindUnsupported
  <2> QED BY <1>2, <2>1, <2>2 DEF Crash, EInv, InLoop
<1>3. CASE ReadHead
  <2>1. UNCHANGED <<chainVars, fromBlock, pending, handled, lifeStart>> /\ pc = "idle"
    BY <1>3 DEF ReadHead, Fault, bookkeeping
  <2>2. CASE UNCHANGED <<pc, lastBlock>>
    BY <2>1, <2>2, EKept DEF InLoop
  <2>3. CASE /\ Sub64(head, BlockWindow) >= fromBlock
             /\ lastBlock' = WindowEnd(head, fromBlock) /\ pc' = "fetch"
    <3>1. lastBlock' =< fromBlock' + MaxBlocks
      BY <2>1, <2>3, WindowShort
    <3> QED BY <2>1, <2>3, <3>1 DEF EInv, LostOnlyBehindUnsupported, InLoop, chainVars, Logs, Log
  <2> QED BY <1>3, <2>2, <2>3 DEF ReadHead
<1>4. CASE Fetch
  <2>1. UNCHANGED <<chainVars, fromBlock, lifeStart, handled>> /\ pc = "fetch"
    BY <1>4 DEF Fetch, Fault, bookkeeping
  <2>2. /\ LostOnlyBehindUnsupported' /\ (fromBlock =< final + 1 \/ fromBlock =< lifeStart)'
        /\ lastBlock =< fromBlock + MaxBlocks
    BY <2>1 DEF EInv, LostOnlyBehindUnsupported, chainVars, Logs, Log
  <2>3. CASE pc' = "idle"
    BY <2>2, <2>3 DEF EInv, InLoop
  <2>4. CASE /\ pending' = FilterStateUpdated(fromBlock, lastBlock)
             /\ pc' = "next" /\ UNCHANGED lastBlock
    BY <2>1, <2>2, <2>4 DEF EInv, FilterStateUpdated, InLoop, chainVars, Logs, Log
  <2> QED BY <1>4, <2>3, <2>4 DEF Fetch
<1>5. CASE NextEvent
  <2>1. PICK e \in pending : /\ \A f \in pending : e.idx =< f.idx
                            /\ ev' = e /\ pending' = pending \ {e}
                            /\ handled' = handled \union {e}
    BY <1>5 DEF NextEvent
  <2>2. pending' \union handled' = pending \union handled /\ handled \subseteq handled'
    BY <2>1
  <2>3. UNCHANGED <<chainVars, fromBlock, lastBlock, lifeStart>> /\ pc = "next" /\ pc' = "gist"
    BY <1>5 DEF NextEvent
  <2>4. ASSUME NEW f \in pending' PROVE e.idx < f.idx
    <3>1. e \in Logs /\ f \in Logs /\ f # e /\ e.idx =< f.idx
      BY <2>1, <2>3 DEF OnChain, InLoop
    <3>2. e.idx # f.idx
      BY <3>1 DEF Logs, Log
    <3>3. e.idx \in Nat /\ f.idx \in Nat
      BY <3>1, LogsTyped DEF TInv, LogType
    <3> QED BY <3>1, <3>2, <3>3
  <2>5. LostOnlyBehindUnsupported'
    BY <2>2, <2>3 DEF EInv, LostOnlyBehindUnsupported, chainVars, Logs, Log
  <2>6. \A f \in pending : fromBlock =< f.block
    BY <2>3 DEF EInv, InLoop
  <2>7. \A f \in Logs' : fromBlock' =< f.block /\ f.block =< lastBlock' =>
          f \in pending' \union handled'
    BY <2>2, <2>3 DEF EInv, InLoop, chainVars, Logs, Log
  <2> QED BY <2>1, <2>3, <2>4, <2>5, <2>6, <2>7 DEF EInv, InLoop, chainVars
<1>6. CASE EndOfEvents
  <2>1. pending = {}
    BY <1>6 DEF EndOfEvents, Fault
  <2> QED BY <1>6, <2>1, EReturn DEF EndOfEvents, Fault, bookkeeping, InLoop
<1>7. CASE CraftGist \/ CraftState
  BY <1>7, EKept DEF CraftGist, CraftState, Craft, Continue, Fault, bookkeeping, InLoop
<1>8. CASE CheckGist \/ CheckState
  BY <1>8, EKept DEF CheckGist, CheckState, Check, Continue, Fault, bookkeeping, memory, InLoop
<1>9. CASE SendGist \/ SendState
  BY <1>9, EKept DEF SendGist, SendState, Send, Continue, Fault, bookkeeping, InLoop
<1>10. CASE CheckIssuer
  <2>1. CASE Supported(ev.id)
    BY <1>10, <2>1, EKept DEF CheckIssuer, bookkeeping, memory, InLoop
  <2>2. CASE ~Supported(ev.id)
    <3>1. \A e \in pending : Behind(e)
      BY <1>10, <2>2, RestIsBehind DEF CheckIssuer, InLoop
    <3> QED BY <1>10, <2>2, <3>1, EReturn DEF CheckIssuer, bookkeeping, InLoop
  <2> QED BY <2>1, <2>2
<1>11. CASE UNCHANGED <<chainVars, pc, memory, bookkeeping>>
  BY <1>11 DEF EInv, LostOnlyBehindUnsupported, memory, bookkeeping, chainVars, Logs, Log
<1>13. CASE Include \/ PeerCreates \/ UNCHANGED vars
  BY <1>11, <1>13 DEF Include, PeerCreates, vars
<1>12. CASE Chain
  <2>1. UNCHANGED <<pc, fromBlock, lastBlock, pending, ev, handled, lifeStart>>
    BY <1>12 DEF Chain, memory, bookkeeping
  <2>2. /\ final =< final' /\ final \in Nat /\ final' \in Nat
        /\ \A e \in Logs' : e.block \in Nat
    <3>1. final =< final' /\ ChainInv' /\ ChainInv
      BY <1>12, ChainStepOK DEF Chain, TInv
    <3> QED BY <1>12, <3>1, LogsStable DEF ChainInv
  <2>3. \A e \in Logs' : e.block =< final => e \in Logs
    BY <1>12, LogsStable
  <2>4. fromBlock \in Nat /\ lastBlock \in Nat /\ lifeStart \in Nat
    BY DEF TInv, TypeOK
  <2>5. fromBlock' =< final' + 1 \/ fromBlock' =< lifeStart'
    <3>1. fromBlock =< final + 1 \/ fromBlock =< lifeStart
      BY DEF EInv
    <3>2. fromBlock' = fromBlock /\ lifeStart' = lifeStart
      BY <2>1
    <3>3. final =< final' /\ final \in Nat /\ final' \in Nat
      BY <2>2
    <3>4. CASE fromBlock =< final + 1
      <4>1. \A a, f, g \in Nat : a =< f + 1 /\ f =< g => a =< g + 1
        OBVIOUS
      <4>2. fromBlock =< final' + 1
        BY <2>4, <3>3, <3>4, <4>1
      <4> QED BY <3>2, <4>2
    <3> QED BY <3>1, <3>2, <3>4
  <2>6. ASSUME NEW e \in Logs', lifeStart =< e.block, e.block < fromBlock, e \notin handled
        PROVE  Behind(e)
    <3>1. e.block =< final
      BY <2>2, <2>4, <2>6 DEF EInv
    <3> QED BY <2>3, <2>6, <3>1 DEF EInv, LostOnlyBehindUnsupported, Behind
  <2>7. LostOnlyBehindUnsupported'
    BY <2>1, <2>6 DEF LostOnlyBehindUnsupported, Behind
  <2>8. ASSUME pc \in InLoop, NEW e \in Logs', fromBlock =< e.block, e.block =< lastBlock
        PROVE  e \in pending \union handled
    <3>1. e.block =< final
      BY <2>2, <2>4, <2>8 DEF SInv
    <3> QED BY <2>3, <2>8, <3>1 DEF EInv
  <2> QED BY <2>1, <2>5, <2>7, <2>8 DEF EInv
<1> QED BY <1>1, <1>2, <1>3, <1>4, <1>5, <1>6, <1>7, <1>8, <1>9, <1>10, <1>12, <1>13
        DEF Next, Subscription

\* A log is lost only behind one of an unsupported issuer, and no further than
\* its window reaches, whichever calls fail and however the chain is
\* reorganised, as long as every log can be decoded.
THEOREM LossBounded ==
  ASSUME DeepEnough, "decode" \notin FaultKinds
  PROVE  Spec => []LostOnlyBehindUnsupported
<1>1. Spec => [](TInv /\ SInv /\ OnChain)
  BY HandledOnChain
<1>2. TInv /\ SInv /\ OnChain /\ EInv /\ [Next]_vars => EInv'
  BY ENext
<1>3. EInv => LostOnlyBehindUnsupported
  BY DEF EInv
<1> QED BY <1>1, <1>2, <1>3, EInit, PTL DEF Spec

\* fromBlock never passes a log that was not handled, as long as the filter of
\* issuers is off besides: then every issuer is supported.
THEOREM NoEventLost == ASSUME DeepEnough, NoneDropped PROVE Spec => []NoEventSkipped
<1>1. Spec => []LostOnlyBehindUnsupported
  BY LossBounded DEF NoneDropped
<1>2. LostOnlyBehindUnsupported => NoEventSkipped
  BY DEF LostOnlyBehindUnsupported, NoEventSkipped, Supported, NoneDropped
<1> QED BY <1>1, <1>2, PTL

-----------------------------------------------------------------------------
\* What was reported of history t in block b.
BlockReported(t, b) == \E op \in Reported : op.tree = t /\ op.block = b

\* The operation at hand is of the block and the history of the log at hand,
\* whose GIST operation is with the broadcaster before its state is looked at.
AtHand ==
  /\ pc \in {"checkGist", "sendGist"} => msg.tree = Gist /\ msg.block = ev.block
  /\ pc \in {"issuer", "state", "checkState", "sendState"} => BlockReported(Gist, ev.block)
  /\ pc \in {"checkState", "sendState"} => msg.tree = ev.id /\ msg.block = ev.block

\* Other oracles report only GIST roots by themselves; for their states they
\* make the promise this one makes.
GistPeers == PeerTrees \subseteq {Gist}

\* What is reported stays so, and only a broadcast or another saver adds to it.
LEMMA NewReports ==
  ASSUME [Next]_vars
  PROVE  /\ Reported \subseteq Reported'
         /\ \/ Reported' = Reported
            \/ (SendGist \/ SendState) /\ Reported' = Reported \union {msg}
            \/ PeerCreates
<1>1. CASE SendGist \/ SendState
  BY <1>1 DEF SendGist, SendState, Send, Reported
<1>2. CASE PeerCreates
  BY <1>2 DEF PeerCreates, Reported
<1>3. CASE Include
  BY <1>3 DEF Include, Reported
<1>4. CASE UNCHANGED coreVars
  BY <1>4 DEF coreVars, Reported
<1>5. CASE Start \/ Crash \/ ReadHead \/ Fetch \/ NextEvent \/ EndOfEvents \/ CraftGist
           \/ CheckGist \/ CheckIssuer \/ CraftState \/ CheckState \/ Chain \/ UNCHANGED vars
  BY <1>4, <1>5 DEF Start, Crash, ReadHead, Fetch, NextEvent, EndOfEvents, CraftGist,
     CheckGist, CheckIssuer, CraftState, CheckState, Craft, Check, Chain, vars
<1> QED BY <1>1, <1>2, <1>3, <1>5 DEF Next, Subscription

\* What is crafted for a log is of its block.
LEMMA ACraft ==
  ASSUME TInv, NEW t \in Trees, NEW next, Craft(t, next)
  PROVE  \/ pc' = "next"
         \/ pc' = next /\ msg'.tree = t /\ msg'.block = ev.block /\ UNCHANGED ev
<1>1. CASE pc' # "next"
  <2>1. /\ Lookup(hist[t], ev.block) # NotFound /\ msg' = OpAt(t, Lookup(hist[t], ev.block))
        /\ pc' = next /\ UNCHANGED ev
    BY <1>1 DEF Craft, Continue
  <2>2. hist[t][Lookup(hist[t], ev.block)].block = ev.block
    BY <2>1, LookupInHistory DEF TInv
  <2> QED BY <2>1, <2>2 DEF OpAt
<1> QED BY <1>1

\* Every step keeps the operation at hand with the log at hand.
LEMMA AtHandNext == ASSUME TInv, AtHand, [Next]_vars PROVE AtHand'
<1>0. Reported \subseteq Reported'
  BY NewReports
<1>1. CASE UNCHANGED <<pc, ev, msg>>
  BY <1>0, <1>1 DEF AtHand, BlockReported
<1>2. CASE pc' \in {"idle", "down", "fetch", "next", "gist"}
  BY <1>2 DEF AtHand
<1>3. CASE Start \/ Crash \/ Fetch \/ NextEvent \/ EndOfEvents \/ SendState
  BY <1>2, <1>3 DEF Start, Crash, Fetch, NextEvent, EndOfEvents, Return, SendState, Send, Continue
<1>4. CASE ReadHead
  BY <1>1, <1>2, <1>4 DEF ReadHead
<1>5. CASE CraftGist
  <2>1. pc' = "next" \/ (pc' = "checkGist" /\ msg'.tree = Gist /\ msg'.block = ev'.block)
    <3>1. Gist \in Trees
      BY DEF Trees
    <3> QED BY <1>5, <3>1, ACraft DEF CraftGist
  <2> QED BY <2>1 DEF AtHand
<1>6. CASE CraftState
  <2>1. pc = "state" /\ ev.id \in Trees
    BY <1>6 DEF CraftState, TInv, ControlOK, LogType, InLoop
  <2>2. \/ pc' = "next"
        \/ pc' = "checkState" /\ msg'.tree = ev.id /\ msg'.block = ev.block /\ UNCHANGED ev
    BY <1>6, <2>1, ACraft DEF CraftState
  <2> QED BY <1>0, <2>1, <2>2 DEF AtHand, BlockReported
<1>7. CASE CheckGist \/ CheckState
  <2>1. \/ pc' = "next"
        \/ pc = "checkGist" /\ pc' = "sendGist" /\ UNCHANGED <<ev, msg>>
        \/ pc = "checkState" /\ pc' = "sendState" /\ UNCHANGED <<ev, msg>>
    BY <1>7 DEF CheckGist, CheckState, Check, Continue, memory
  <2> QED BY <1>0, <2>1 DEF AtHand, BlockReported
<1>8. CASE SendGist
  <2>1. pc' = "next" \/ (pc' = "issuer" /\ UNCHANGED ev /\ msg \in Reported')
    BY <1>8 DEF SendGist, Send, Continue, Reported
  <2>2. msg.tree = Gist /\ msg.block = ev.block
    BY <1>8 DEF SendGist, AtHand
  <2> QED BY <2>1, <2>2 DEF AtHand, BlockReported
<1>9. CASE CheckIssuer
  <2>1. pc = "issuer" /\ (pc' = "idle" \/ (pc' = "state" /\ UNCHANGED ev))
    BY <1>9 DEF CheckIssuer, Return, memory
  <2> QED BY <1>0, <2>1 DEF AtHand, BlockReported
<1>10. CASE Include \/ PeerCreates \/ Chain \/ UNCHANGED vars
  BY <1>1, <1>10 DEF Include, PeerCreates, Chain, vars, memory
<1> QED BY <1>3, <1>4, <1>5, <1>6, <1>7, <1>8, <1>9, <1>10 DEF Next, Subscription

\* Every step keeps the order of the two reports.
LEMMA ANext ==
  ASSUME GistPeers, AtHand, StateAfterGist, [Next]_vars
  PROVE  StateAfterGist'
<1>1. CASE Reported' = Reported
  BY <1>1 DEF StateAfterGist
<1>2. ASSUME NEW op, Reported' = Reported \union {op},
             op.tree # Gist => BlockReported(Gist, op.block)
      PROVE  StateAfterGist'
  BY <1>2 DEF StateAfterGist, BlockReported
<1>3. CASE (SendGist \/ SendState) /\ Reported' = Reported \union {msg}
  <2>1. msg.tree # Gist => BlockReported(Gist, msg.block)
    BY <1>3 DEF SendGist, SendState, AtHand
  <2> QED BY <1>2, <1>3, <2>1
<1>4. CASE PeerCreates
  <2>1. PICK t \in PeerTrees : \E k \in GenesisLen + 1 .. Len(hist[t]) :
          ops' = ops \union {OpAt(t, k)}
    BY <1>4 DEF PeerCreates
  <2>2. PICK op : op.tree = Gist /\ Reported' = Reported \union {op}
    BY <1>4, <2>1 DEF PeerCreates, Reported, OpAt, GistPeers
  <2> QED BY <1>2, <2>2
<1> QED BY <1>1, <1>3, <1>4, NewReports

\* A state is reported after a root of its block.
THEOREM RootsComeFirst == ASSUME GistPeers PROVE Spec => []StateAfterGist
<1>1. Spec => []TInv
  BY TInit, TNext, PTL DEF Spec
<1>2. Init => AtHand /\ StateAfterGist
  BY DEF Init, AtHand, StateAfterGist, Reported
<1>3. TInv /\ AtHand /\ [Next]_vars => AtHand'
  BY AtHandNext
<1>4. AtHand /\ StateAfterGist /\ [Next]_vars => StateAfterGist'
  BY ANext
<1> QED BY <1>1, <1>2, <1>3, <1>4, PTL DEF Spec
-----------------------------------------------------------------------------
\* What is relayed when no lookup and no broadcast fails and every history is
\* longer than a page when the first log is made.
Reliable ==
  /\ {"lookup", "broadcast"} \intersect FaultKinds = {}
  /\ StatesPerRequest # 0
  /\ GenesisLen > StatesPerRequest

\* The part of the loop body before the GIST operation is with the broadcaster.
GistPart == {"gist", "checkGist", "sendGist"}

\* Every log handled has its block reported, but for the one at hand.
BInv == \A e \in handled : BlockReported(Gist, e.block) \/ (e = ev /\ pc \in GistPart)

\* The two lookups for a log on the chain find something: neither entry is among
\* those no page covers.
LEMMA LookupsFind ==
  ASSUME Reliable, TInv, Paired(hist), ev \in Logs
  PROVE  /\ Lookup(hist[Gist], ev.block) # NotFound
         /\ ev.id \in Issuers /\ Lookup(hist[ev.id], ev.block) # NotFound
<1>1. PICK k \in GenesisLen + 1 .. Len(hist[Gist]) : ev = Log(k)
  BY DEF Logs
<1>2. ev.block = hist[Gist][k].block /\ ev.id = hist[Gist][k].id
  BY <1>1 DEF Log
<1>3. /\ StatesPerRequest \in Nat /\ StatesPerRequest \notin {0, 1}
      /\ GenesisLen \in Nat /\ GenesisLen > StatesPerRequest
  BY PageAssumption, ListenerAssumption, ContractAssumption DEF Reliable
<1>4. ASSUME NEW t \in Trees, NEW m \in GenesisLen + 1 .. Len(hist[t]),
             hist[t][m].block = ev.block
      PROVE  Lookup(hist[t], ev.block) # NotFound
  <2>1. hist[t] \in Seq(EntryOf(t)) /\ Len(hist[t]) \in Nat
    BY LenProperties DEF TInv, ChainInv, HistOK
  <2>2. m \in StatesPerRequest + 2 .. Len(hist[t])
    BY <1>3, <2>1
  <2> QED BY <1>3, <1>4, <2>1, <2>2, LookupComplete
<1>5. ev.id \in Issuers /\ \E m \in GenesisLen + 1 .. Len(hist[ev.id]) :
                             hist[ev.id][m].block = ev.block
  BY <1>2 DEF Paired
<1>6. ev.id \in Trees /\ Gist \in Trees
  BY <1>5 DEF Trees
<1> QED BY <1>2, <1>4, <1>5, <1>6

\* What was reported stays reported.
LEMMA StaysReported ==
  ASSUME [Next]_vars, NEW t, NEW b, BlockReported(t, b)
  PROVE  BlockReported(t, b)'
BY NewReports DEF BlockReported

\* Every step keeps the blocks handled among the ones reported.
LEMMA BNext ==
  ASSUME Reliable, TInv, SInv, OnChain, Paired(hist), AtHand, BInv, [Next]_vars
  PROVE  BInv'
<1>1. \A e \in handled : BlockReported(Gist, e.block) => BlockReported(Gist, e.block)'
  BY StaysReported
<1>2. CASE pc \notin GistPart /\ handled' \subseteq handled
  BY <1>1, <1>2 DEF BInv
<1>3. ASSUME UNCHANGED <<ev, handled>>, pc' \in GistPart PROVE BInv'
  BY <1>1, <1>3 DEF BInv
<1>4. ASSUME UNCHANGED handled, NEW op \in Reported', op.tree = Gist, op.block = ev.block
      PROVE  BInv'
  BY <1>1, <1>4 DEF BInv, BlockReported
<1>5. CASE Start \/ Crash
  BY <1>5 DEF Start, Crash, BInv
<1>6. CASE ReadHead \/ Fetch \/ EndOfEvents \/ CheckIssuer
  BY <1>2, <1>6 DEF ReadHead, Fetch, EndOfEvents, CheckIssuer, Fault, bookkeeping, GistPart
<1>13. CASE CraftState \/ CheckState \/ SendState
  BY <1>2, <1>13 DEF CraftState, CheckState, SendState, Craft, Check, Send, Fault,
     bookkeeping, GistPart
<1>7. CASE NextEvent
  <2>1. pc \notin GistPart /\ pc' \in GistPart /\ handled' = handled \union {ev'}
    BY <1>7 DEF NextEvent, GistPart
  <2> QED BY <1>1, <2>1 DEF BInv
<1>8. CASE CraftGist
  <2>1. ev \in Logs
    BY <1>8 DEF CraftGist, SInv, OnChain, InLoop
  <2>2. UNCHANGED <<ev, handled>> /\ pc' = "checkGist"
    BY <1>8, <2>1, LookupsFind DEF CraftGist, Craft, Fault, bookkeeping, Reliable
  <2> QED BY <1>3, <2>2 DEF GistPart
<1>9. CASE CheckGist
  <2>1. CASE msg \in ops
    <3>1. msg \in Reported' /\ msg.tree = Gist /\ msg.block = ev.block
      BY <1>9, <2>1, NewReports DEF CheckGist, AtHand, Reported
    <3> QED BY <1>4, <1>9, <3>1 DEF CheckGist, Check, Fault, bookkeeping
  <2>2. CASE msg \notin ops
    BY <1>3, <1>9, <2>2 DEF CheckGist, Check, Fault, bookkeeping, memory, GistPart
  <2> QED BY <2>1, <2>2
<1>10. CASE SendGist
  <2>1. UNCHANGED <<ev, handled>> /\ msg \in Reported'
    BY <1>10 DEF SendGist, Send, Fault, bookkeeping, Reported, Reliable
  <2>2. msg.tree = Gist /\ msg.block = ev.block
    BY <1>10 DEF SendGist, AtHand
  <2> QED BY <1>4, <2>1, <2>2
<1>11. CASE UNCHANGED <<pc, ev, handled>>
  BY <1>1, <1>11 DEF BInv
<1>12. CASE Include \/ PeerCreates \/ Chain \/ UNCHANGED vars
  BY <1>11, <1>12 DEF Include, PeerCreates, Chain, vars, memory, bookkeeping
<1> QED BY <1>5, <1>6, <1>7, <1>8, <1>9, <1>10, <1>12, <1>13 DEF Next, Subscription

\* Every block a log was handled of has a root reported.
LEMMA BlocksReported == ASSUME DeepEnough, Reliable PROVE Spec => []BInv
<1>1. Init => AtHand /\ BInv
  BY DEF Init, AtHand, BInv
<1>2. TInv /\ AtHand /\ [Next]_vars => AtHand'
  BY AtHandNext
<1>3. TInv /\ SInv /\ OnChain /\ Paired(hist) /\ AtHand /\ BInv /\ [Next]_vars => BInv'
  BY BNext
<1> QED BY <1>1, <1>2, <1>3, HandledOnChain, PTL DEF Spec

\* No block is left out, whatever crashes, whoever else reports, and however
\* many transitions it carries: a root of every block a log was handled of is
\* reported.
THEOREM EveryBlockRelayed == ASSUME DeepEnough, Reliable PROVE Spec => []BlocksRelayed
<1>1. Spec => []BInv
  BY BlocksReported
<1>2. BInv => BlocksRelayed
  BY DEF BInv, BlocksRelayed, BlockReported
<1> QED BY <1>1, <1>2, PTL
-----------------------------------------------------------------------------
\* Where no block carries two transitions, block numbers stay names of entries.
LEMMA OneNext ==
  ASSUME TxPerBlock = 1, TInv, OnePerBlock(hist), [Next]_vars
  PROVE  OnePerBlock(hist')
<1>1. CASE ContractNext
  BY <1>1, BlocksStayUnique DEF TInv
<1>2. CASE UNCHANGED hist
  BY <1>2
<1> QED BY <1>1, <1>2, HistMoves

\* Then a genuine operation is known by its history and its block.
LEMMA KnownByBlock ==
  ASSUME TInv, OnePerBlock(hist), NEW t \in Trees,
         NEW k \in GenesisLen + 1 .. Len(hist[t]),
         NEW op, Genuine(op), op.tree = t, op.block = hist[t][k].block
  PROVE  op.new = hist[t][k].val
<1>1. PICK j \in 2 .. Len(hist[t]) : op = OpAt(t, j)
  BY DEF Genuine
<1>2. Len(hist[t]) \in Nat
  BY LenProperties DEF TInv, ChainInv, HistOK
<1>3. j \in 1 .. Len(hist[t]) /\ hist[t][j].block = hist[t][k].block
  BY <1>1, <1>2 DEF OpAt
<1>4. j = k
  BY <1>3 DEF OnePerBlock
<1> QED BY <1>1, <1>4 DEF OpAt

\* And so is a log.
LEMMA OneLog ==
  ASSUME TInv, OnePerBlock(hist), NEW e \in Logs, NEW f \in Logs, e.block = f.block
  PROVE  e = f
<1>1. PICK j \in GenesisLen + 1 .. Len(hist[Gist]) : e = Log(j)
  BY DEF Logs
<1>2. PICK k \in GenesisLen + 1 .. Len(hist[Gist]) : f = Log(k)
  BY DEF Logs
<1>3. Gist \in Trees /\ GenesisLen \in Nat /\ Len(hist[Gist]) \in Nat
  BY ContractAssumption, LenProperties DEF TInv, ChainInv, HistOK, Trees
<1>4. j \in 1 .. Len(hist[Gist]) /\ hist[Gist][j].block = hist[Gist][k].block
  BY <1>1, <1>2, <1>3 DEF Log
<1>5. j = k
  BY <1>3, <1>4 DEF OnePerBlock
<1> QED BY <1>1, <1>2, <1>5

\* The entry in its issuer's history of the transition that emitted a log.
LEMMA StateOfLog ==
  ASSUME TInv, Paired(hist), NEW e \in Logs
  PROVE  /\ e.id \in Issuers
         /\ \E m \in GenesisLen + 1 .. Len(hist[e.id]) :
              hist[e.id][m].block = e.block /\ hist[e.id][m].val = e.root[e.id]
<1>1. PICK k \in GenesisLen + 1 .. Len(hist[Gist]) : e = Log(k)
  BY DEF Logs
<1>2. e.id = hist[Gist][k].id /\ e.block = hist[Gist][k].block /\ e.root = hist[Gist][k].val
  BY <1>1 DEF Log
<1> QED BY <1>2 DEF Paired

\* The chain keeps to one transition a block.
LEMMA BlocksName == ASSUME TxPerBlock = 1 PROVE Spec => [](TInv /\ OnePerBlock(hist))
<1>1. Init => OnePerBlock(hist)
  BY PairedInit DEF Init
<1>2. TInv /\ OnePerBlock(hist) /\ [Next]_vars => OnePerBlock(hist)'
  BY OneNext DEF OnePerBlock
<1> QED BY <1>1, <1>2, TInit, TNext, PTL DEF Spec

\* The root of every log handled to the end was reported, provided that no block
\* carries two transitions: of two, the lookup finds the same one for both logs.
THEOREM EveryRootRelayed ==
  ASSUME DeepEnough, Reliable, TxPerBlock = 1
  PROVE  Spec => []GistsRelayed
<1>1. ASSUME TInv, SInv, OnChain, OnePerBlock(hist), BInv PROVE GistsRelayed
  <2> SUFFICES ASSUME NEW e \in handled \ {ev}
               PROVE  \E op \in Reported : op.tree = Gist /\ op.new = e.root
    BY DEF GistsRelayed
  <2>1. PICK op \in Reported : op.tree = Gist /\ op.block = e.block
    BY <1>1 DEF BInv, BlockReported
  <2>2. e \in Logs
    BY <1>1 DEF OnChain
  <2>3. PICK k \in GenesisLen + 1 .. Len(hist[Gist]) : e = Log(k)
    BY <2>2 DEF Logs
  <2>4. e.block = hist[Gist][k].block /\ e.root = hist[Gist][k].val
    BY <2>3 DEF Log
  <2>5. Genuine(op) /\ Gist \in Trees
    BY <1>1 DEF SInv, OperationsAreFinal, Trees
  <2>6. op.new = e.root
    BY <1>1, <2>1, <2>4, <2>5, KnownByBlock
  <2> QED BY <2>1, <2>6
<1> QED BY <1>1, HandledOnChain, BlocksName, BlocksReported, PTL

-----------------------------------------------------------------------------
\* Nobody but this life of the process reports a root.
Alone == MaxCrashes = 0 /\ Gist \notin PeerTrees

\* Every root reported was reported for a log handled before the one at hand,
\* and no log is handled again.
OInv ==
  /\ pc \in InLoop => pending \intersect handled = {}
  /\ \A op \in Reported : op.tree = Gist =>
       \E e \in handled : e.block = op.block /\ (pc \in GistPart => e # ev)

\* Every log handled has its state reported, when its issuer is supported, but
\* for the one at hand.
StInv ==
  \A e \in handled : Supported(e.id) =>
    BlockReported(e.id, e.block) \/ (e = ev /\ pc \in InLoop \ {"next"})

\* Every step keeps the roots reported among those of logs handled.
LEMMA ONext ==
  ASSUME Alone, DeepEnough, TInv, SInv, HandledBehind, AtHand, OInv, [Next]_vars
  PROVE  OInv'
<1>1. CASE SendGist \/ SendState
  <2>1. /\ Reported' \subseteq Reported \union {msg} /\ UNCHANGED <<pending, handled>>
        /\ pc' \notin GistPart
    BY <1>1 DEF SendGist, SendState, Send, Continue, Fault, bookkeeping, Reported, GistPart
  <2>2. ev \in handled /\ msg.block = ev.block /\ pc \in InLoop
    BY <1>1 DEF SendGist, SendState, SInv, AtHand, InLoop
  <2> QED BY <2>1, <2>2 DEF OInv
<1>2. CASE PeerCreates
  <2>1. PICK t \in PeerTrees : \E k \in GenesisLen + 1 .. Len(hist[t]) :
          ops' = ops \union {OpAt(t, k)}
    BY <1>2 DEF PeerCreates
  <2>2. PICK op : op.tree # Gist /\ Reported' = Reported \union {op}
    BY <1>2, <2>1 DEF PeerCreates, Reported, OpAt, Alone
  <2>3. UNCHANGED <<pc, ev, pending, handled>>
    BY <1>2 DEF PeerCreates, memory, bookkeeping
  <2> QED BY <2>2, <2>3 DEF OInv
<1>3. ASSUME Reported' = Reported, UNCHANGED <<pending, handled>>,
             pc' \in InLoop => pc \in InLoop,
             pc' \in GistPart => pc \in GistPart /\ UNCHANGED ev
      PROVE  OInv'
  BY <1>3 DEF OInv
<1>4. ASSUME Reported' = Reported, UNCHANGED handled, pc' \notin InLoop PROVE OInv'
  BY <1>4 DEF OInv, GistPart, InLoop
<1>5. CASE Start
  <2>1. Reported' = Reported /\ handled = {} /\ handled' = {} /\ pc' \notin InLoop
    BY <1>5 DEF Start, HandledBehind, coreVars, Reported, InLoop
  <2> QED BY <1>4, <2>1
<1>6. CASE Crash
  BY <1>6 DEF Crash, Alone, TInv, TypeOK
<1>7. CASE ReadHead
  BY <1>3, <1>7 DEF ReadHead, Fault, bookkeeping, coreVars, Reported, GistPart, InLoop
<1>8. CASE Fetch
  <2>1. Reported' = Reported /\ UNCHANGED handled
    BY <1>8 DEF Fetch, Fault, bookkeeping, coreVars, Reported
  <2>2. CASE pc' = "idle"
    BY <1>4, <2>1, <2>2 DEF InLoop
  <2>3. CASE pc' = "next" /\ pending' = FilterStateUpdated(fromBlock, lastBlock)
    <3>1. ASSUME NEW e \in pending', e \in handled PROVE FALSE
      <4>1. fromBlock =< e.block /\ e.block < fromBlock
        BY <1>8, <2>3, <3>1 DEF Fetch, FilterStateUpdated, HandledBehind
      <4>2. e.block \in Nat /\ fromBlock \in Nat
        BY <3>1 DEF TInv, TypeOK, LogType
      <4> QED BY <4>1, <4>2
    <3> QED BY <2>1, <2>3, <3>1 DEF OInv, GistPart
  <2> QED BY <1>8, <2>2, <2>3 DEF Fetch
<1>9. CASE NextEvent
  <2>1. PICK e \in pending : ev' = e /\ pending' = pending \ {e} /\ handled' = handled \union {e}
    BY <1>9 DEF NextEvent
  <2>2. Reported' = Reported /\ pc \in InLoop
    BY <1>9 DEF NextEvent, coreVars, Reported, InLoop
  <2>3. e \notin handled
    BY <2>1, <2>2 DEF OInv
  <2> QED BY <2>1, <2>2, <2>3 DEF OInv
<1>10. CASE EndOfEvents
  BY <1>4, <1>10 DEF EndOfEvents, Return, Fault, bookkeeping, coreVars, Reported, InLoop
<1>11. CASE CraftGist \/ CraftState
  BY <1>3, <1>11 DEF CraftGist, CraftState, Craft, Continue, Fault, bookkeeping, coreVars,
     Reported, GistPart, InLoop
<1>12. CASE CheckGist \/ CheckState
  BY <1>3, <1>12 DEF CheckGist, CheckState, Check, Continue, Fault, bookkeeping, memory,
     coreVars, Reported, GistPart, InLoop
<1>13. CASE CheckIssuer
  <2>1. Reported' = Reported /\ UNCHANGED handled /\ pc = "issuer"
    BY <1>13 DEF CheckIssuer, bookkeeping, coreVars, Reported
  <2>2. CASE pc' = "state" /\ UNCHANGED memory
    BY <1>3, <2>1, <2>2 DEF memory, GistPart, InLoop
  <2>3. CASE Return
    BY <1>4, <2>1, <2>3 DEF Return, InLoop
  <2> QED BY <1>13, <2>2, <2>3 DEF CheckIssuer
<1>14. CASE Include \/ Chain \/ UNCHANGED vars
  BY <1>3, <1>14 DEF Include, Chain, vars, memory, bookkeeping, coreVars, Reported
<1> QED BY <1>1, <1>2, <1>5, <1>6, <1>7, <1>8, <1>9, <1>10, <1>11, <1>12, <1>13, <1>14
        DEF Next, Subscription

\* So the root of the log at hand is never found in core, and its state is always
\* looked at: every step keeps the states handled among the ones reported.
LEMMA StNext ==
  ASSUME Reliable, TInv, SInv, OnChain, Paired(hist), OnePerBlock(hist), AtHand, OInv,
         StInv, [Next]_vars
  PROVE  StInv'
<1> DEFINE InBody == InLoop \ {"next"}
<1>1. \A e \in handled : BlockReported(e.id, e.block) => BlockReported(e.id, e.block)'
  BY StaysReported
<1>2. CASE pc \notin InBody /\ handled' \subseteq handled
  BY <1>1, <1>2 DEF StInv
<1>3. ASSUME UNCHANGED <<ev, handled>>, pc' \in InBody PROVE StInv'
  BY <1>1, <1>3 DEF StInv
<1>4. ASSUME UNCHANGED handled, NEW op \in Reported', op.tree = ev.id, op.block = ev.block
      PROVE  StInv'
  BY <1>1, <1>4 DEF StInv, BlockReported
<1>5. pc \in InBody => ev \in Logs /\ ev \in handled
  BY DEF SInv, OnChain
<1>6. CASE Start \/ Crash
  BY <1>6 DEF Start, Crash, StInv
<1>7. CASE ReadHead \/ Fetch \/ EndOfEvents
  BY <1>2, <1>7 DEF ReadHead, Fetch, EndOfEvents, Fault, bookkeeping, InLoop
<1>8. CASE NextEvent
  <2>1. pc \notin InBody /\ pc' \in InBody /\ handled' = handled \union {ev'}
    BY <1>8 DEF NextEvent, InLoop
  <2> QED BY <1>1, <2>1 DEF StInv
<1>9. CASE CraftGist
  <2>1. UNCHANGED <<ev, handled>> /\ pc' = "checkGist"
    BY <1>5, <1>9, LookupsFind DEF CraftGist, Craft, Fault, bookkeeping, Reliable, InLoop
  <2> QED BY <1>3, <2>1 DEF InLoop
<1>10. CASE CheckGist
  <2>1. msg \notin ops
    <3>1. SUFFICES ASSUME msg \in ops PROVE FALSE
      OBVIOUS
    <3>2. msg \in Reported /\ msg.tree = Gist /\ msg.block = ev.block
      BY <1>10, <3>1 DEF CheckGist, AtHand, Reported
    <3>3. PICK e \in handled : e.block = msg.block /\ e # ev
      BY <1>10, <3>2 DEF CheckGist, OInv, GistPart
    <3>4. e \in Logs /\ ev \in Logs /\ e.block = ev.block
      BY <1>5, <1>10, <3>2, <3>3 DEF CheckGist, OnChain, InLoop
    <3> QED BY <3>3, <3>4, OneLog
  <2>2. UNCHANGED <<ev, handled>> /\ pc' = "sendGist"
    BY <1>10, <2>1 DEF CheckGist, Check, Fault, bookkeeping, memory
  <2> QED BY <1>3, <2>2 DEF InLoop
<1>11. CASE SendGist
  <2>1. UNCHANGED <<ev, handled>> /\ pc' = "issuer"
    BY <1>11 DEF SendGist, Send, Fault, bookkeeping, Reliable
  <2> QED BY <1>3, <2>1 DEF InLoop
<1>12. CASE CheckIssuer
  <2>1. UNCHANGED handled
    BY <1>12 DEF CheckIssuer, bookkeeping
  <2>2. CASE Supported(ev.id)
    BY <1>3, <1>12, <2>1, <2>2 DEF CheckIssuer, memory, InLoop
  <2>3. CASE ~Supported(ev.id)
    <3>1. \A e \in handled : Supported(e.id) => BlockReported(e.id, e.block)
      BY <2>3 DEF StInv
    <3> QED BY <1>1, <2>1, <3>1 DEF StInv
  <2> QED BY <2>2, <2>3
<1>13. CASE CraftState
  <2>1. UNCHANGED <<ev, handled>> /\ pc' = "checkState"
    BY <1>5, <1>13, LookupsFind DEF CraftState, Craft, Fault, bookkeeping, Reliable, InLoop
  <2> QED BY <1>3, <2>1 DEF InLoop
<1>14. CASE CheckState
  <2>1. CASE msg \in ops
    <3>1. msg \in Reported' /\ msg.tree = ev.id /\ msg.block = ev.block
      BY <1>14, <2>1, NewReports DEF CheckState, AtHand, Reported
    <3> QED BY <1>4, <1>14, <3>1 DEF CheckState, Check, Fault, bookkeeping
  <2>2. CASE msg \notin ops
    <3>1. UNCHANGED <<ev, handled>> /\ pc' = "sendState"
      BY <1>14, <2>2 DEF CheckState, Check, Fault, bookkeeping, memory
    <3> QED BY <1>3, <3>1 DEF InLoop
  <2> QED BY <2>1, <2>2
<1>15. CASE SendState
  <2>1. UNCHANGED handled /\ msg \in Reported'
    BY <1>15 DEF SendState, Send, Fault, bookkeeping, Reported, Reliable
  <2>2. msg.tree = ev.id /\ msg.block = ev.block
    BY <1>15 DEF SendState, AtHand
  <2> QED BY <1>4, <2>1, <2>2
<1>16. CASE UNCHANGED <<pc, ev, handled>>
  BY <1>1, <1>16 DEF StInv
<1>17. CASE Include \/ PeerCreates \/ Chain \/ UNCHANGED vars
  BY <1>16, <1>17 DEF Include, PeerCreates, Chain, vars, memory, bookkeeping
<1> QED BY <1>6, <1>7, <1>8, <1>9, <1>10, <1>11, <1>12, <1>13, <1>14, <1>15, <1>17
        DEF Next, Subscription

\* The state of every log handled to the end was reported when its issuer is
\* supported, provided that nobody reported the root first: a root that is found
\* in core ends the handling of its log.
THEOREM EveryStateRelayed ==
  ASSUME DeepEnough, Reliable, TxPerBlock = 1, Alone
  PROVE  Spec => []StatesRelayed
<1>1. Init => AtHand /\ HandledBehind /\ OInv /\ StInv
  BY DEF Init, AtHand, HandledBehind, OInv, StInv, Reported, InLoop
<1>2. TInv /\ AtHand /\ [Next]_vars => AtHand'
  BY AtHandNext
<1>3. TInv /\ SInv /\ HandledBehind /\ [Next]_vars => HandledBehind'
  BY HNext
<1>4. TInv /\ SInv /\ HandledBehind /\ AtHand /\ OInv /\ [Next]_vars => OInv'
  BY ONext
<1>5. TInv /\ SInv /\ OnChain /\ Paired(hist) /\ OnePerBlock(hist) /\ AtHand /\ OInv /\ StInv
        /\ [Next]_vars => StInv'
  BY StNext
<1>6. ASSUME TInv, SInv, OnChain, Paired(hist), OnePerBlock(hist), StInv PROVE StatesRelayed
  <2> SUFFICES ASSUME NEW e \in handled \ {ev}, Supported(e.id)
               PROVE  \E op \in Reported : op.tree = e.id /\ op.new = e.root[e.id]
    BY DEF StatesRelayed
  <2>1. PICK op \in Reported : op.tree = e.id /\ op.block = e.block
    BY <1>6 DEF StInv, BlockReported
  <2>2. e \in Logs /\ Genuine(op)
    BY <1>6 DEF OnChain, SInv, OperationsAreFinal
  <2>3. e.id \in Trees
    BY <1>6, <2>2, StateOfLog DEF Trees
  <2>4. PICK m \in GenesisLen + 1 .. Len(hist[e.id]) :
          hist[e.id][m].block = e.block /\ hist[e.id][m].val = e.root[e.id]
    BY <1>6, <2>2, StateOfLog
  <2>5. op.new = hist[e.id][m].val
    BY <1>6, <2>1, <2>2, <2>3, <2>4, KnownByBlock
  <2> QED BY <2>1, <2>4, <2>5
<1> QED BY <1>1, <1>2, <1>3, <1>4, <1>5, <1>6, HandledOnChain, BlocksName, PTL DEF Spec
=============================================================================
