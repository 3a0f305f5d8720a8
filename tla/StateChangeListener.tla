------------------------- MODULE StateChangeListener -------------------------
(***************************************************************************)
(* internal/services/evm/stateChangeListener.go: the saver.  Every period  *)
(* it fetches the StateUpdated logs of the next blocks that are deep       *)
(* enough, and for each log crafts, checks and broadcasts one operation    *)
(* on the GIST history and one on the issuer's history.                    *)
(*                                                                         *)
(* One action per call that leaves the process, because the chain, core    *)
(* and the other savers move between two of them.  Every value the saver   *)
(* keeps is in memory: a crash loses all of it.                            *)
(***************************************************************************)
EXTENDS StateContract, StateUpdate

CONSTANTS
  DisableFiltration, IssuerID,  \* the state_contract_cfg section
  StartFromBlock, BlockWindow, MaxBlocks,
  Modulus,       \* 2^64: where uint64 arithmetic wraps
  PeerTrees,     \* histories whose operations other savers may create as well
  FaultKinds,    \* which calls may fail
  MaxFaults, MaxCrashes,  \* bounds on failed calls and on crashes
  None           \* no log, no operation

Faults == {"head", "filter", "decode", "lookup", "query", "broadcast"}

ASSUME ListenerAssumption ==
  /\ DisableFiltration \in BOOLEAN
  /\ StartFromBlock \in Nat /\ BlockWindow \in Nat /\ MaxBlocks \in Nat
  /\ Modulus \in Nat
  /\ StartFromBlock + MaxBlocks + MaxHead + 1 < Modulus
  /\ BlockWindow < Modulus
  /\ PeerTrees \subseteq Trees
  /\ FaultKinds \subseteq Faults
  /\ MaxFaults \in Nat /\ MaxCrashes \in Nat
  /\ StatesPerRequest # 1   \* the lookup never returns (see HistorySearch)

VARIABLES
  pc,         \* where subscription is; "down": no process, "idle": between two
  fromBlock,  \* first block not fetched yet
  lastBlock,  \* end of the window being fetched
  pending,    \* logs the iterator has not yielded yet
  ev,         \* the log being handled
  msg,        \* the operation being checked or broadcast
  inflight,   \* operations accepted by the broadcaster, not yet in core
  ops,        \* operations in Rarimo core
  faults, crashes,  \* how many have happened
  lifeStart,  \* history: where this life of the process began to listen
  handled     \* history: logs this life has taken from the iterator

memory == <<fromBlock, lastBlock, pending, ev, msg>>
coreVars == <<inflight, ops>>
bookkeeping == <<faults, crashes, lifeStart, handled>>
vars == <<chainVars, pc, memory, coreVars, bookkeeping>>

InLoop == {"next", "gist", "checkGist", "sendGist", "issuer",
           "state", "checkState", "sendState"}

\* uint64 subtraction and addition.
Sub64(a, b) == IF a >= b THEN a - b ELSE a - b + Modulus
Add64(a, b) == IF a + b < Modulus THEN a + b ELSE a + b - Modulus

Supported(id) == DisableFiltration \/ id \in IssuerID

\* (mutations: block_window forgotten; the larger of the two ends taken)
WindowEndAtHead(h, from) ==
  LET cap == Add64(from, MaxBlocks)
  IN  IF cap < h THEN cap ELSE h
WindowEndMax(h, from) ==
  LET last == Sub64(h, BlockWindow)
      cap  == Add64(from, MaxBlocks)
  IN  IF cap < last THEN last ELSE cap

\* The window to fetch ends here when the node reports height h.
WindowEnd(h, from) ==
  LET last == Sub64(h, BlockWindow)
      cap  == Add64(from, MaxBlocks)
  IN  IF cap < last THEN cap ELSE last

-----------------------------------------------------------------------------
Init ==
  /\ ContractInit
  /\ pc = "down"
  /\ fromBlock = 0 /\ lastBlock = 0
  /\ pending = {} /\ ev = None /\ msg = None
  /\ inflight = {} /\ ops = {}
  /\ faults = 0 /\ crashes = 0
  /\ lifeStart = 0 /\ handled = {}

\* A call of kind k fails.
Fault(k) ==
  /\ k \in FaultKinds
  /\ faults < MaxFaults
  /\ faults' = faults + 1
  /\ UNCHANGED <<crashes, lifeStart, handled>>

\* The loop body is left with continue.
Continue ==
  /\ pc' = "next"
  /\ ev' = None /\ msg' = None
  /\ UNCHANGED <<fromBlock, lastBlock, pending>>

\* (mutations: End taken for exclusive; fromBlock not moved)
ReturnTo(b) ==
  /\ pc' = "idle"
  /\ fromBlock' = b
  /\ lastBlock' = 0 /\ pending' = {} /\ ev' = None /\ msg' = None
ReturnExclusive == ReturnTo(lastBlock)
ReturnUnmoved == ReturnTo(fromBlock)

\* subscription returns after its defer statement was reached.
Return ==
  /\ pc' = "idle"
  /\ fromBlock' = Add64(lastBlock, 1)
  /\ lastBlock' = 0 /\ pending' = {} /\ ev' = None /\ msg' = None

\* (mutation: start_from_block ignored)
StartAtHead ==
  /\ pc = "down"
  /\ pc' = "idle"
  /\ fromBlock' = head /\ lifeStart' = head
  /\ handled' = {}
  /\ UNCHANGED <<chainVars, lastBlock, pending, ev, msg, coreVars, faults, crashes>>

\* The process starts; a zero start_from_block stands for the current height.
Start ==
  /\ pc = "down"
  /\ pc' = "idle"
  /\ fromBlock' = IF StartFromBlock = 0 THEN head ELSE StartFromBlock
  /\ lifeStart' = fromBlock'
  /\ handled' = {}
  /\ UNCHANGED <<chainVars, lastBlock, pending, ev, msg, coreVars, faults, crashes>>

Crash ==
  /\ pc # "down"
  /\ crashes < MaxCrashes
  /\ crashes' = crashes + 1
  /\ pc' = "down"
  /\ fromBlock' = 0 /\ lastBlock' = 0 /\ pending' = {} /\ ev' = None /\ msg' = None
  /\ handled' = {} /\ lifeStart' = 0
  /\ UNCHANGED <<chainVars, coreVars, faults>>

-----------------------------------------------------------------------------
\* BlockNumber, and the window that follows from it.  A window that ends
\* before its start is skipped: the state does not change.
ReadHead ==
  /\ pc = "idle"
  /\ \/ Fault("head") /\ UNCHANGED <<pc, lastBlock>>
     \/ /\ Sub64(head, BlockWindow) >= fromBlock
        /\ lastBlock' = WindowEnd(head, fromBlock)
        /\ pc' = "fetch"
        /\ UNCHANGED bookkeeping
  /\ UNCHANGED <<chainVars, fromBlock, pending, ev, msg, coreVars>>

\* (mutation: the defer statement precedes the call that may fail)
FetchDeferred ==
  /\ pc = "fetch"
  /\ \/ Fault("filter") /\ Return
     \/ /\ pending' = FilterStateUpdated(fromBlock, lastBlock)
        /\ pc' = "next"
        /\ UNCHANGED <<fromBlock, lastBlock, ev, msg, bookkeeping>>
  /\ UNCHANGED <<chainVars, coreVars>>

\* FilterStateUpdated.  When it fails, subscription returns before the defer
\* statement that moves fromBlock.
Fetch ==
  /\ pc = "fetch"
  /\ \/ /\ Fault("filter")
        /\ pc' = "idle"
        /\ lastBlock' = 0
        /\ UNCHANGED pending
     \/ /\ pending' = FilterStateUpdated(fromBlock, lastBlock)
        /\ pc' = "next"
        /\ UNCHANGED <<lastBlock, bookkeeping>>
  /\ UNCHANGED <<chainVars, fromBlock, ev, msg, coreVars>>

\* (mutation: the GIST part of the loop body left out)
NextEventStateOnly ==
  /\ pc = "next"
  /\ \E e \in pending :
       /\ \A f \in pending : e.idx =< f.idx
       /\ ev' = e
       /\ pending' = pending \ {e}
       /\ handled' = handled \union {e}
  /\ pc' = "issuer"
  /\ UNCHANGED <<chainVars, fromBlock, lastBlock, msg, coreVars, faults, crashes, lifeStart>>

\* The iterator yields the oldest log it has left.
NextEvent ==
  /\ pc = "next"
  /\ \E e \in pending :
       /\ \A f \in pending : e.idx =< f.idx
       /\ ev' = e
       /\ pending' = pending \ {e}
       /\ handled' = handled \union {e}
  /\ pc' = "gist"
  /\ UNCHANGED <<chainVars, fromBlock, lastBlock, msg, coreVars, faults, crashes, lifeStart>>

\* The iterator ends, or gives up on a log it cannot decode: subscription
\* cannot tell the two apart, for it never asks for the iterator's error.
EndOfEvents ==
  /\ pc = "next"
  /\ \/ pending = {} /\ UNCHANGED bookkeeping
     \/ pending # {} /\ Fault("decode")
  /\ Return
  /\ UNCHANGED <<chainVars, coreVars>>

-----------------------------------------------------------------------------
\* GISTUpdateMsgByBlock or StateUpdateMsgByBlock, on history t.
Craft(t, next) ==
  /\ \/ Fault("lookup") /\ Continue
     \/ /\ UNCHANGED bookkeeping
        /\ LET k == Lookup(hist[t], ev.block)
           IN  \/ k = NotFound /\ Continue
               \/ /\ k # NotFound
                  /\ msg' = OpAt(t, k)
                  /\ pc' = next
                  /\ UNCHANGED <<fromBlock, lastBlock, pending, ev>>
  /\ UNCHANGED <<chainVars, coreVars>>

\* (mutation: an operation whose existence could not be checked is skipped)
CheckStrict(next) ==
  /\ \/ msg \in ops /\ Continue /\ UNCHANGED bookkeeping
     \/ Fault("query") /\ Continue
     \/ msg \notin ops /\ pc' = next /\ UNCHANGED <<memory, bookkeeping>>
  /\ UNCHANGED <<chainVars, coreVars>>

\* checkGISTExist or checkStateExist.  A failure counts as "does not exist".
Check(next) ==
  /\ \/ msg \in ops /\ Continue /\ UNCHANGED bookkeeping
     \/ /\ \/ msg \notin ops /\ UNCHANGED bookkeeping
           \/ Fault("query")
        /\ pc' = next
        /\ UNCHANGED memory
  /\ UNCHANGED <<chainVars, coreVars>>

\* BroadcastTx.  A broadcast that is reported as failed may have gone through.
Send(onSuccess) ==
  /\ \/ /\ onSuccess
        /\ inflight' = inflight \union {msg}
        /\ UNCHANGED bookkeeping
     \/ /\ Fault("broadcast")
        /\ inflight' \in {inflight, inflight \union {msg}}
        /\ Continue
  /\ UNCHANGED <<chainVars, ops>>

CraftGist == pc = "gist" /\ Craft(Gist, "checkGist")
CheckGist == pc = "checkGist" /\ Check("sendGist")
SendGist ==
  /\ pc = "sendGist"
  /\ Send(pc' = "issuer" /\ msg' = None
          /\ UNCHANGED <<fromBlock, lastBlock, pending, ev>>)

\* A log of an issuer that is not supported ends the whole subscription.
CheckIssuer ==
  /\ pc = "issuer"
  /\ \/ Supported(ev.id) /\ pc' = "state" /\ UNCHANGED memory
     \/ ~Supported(ev.id) /\ Return
  /\ UNCHANGED <<chainVars, coreVars, bookkeeping>>

CraftState == pc = "state" /\ Craft(ev.id, "checkState")
CheckState == pc = "checkState" /\ Check("sendState")
SendState == pc = "sendState" /\ Send(Continue)

-----------------------------------------------------------------------------
\* Rarimo core includes an operation; operations with the same content are one.
Include ==
  \E op \in inflight :
    /\ inflight' = inflight \ {op}
    /\ ops' = ops \union {op}
    /\ UNCHANGED <<chainVars, pc, memory, bookkeeping>>

\* The saver of another oracle reports a transition in a final block.
PeerCreates ==
  /\ \E t \in PeerTrees : \E k \in GenesisLen + 1 .. Len(hist[t]) :
       /\ hist[t][k].block =< final
       /\ OpAt(t, k) \notin ops
       /\ ops' = ops \union {OpAt(t, k)}
  /\ UNCHANGED <<chainVars, pc, memory, inflight, bookkeeping>>

Chain == ContractNext /\ UNCHANGED <<pc, memory, coreVars, bookkeeping>>

Subscription ==
  \/ ReadHead \/ Fetch \/ NextEvent \/ EndOfEvents
  \/ CraftGist \/ CheckGist \/ SendGist \/ CheckIssuer
  \/ CraftState \/ CheckState \/ SendState

Next == Start \/ Crash \/ Subscription \/ Include \/ PeerCreates \/ Chain

Spec == Init /\ [][Next]_vars

\* The process is restarted, running.WithBackOff calls subscription again and
\* again, every call returns, and core includes what was broadcast.
Fairness == WF_vars(Start) /\ WF_vars(Subscription) /\ WF_vars(Include)

FairSpec == Spec /\ Fairness

-----------------------------------------------------------------------------
(***************************************************************************)
(* Properties                                                              *)
(***************************************************************************)
LogType == [idx : Nat, id : Trees, block : Nat, root : ValueOf(Gist)]
IsOp(op) == \E t \in Trees :
  op \in [tree : {t}, new : ValueOf(t), block : Nat, old : ValueOf(t)]

\* Type invariant.
TypeOK ==
  /\ ChainTypeOK
  /\ pc \in InLoop \union {"down", "idle", "fetch"}
  /\ fromBlock \in Nat /\ lastBlock \in Nat /\ lifeStart \in Nat
  /\ pending \subseteq LogType /\ handled \subseteq LogType
  /\ ev = None \/ ev \in LogType
  /\ msg = None \/ IsOp(msg)
  /\ \A op \in inflight \union ops : IsOp(op)
  /\ faults \in Nat /\ crashes \in Nat

Reported == inflight \union ops

\* Whatever this saver hands to the broadcaster describes a transition that no
\* reorganisation can take back: between the fetch of a log and the broadcast
\* the chain may be reorganised down to the last final block, and the history
\* is read anew, yet the entry found and the one it replaced stay.  The lookup
\* reads the contract at its newest block, not at the block of the log.
OperationsAreFinal ==
  \A op \in Reported : Genuine(op) /\ op.block =< final

\* The saver implements the abstract relay.  An operation counts as created
\* once the broadcaster has it, so that Include does nothing; every other step
\* of the saver, of the chain, of core and of the other savers either creates
\* the operation of a transition that is final or leaves the chain and what was
\* reported alone.
Relay == INSTANCE StateRelay WITH ops <- Reported
ImplementsRelay == Relay!Spec

\* Core never holds two stories: no root and no state was replaced by two
\* others, although the savers of several oracles and several lives of this
\* one write to core, and the history is read again for every operation.
NoFork ==
  \A a, b \in Reported : a.tree = b.tree /\ a.old = b.old => a = b

\* A log is handled only when block_window blocks were created after its block
\* (README.md:28), so that its block is final.
HandledAreFinal == \A e \in handled : e.block =< final

\* fromBlock never passes a log: every log in the blocks between the first one
\* of this life and fromBlock was taken from an iterator, whichever of the
\* calls failed and however the chain was reorganised meanwhile.
NoEventSkipped ==
  \A e \in Logs : lifeStart =< e.block /\ e.block < fromBlock => e \in handled

\* What a log of an unsupported issuer costs, unless a log cannot be decoded: a
\* log that fromBlock passed and that was not handled comes behind such a log,
\* at most max_blocks_per_request blocks later.
LostOnlyBehindUnsupported ==
  \A e \in Logs : lifeStart =< e.block /\ e.block < fromBlock /\ e \notin handled =>
    \E f \in handled : ~Supported(f.id) /\ f.idx < e.idx /\ e.block =< f.block + MaxBlocks

\* No life of the process fetches a block twice: a window starts above every
\* log handled so far.
NoRefetch ==
  [][pc = "fetch" /\ pc' = "next" =>
       \A e \in handled : \A f \in pending' : e.block < f.block]_vars

\* An operation on an issuer's history is broadcast by this saver only after
\* one on the GIST history for the same block.  In which order core takes the two
\* is not said.
StateAfterGist ==
  \A op \in Reported : op.tree # Gist =>
    \E g \in Reported : g.tree = Gist /\ g.block = op.block

\* Every block a log was handled of to the end has a root reported: no crash, no
\* other saver and no second transition of the block makes it be left out.
BlocksRelayed ==
  \A e \in handled \ {ev} :
    \E op \in Reported : op.tree = Gist /\ op.block = e.block

\* The root installed by every log handled to the end was reported.
GistsRelayed ==
  \A e \in handled \ {ev} :
    \E op \in Reported : op.tree = Gist /\ op.new = e.root

\* The state installed by every log handled to the end was reported, when its
\* issuer is supported.
StatesRelayed ==
  \A e \in handled \ {ev} : Supported(e.id) =>
    \E op \in Reported : op.tree = e.id /\ op.new = e.root[e.id]

\* The listener keeps up: a block deep enough is eventually behind it.
CatchesUp ==
  \A b \in 0 .. MaxHead - BlockWindow : (final >= b + BlockWindow) ~> (fromBlock > b)

\* Every GIST root that is deep enough, from start_from_block on, reaches core.
EveryRootReachesCore ==
  \A k \in GenesisLen + 1 .. GenesisLen + TxPerBlock * (MaxHead - InitHead) :
    (/\ k =< Len(hist[Gist])
     /\ hist[Gist][k].block >= StartFromBlock
     /\ hist[Gist][k].block + BlockWindow =< final)
    ~> (k =< Len(hist[Gist]) /\ OpAt(Gist, k) \in ops)
=============================================================================
