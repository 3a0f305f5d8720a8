------------------------------ MODULE StateRelay ------------------------------
(***************************************************************************)
(* What the service promises Rarimo core: the operations in core tell the  *)
(* story of the contract.  An operation is created for a transition of the *)
(* GIST or of an issuer once no reorganisation can take it back, whoever   *)
(* creates it, and it is never withdrawn.                                  *)
(*                                                                         *)
(* StateChangeListener implements this specification.                      *)
(***************************************************************************)
EXTENDS StateContract

VARIABLE ops   \* the operations in Rarimo core

relayVars == <<chainVars, ops>>

Init == ContractInit /\ ops = {}

FinalOps ==
  {op \in UNION {{OpAt(t, k) : k \in 2 .. Len(hist[t])} : t \in Trees} :
     op.block =< final}

Create == \E op \in FinalOps :
  /\ ops' = ops \union {op}
  /\ UNCHANGED chainVars

Chain == ContractNext /\ UNCHANGED ops

Next == Create \/ Chain

Spec == Init /\ [][Next]_relayVars

-----------------------------------------------------------------------------
\* What core was told stays true: the contract still has every transition
\* reported, at the same place, whatever is reorganised later.
OpsStayTrue == \A op \in ops : Genuine(op) /\ op.block =< final
=============================================================================
