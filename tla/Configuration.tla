---------------------------- MODULE Configuration ----------------------------
(***************************************************************************)
(* internal/config: the sections of the configuration.  A section is read, *)
(* and the client it describes built, when a routine first asks for it, in *)
(* the goroutine of that routine.  A section that cannot be read panics.   *)
(* Each one is a comfig.Once: it keeps what the first call came to, also   *)
(* when that was a panic, after which every later call panics as well.     *)
(*                                                                         *)
(* A routine asks in the order of its code.  Only the first section it     *)
(* still lacks matters, for one that another routine has read in the       *)
(* meantime is there at once.                                              *)
(***************************************************************************)
EXTENDS Naturals, Sequences

VARIABLES
  wrong,     \* the sections that the file lacks or has with a wrong entry
  sections   \* per section: "unread", "read" or "broken"

configVars == <<wrong, sections>>

Embedded == {"log", "listener", "broadcaster", "subscriber", "profiler"}
Sections == {"evm", "cosmos", "core", "state_contract_cfg"} \union Embedded

\* At most one section is wrong: the first one asked for decides.
ConfigInit ==
  /\ wrong \in {{}} \union {{s} : s \in Sections}
  /\ sections = [s \in Sections |-> "unread"]

(***************************************************************************)
(* What a section that is not wrong may come to.  Ethereum dials the node  *)
(* and asks it for the height when start_from_block is 0; Tendermint       *)
(* starts its client, which connects; Cosmos dials without waiting for a   *)
(* connection, and States is values only.                                  *)
(***************************************************************************)
Ethereum == {"read", "broken"}
Cosmos == {"read"}
Tendermint == {"read", "broken"}
States == {"read"}

Outcomes(s) ==
  CASE s \in wrong \/ sections[s] = "broken" -> {"broken"}
    [] s = "evm" -> Ethereum
    [] s = "cosmos" -> Cosmos
    [] s = "core" -> Tendermint
    [] s = "state_contract_cfg" -> States
    [] OTHER -> {"read", "broken"}

\* A call for section s comes to o.
Asked(s, o) ==
  /\ o \in Outcomes(s)
  /\ sections' = [sections EXCEPT ![s] = o]
  /\ UNCHANGED wrong

-----------------------------------------------------------------------------
\* What each routine asks for, in this order.
NewGISTUpdateVerifier == <<"evm", "cosmos", "broadcaster", "state_contract_cfg">>

NewStateUpdateVerifier == <<"evm", "cosmos", "broadcaster", "state_contract_cfg">>

\* (mutation: the verifiers connect to core when they first use it)
VoterNeedsLate == <<"evm", "broadcaster", "state_contract_cfg">>

VoterNeeds ==
  NewGISTUpdateVerifier \o NewStateUpdateVerifier \o <<"evm", "broadcaster">>

CatchupNeeds == <<"cosmos">>

SubscriberNeeds == <<"core", "cosmos", "subscriber">>

APINeeds ==
  <<"cosmos", "listener", "evm", "broadcaster">>
    \o NewStateUpdateVerifier \o NewGISTUpdateVerifier

ListenerNeeds == <<"evm", "state_contract_cfg", "broadcaster", "cosmos">>

RunNeeds == <<"log", "profiler">>

Needs(r) ==
  CASE r = "run" -> RunNeeds
    [] r = "voter" -> VoterNeeds
    [] r = "voter-catchup" -> CatchupNeeds
    [] r \in {"gist", "state"} -> SubscriberNeeds
    [] r = "grpc-api" -> APINeeds
    [] r = "state-change-listener" -> ListenerNeeds

\* Routine r has all it asks for.
Ready(r) == \A k \in 1 .. Len(Needs(r)) : sections[Needs(r)[k]] = "read"

\* The section routine r asks for next, if there is one.
Wanted(r) ==
  {Needs(r)[k] : k \in {n \in 1 .. Len(Needs(r)) :
     /\ sections[Needs(r)[n]] # "read"
     /\ \A j \in 1 .. n - 1 : sections[Needs(r)[j]] = "read"}}
=============================================================================
