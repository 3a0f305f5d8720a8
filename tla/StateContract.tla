---------------------------- MODULE StateContract ----------------------------
(***************************************************************************)
(* The EVM chain with the Iden3 State contract, as the service reads it    *)
(* through the Go bindings of pkg/state.  The contract is not in this      *)
(* repository: its behaviour is what the bindings and their callers rely   *)
(* on.  It keeps one append-only history of GIST roots and one of states   *)
(* per issuer; a state transition appends an entry to both and emits one   *)
(* StateUpdated log.  Blocks that are not yet final may be reorganised     *)
(* away, together with the entries and logs they carried.                  *)
(*                                                                         *)
(* Contract arrays count from 0; the sequences here count from 1.          *)
(***************************************************************************)
EXTENDS Integers, Sequences

CONSTANTS
  Issuers,      \* identities whose states the contract tracks
  Gist,         \* names the global history; every other history is an issuer's
  States,       \* state hashes that transitions may install
  GenesisLen,   \* entries every history has before the model starts
  InitHead,     \* height of the chain when the model starts
  MaxHead,      \* bound on the height
  ReorgDepth,   \* how many blocks under the head a reorganisation may replace
  TxPerBlock    \* bound on the transitions of one block (1 or 2)

ASSUME ContractAssumption ==
  /\ Issuers # {} /\ Gist \notin Issuers
  /\ GenesisLen \in Nat \ {0}
  /\ InitHead \in Nat
  /\ MaxHead \in Nat
  /\ InitHead =< MaxHead
  /\ ReorgDepth \in Nat
  /\ TxPerBlock \in {1, 2}

VARIABLES
  head,    \* height of the newest block of the canonical chain
  final,   \* highest block no reorganisation can replace any more
  hist     \* per history, its entries from the oldest to the newest

chainVars == <<head, final, hist>>

Trees == Issuers \union {Gist}

\* The states of all issuers after issuer i installed state s: what the new
\* GIST root commits to.  Two roots are equal iff they commit to the same.
RootWith(h, i, s) ==
  [j \in Issuers |-> IF j = i THEN s ELSE h[j][Len(h[j])].val]

\* (mutation: two fields of the contract's answer mixed up)
EntrySwapped(v, i, b) == [val |-> i, id |-> v, block |-> b]

Entry(v, i, b) == [val |-> v, id |-> i, block |-> b]

\* The histories h after issuer i transits to state s in block b.
Transited(h, i, s, b) ==
  [h EXCEPT ![i] = Append(@, Entry(s, i, b)),
            ![Gist] = Append(@, Entry(RootWith(h, i, s), i, b))]

\* The contract accepts a state its issuer does not already have.
Fresh(h, i) == {s \in States : \A k \in 1 .. Len(h[i]) : h[i][k].val # s}

MaxOf(a, b) == IF a >= b THEN a ELSE b

-----------------------------------------------------------------------------
ContractInit ==
  /\ head = InitHead
  /\ final = MaxOf(0, InitHead - ReorgDepth)
  /\ hist = [t \in Trees |->
               [k \in 1 .. GenesisLen |->
                  Entry(IF t = Gist THEN [j \in Issuers |-> k] ELSE k, t, 0)]]

\* A block is sealed with the histories h it leaves behind.
Seal(h) ==
  /\ head < MaxHead
  /\ head' = head + 1
  /\ final' = MaxOf(final, head + 1 - ReorgDepth)
  /\ hist' = h

MineEmpty == Seal(hist)

MineOne ==
  \E i \in Issuers : \E s \in Fresh(hist, i) :
    Seal(Transited(hist, i, s, head + 1))

MineTwo ==
  /\ TxPerBlock = 2
  /\ \E i, j \in Issuers : \E s \in Fresh(hist, i) :
       LET h == Transited(hist, i, s, head + 1)
       IN  \E u \in Fresh(h, j) : Seal(Transited(h, j, u, head + 1))

\* How many entries of history h were made in the blocks up to n.
MadeUpTo(h, n) ==
  CHOOSE m \in 0 .. Len(h) : \A k \in 1 .. Len(h) : h[k].block =< n <=> k =< m

\* The blocks above n are replaced; the new ones are mined from n on.
Reorg ==
  \E n \in final .. head - 1 :
    /\ head' = n
    /\ hist' = [t \in Trees |-> SubSeq(hist[t], 1, MadeUpTo(hist[t], n))]
    /\ UNCHANGED final

ContractNext == MineEmpty \/ MineOne \/ MineTwo \/ Reorg

-----------------------------------------------------------------------------
(***************************************************************************)
(* The StateUpdated logs of the canonical chain, in the order of their     *)
(* position; the log at position k was emitted by the transition that      *)
(* installed the k-th GIST root.                                           *)
(***************************************************************************)
Log(k) == [idx |-> k, id |-> hist[Gist][k].id, block |-> hist[Gist][k].block,
           root |-> hist[Gist][k].val]

Logs == {Log(k) : k \in GenesisLen + 1 .. Len(hist[Gist])}

FilterStateUpdated(start, end) == {e \in Logs : start =< e.block /\ e.block =< end}

\* (mutations: the first entry taken for the replaced one; the replaced entry's
\* issuer taken for its value)
OpAtFirst(t, k) == [tree |-> t, new |-> hist[t][k].val, block |-> hist[t][k].block,
                    old |-> hist[t][1].val]
OpAtIssuer(t, k) == [tree |-> t, new |-> hist[t][k].val, block |-> hist[t][k].block,
                     old |-> hist[t][k - 1].id]

(***************************************************************************)
(* What an operation says: in history tree, block `block' replaced value   *)
(* old by value new.  It is genuine when the canonical chain says so.      *)
(***************************************************************************)
OpAt(t, k) == [tree |-> t, new |-> hist[t][k].val, block |-> hist[t][k].block,
               old |-> hist[t][k - 1].val]

Genuine(op) ==
  /\ op.tree \in Trees
  /\ \E k \in 2 .. Len(hist[op.tree]) : op = OpAt(op.tree, k)

-----------------------------------------------------------------------------
Leaf == States \union 1 .. GenesisLen
ValueOf(t) == IF t = Gist THEN [Issuers -> Leaf] ELSE Leaf
EntryOf(t) == [val : ValueOf(t), id : Trees, block : Nat]

ChainTypeOK ==
  /\ head \in Nat
  /\ final \in Nat
  /\ DOMAIN hist = Trees
  /\ \A t \in Trees : hist[t] \in Seq(EntryOf(t))
=============================================================================
