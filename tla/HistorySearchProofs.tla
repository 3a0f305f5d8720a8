------------------------- MODULE HistorySearchProofs -------------------------
(***************************************************************************)
(* The search of internal/rarimo/stateupdate.go, page by page on a chain   *)
(* that moves, returns what one look at the history would have, for every  *)
(* page size, history length and reorganisation depth.                     *)
(*                                                                         *)
(* HInv says of a search under way that the history read for its length    *)
(* and the history now agree on the blocks up to the one searched for,     *)
(* that the next page is a page of the former, and that no entry after     *)
(* that page is a transition searched for.                                 *)
(***************************************************************************)
EXTENDS HistorySearch, StateUpdateProofs

\* The entries of g made in blocks up to n are in h, where they are in g.
SameUpTo(g, h, n) ==
  \A k \in 1 .. Len(g) : g[k].block =< n => k =< Len(h) /\ h[k] = g[k]

\* No entry of h from position k on is a transition made in block b.
NoneFrom(h, k, b) == \A m \in 1 .. Len(h) : m >= k => h[m].block # b

SearchTypeOK ==
  /\ pc \in {"idle", "length", "page", "done"}
  /\ tree \in Trees
  /\ block \in Nat
  /\ length \in Int
  /\ outcome \in Nat \union {Failed}
  /\ seen \in Seq(EntryOf(tree))
  /\ pc # "idle" => block =< final

\* The search has read a length, and no call of it has failed.
Looking == pc = "page" \/ (pc = "done" /\ outcome # Failed)

Agreeing == Looking => /\ SameUpTo(seen, hist[tree], block)
                       /\ SameUpTo(hist[tree], seen, block)

NothingReadYet == pc \in {"idle", "length"} => seen = <<>> /\ outcome = NotFound

\* Where a search that goes on has got to.
Progress ==
  pc = "page" =>
    /\ outcome = NotFound
    /\ Len(seen) > StatesPerRequest
    /\ length \in 1 .. Len(seen) - StatesPerRequest
    /\ StatesPerRequest # 0 => length + 1 \in PageStarts(Len(seen))
    /\ NoneFrom(seen, length + StatesPerRequest + 1, block)

HInv ==
  /\ ChainInv /\ SearchTypeOK /\ Agreeing /\ NothingReadYet /\ Progress
  /\ AsIfAtOnce /\ MissesOnlyTheOldest

-----------------------------------------------------------------------------
\* A page the contract returns holds the entries of the history it is a part of.
LEMMA PageHolds ==
  ASSUME NEW S, NEW h \in Seq(S), NEW start \in Nat, ~Reverts(h, start)
  PROVE  LET p == Page(h, start)
         IN  /\ Len(p) \in Nat
             /\ \A i \in Nat : i \in 1 .. Len(p) <=>
                  i \in 1 .. StatesPerRequest /\ start + i =< Len(h)
             /\ \A i \in 1 .. Len(p) : p[i] = h[start + i]
<1>1. Len(h) \in Nat /\ start < Len(h) /\ StatesPerRequest \in Nat /\ StatesPerRequest # 0
  BY LenProperties, PageAssumption DEF Reverts
<1> DEFINE last == IF start + StatesPerRequest =< Len(h) THEN start + StatesPerRequest
                   ELSE Len(h)
           p == SubSeq(h, start + 1, last)
<1>2. last \in Nat /\ start + 1 =< last /\ last =< Len(h)
  BY <1>1
<1>3. /\ Page(h, start) = p
      /\ \A i \in Nat : start + i =< last <=>
           i =< StatesPerRequest /\ start + i =< Len(h)
  BY <1>1 DEF Page
<1> HIDE DEF last
<1>4. /\ Len(p) = last - start
      /\ \A i \in 1 .. last - start : p[i] = h[start + i]
  <2>1. start + 1 \in 1 .. Len(h) + 1 /\ last \in start .. Len(h)
    BY <1>1, <1>2
  <2>2. /\ Len(p) = IF start + 1 =< last THEN last - (start + 1) + 1 ELSE 0
        /\ \A i \in 1 .. last - (start + 1) + 1 : p[i] = h[(start + 1) + i - 1]
    BY <1>1, <1>2, <2>1, SubSeqProperties
  <2>3. \A i \in 1 .. last - start : (start + 1) + i - 1 = start + i
    BY <1>2
  <2>4. last - (start + 1) + 1 = last - start
    BY <1>2
  <2> QED BY <1>2, <2>2, <2>3, <2>4
<1> HIDE DEF p
<1>5. \A i \in Nat : i \in 1 .. Len(p) <=> i \in 1 .. StatesPerRequest /\ start + i =< Len(h)
  BY <1>1, <1>2, <1>3, <1>4
<1> QED BY <1>2, <1>3, <1>4, <1>5

\* What a page of the history now has in block b is what the same page of the
\* history whose length was read has, if the two agree on the blocks up to b.
LEMMA HitsAgree ==
  ASSUME NEW S, NEW h \in Seq(S), NEW g \in Seq(S), NEW b \in Nat, NEW start \in Nat,
         \A s \in S : s.block \in Nat,
         SameUpTo(g, h, b), SameUpTo(h, g, b),
         StatesPerRequest # 0, start + StatesPerRequest =< Len(g), ~Reverts(h, start)
  PROVE  \A i \in Int : i \in InPage(Page(h, start), b)
                    <=> start + i \in Matches(g, start + 1, b)
<1> DEFINE p == Page(h, start)
<1>1. Len(h) \in Nat /\ Len(g) \in Nat /\ StatesPerRequest \in Nat
  BY LenProperties, PageAssumption
<1>2. /\ Len(p) \in Nat
      /\ \A i \in Nat : i \in 1 .. Len(p) <=>
           i \in 1 .. StatesPerRequest /\ start + i =< Len(h)
      /\ \A i \in 1 .. Len(p) : p[i] = h[start + i]
  BY PageHolds
<1> HIDE DEF p
<1>3. /\ \A i : i \in InPage(p, b) <=> i \in 2 .. Len(p) /\ p[i].block = b
      /\ \A m : m \in Matches(g, start + 1, b)
           <=> m \in start + 1 + 1 .. start + 1 + StatesPerRequest - 1 /\ g[m].block = b
  BY DEF InPage, Matches
<1>4. ASSUME NEW i \in Int, i \in InPage(p, b)
      PROVE  start + i \in Matches(g, start + 1, b)
  <2>1. i \in 2 .. Len(p) /\ p[i].block = b
    BY <1>3, <1>4
  <2>2. /\ i \in 2 .. StatesPerRequest /\ start + i \in 1 .. Len(h)
        /\ h[start + i].block = b
    BY <1>1, <1>2, <2>1
  <2>3. g[start + i] = h[start + i]
    BY <2>2 DEF SameUpTo
  <2>4. start + i \in start + 1 + 1 .. start + 1 + StatesPerRequest - 1
    BY <1>1, <2>2
  <2> QED BY <1>3, <2>2, <2>3, <2>4
<1>5. ASSUME NEW i \in Int, start + i \in Matches(g, start + 1, b)
      PROVE  i \in InPage(p, b)
  <2>1. /\ start + i \in start + 1 + 1 .. start + 1 + StatesPerRequest - 1
        /\ g[start + i].block = b
    BY <1>3, <1>5
  <2>2. i \in 2 .. StatesPerRequest /\ start + i \in 1 .. Len(g)
    BY <1>1, <2>1
  <2>3. start + i =< Len(h) /\ h[start + i] = g[start + i]
    BY <2>1, <2>2 DEF SameUpTo
  <2>4. i \in 2 .. Len(p)
    BY <1>1, <1>2, <2>2, <2>3
  <2>5. p[i] = h[start + i]
    BY <1>2, <2>4
  <2> QED BY <1>3, <2>1, <2>3, <2>4, <2>5
<1> QED BY <1>4, <1>5 DEF p

\* A lookup that finds a transition on no page finds none.
LEMMA LookupMiss ==
  ASSUME NEW h, NEW b, Len(h) \in Nat,
         \/ Len(h) =< StatesPerRequest
         \/ \A q \in PageStarts(Len(h)) : Matches(h, q, b) = {}
  PROVE  Lookup(h, b) = NotFound
<1> DEFINE searched == IF Len(h) =< StatesPerRequest \/ StatesPerRequest = 0 THEN {}
                       ELSE {q \in PageStarts(Len(h)) : Matches(h, q, b) # {}}
           newest == CHOOSE q \in searched : \A r \in searched : r =< q
           found  == Matches(h, newest, b)
           result == CHOOSE m \in found : \A n \in found : m =< n
<1>1. Lookup(h, b) = IF searched = {} THEN NotFound ELSE result
  BY DEF Lookup
<1>2. searched = {}
  OBVIOUS
<1> HIDE DEF searched, result
<1> QED BY <1>1, <1>2

-----------------------------------------------------------------------------
\* Histories that agree up to a final block still do after a step of the chain.
LEMMA AgreeingKept ==
  ASSUME NEW t \in Trees, NEW n \in Nat, NEW b \in Nat, b =< n,
         NEW c \in Nat, HistOK(hist, c), Agree(hist, hist', n),
         NEW d \in Nat, HistOK(hist', d),
         NEW g, SameUpTo(g, hist[t], b), SameUpTo(hist[t], g, b), Len(g) \in Nat
  PROVE  SameUpTo(g, hist'[t], b) /\ SameUpTo(hist'[t], g, b)
<1>1. /\ \A k \in 1 .. Len(hist[t]) : hist[t][k].block \in Nat
      /\ \A k \in 1 .. Len(hist'[t]) : hist'[t][k].block \in Nat
      /\ Len(hist[t]) \in Nat /\ Len(hist'[t]) \in Nat
  <2>1. hist[t] \in Seq(EntryOf(t)) /\ hist'[t] \in Seq(EntryOf(t))
    BY DEF HistOK
  <2>2. \A e \in EntryOf(t) : e.block \in Nat
    BY DEF EntryOf
  <2> QED BY <2>1, <2>2, ElementOfSeq, LenProperties
<1>2. ASSUME NEW k \in 1 .. Len(g), g[k].block =< b
      PROVE  k =< Len(hist'[t]) /\ hist'[t][k] = g[k]
  <2>1. k \in 1 .. Len(hist[t]) /\ hist[t][k] = g[k]
    BY <1>1, <1>2 DEF SameUpTo
  <2>2. hist[t][k].block =< n
    BY <1>1, <1>2, <2>1
  <2> QED BY <2>1, <2>2 DEF Agree, Keeps
<1>3. ASSUME NEW k \in 1 .. Len(hist'[t]), hist'[t][k].block =< b
      PROVE  k =< Len(g) /\ g[k] = hist'[t][k]
  <2>1. hist'[t][k].block =< n
    BY <1>1, <1>3
  <2>2. k \in 1 .. Len(hist[t]) /\ hist[t][k] = hist'[t][k]
    BY <1>1, <2>1 DEF Agree, Keeps
  <2> QED BY <1>3, <2>2 DEF SameUpTo
<1> QED BY <1>2, <1>3 DEF SameUpTo

-----------------------------------------------------------------------------
\* No search is under way at the beginning.
LEMMA HInit == Init => HInv
<1> SUFFICES ASSUME Init PROVE HInv
  OBVIOUS
<1>1. ChainInv
  BY ChainInitOK DEF Init
<1>2. pc = "idle" /\ tree = Gist /\ block = 0 /\ length = 0 /\ outcome = NotFound /\ seen = <<>>
  BY DEF Init
<1>3. SearchTypeOK
  BY <1>2 DEF SearchTypeOK, Trees, NotFound
<1> QED BY <1>1, <1>2, <1>3
      DEF HInv, Agreeing, Looking, NothingReadYet, Progress, AsIfAtOnce, MissesOnlyTheOldest

\* A step of the search leaves the chain as it is, a search that failed says
\* nothing.
LEMMA FailedOK ==
  ASSUME HInv, UNCHANGED <<chainVars, tree, block, seen>>, pc # "idle", length' \in Int,
         Finish(Failed)
  PROVE  HInv'
<1>1. ChainInv'
  BY DEF HInv, ChainInv, chainVars
<1>2. pc' = "done" /\ outcome' = Failed /\ Failed # NotFound
  BY SearchAssumption DEF Finish, NotFound
<1>3. SearchTypeOK'
  BY <1>2 DEF HInv, SearchTypeOK, chainVars
<1> QED BY <1>1, <1>2, <1>3
      DEF HInv, Agreeing, Looking, NothingReadYet, Progress, AsIfAtOnce, MissesOnlyTheOldest

\* A search begins in a block that is final.
LEMMA BeginOK == HInv /\ Begin => HInv'
<1> SUFFICES ASSUME HInv, Begin PROVE HInv'
  OBVIOUS
<1>1. ChainInv'
  BY DEF HInv, ChainInv, Begin, chainVars
<1>2. /\ pc = "idle" /\ pc' = "length" /\ final' = final
      /\ seen' = <<>> /\ outcome' = NotFound /\ length' = length
  BY DEF Begin, HInv, NothingReadYet, chainVars
<1>3. PICK k \in GenesisLen + 1 .. Len(hist[Gist]) :
        /\ tree' \in {Gist, Log(k).id} /\ block' = Log(k).block
        /\ Log(k).block =< final
  BY DEF Begin, FilterStateUpdated, Logs
<1>4. hist[Gist][k].id \in Trees /\ hist[Gist][k].block \in Nat
  <2>1. hist[Gist] \in Seq(EntryOf(Gist))
    BY DEF HInv, ChainInv, HistOK, Trees
  <2>2. k \in 1 .. Len(hist[Gist])
    BY <2>1, LenProperties, ContractAssumption
  <2>3. hist[Gist][k] \in EntryOf(Gist)
    BY <2>1, <2>2, ElementOfSeq
  <2> QED BY <2>3 DEF EntryOf
<1>5. tree' \in Trees /\ block' \in Nat /\ block' =< final'
  BY <1>2, <1>3, <1>4 DEF Log, Trees
<1>6. SearchTypeOK'
  BY <1>2, <1>5 DEF HInv, SearchTypeOK, NotFound
<1> QED BY <1>1, <1>2, <1>6
      DEF HInv, Agreeing, Looking, NothingReadYet, Progress, AsIfAtOnce, MissesOnlyTheOldest

\* An outcome that was used is forgotten.
LEMMA ResetOK == HInv /\ Reset => HInv'
<1> SUFFICES ASSUME HInv, Reset PROVE HInv'
  OBVIOUS
<1>1. ChainInv'
  BY DEF HInv, ChainInv, Reset, chainVars
<1>2. /\ pc' = "idle" /\ tree' = Gist /\ block' = 0 /\ length' = 0
      /\ outcome' = NotFound /\ seen' = <<>>
  BY DEF Reset
<1>3. SearchTypeOK'
  BY <1>2 DEF SearchTypeOK, Trees, NotFound
<1> QED BY <1>1, <1>2, <1>3
      DEF HInv, Agreeing, Looking, NothingReadYet, Progress, AsIfAtOnce, MissesOnlyTheOldest

\* What the chain does between two calls of a search does not concern it.
LEMMA ChainOK == HInv /\ Chain => HInv'
<1> SUFFICES ASSUME HInv, Chain PROVE HInv'
  OBVIOUS
<1>1. ChainInv' /\ Agree(hist, hist', final) /\ final =< final'
  BY ChainStepOK DEF HInv, Chain
<1>2. /\ pc' = pc /\ tree' = tree /\ block' = block /\ length' = length
      /\ outcome' = outcome /\ seen' = seen
  BY DEF Chain, searchVars
<1>3. SearchTypeOK'
  <2>1. pc # "idle" => block =< final'
    BY <1>1 DEF HInv, ChainInv, SearchTypeOK
  <2> QED BY <1>2, <2>1 DEF HInv, SearchTypeOK
<1>4. Agreeing'
  <2> SUFFICES ASSUME Looking
               PROVE  SameUpTo(seen, hist'[tree], block) /\ SameUpTo(hist'[tree], seen, block)
    BY <1>2 DEF Agreeing, Looking
  <2>1. /\ tree \in Trees /\ block \in Nat /\ block =< final /\ Len(seen) \in Nat
        /\ SameUpTo(seen, hist[tree], block) /\ SameUpTo(hist[tree], seen, block)
    BY LenProperties DEF HInv, SearchTypeOK, Agreeing, Looking
  <2>2. /\ final \in Nat /\ head \in Nat /\ HistOK(hist, head)
        /\ head' \in Nat /\ HistOK(hist', head')
    BY <1>1 DEF HInv, ChainInv
  <2> QED BY <1>1, <2>1, <2>2, AgreeingKept
<1> QED BY <1>1, <1>2, <1>3, <1>4
      DEF HInv, Looking, NothingReadYet, Progress, AsIfAtOnce, MissesOnlyTheOldest

\* The first page asked for ends where the history read for its length does.
LEMMA ReadLengthOK == HInv /\ ReadLength => HInv'
<1> SUFFICES ASSUME HInv, ReadLength PROVE HInv'
  OBVIOUS
<1>1. ChainInv'
  BY DEF HInv, ChainInv, ReadLength, chainVars
<1>2. /\ pc = "length" /\ outcome = NotFound /\ seen' = hist[tree]
      /\ hist' = hist /\ final' = final /\ tree' = tree /\ block' = block
  BY DEF ReadLength, HInv, NothingReadYet, chainVars
<1>3. seen' \in Seq(EntryOf(tree)) /\ Len(seen') \in Nat /\ Len(seen') >= 1
  BY <1>2, LenProperties DEF HInv, SearchTypeOK, ChainInv, HistOK
<1>4. StatesPerRequest \in Nat
  BY PageAssumption
<1>5. Agreeing'
  <2>1. SameUpTo(seen', hist'[tree'], block') /\ SameUpTo(hist'[tree'], seen', block')
    BY <1>2, <1>3 DEF SameUpTo
  <2> QED BY <2>1 DEF Agreeing
<1>6. CASE Len(seen') =< StatesPerRequest
  <2>1. pc' = "done" /\ outcome' = NotFound /\ length' = length
    BY <1>2, <1>6 DEF ReadLength, HistoryLength, Finish
  <2>2. SearchTypeOK'
    BY <1>2, <1>3, <2>1 DEF HInv, SearchTypeOK, NotFound
  <2>3. AsIfAtOnce'
    <3>1. Lookup(seen', block') = NotFound
      BY <1>3, <1>6, LookupMiss
    <3> QED BY <2>1, <3>1 DEF AsIfAtOnce
  <2>4. MissesOnlyTheOldest'
    BY <1>3, <1>4, <1>6 DEF MissesOnlyTheOldest
  <2> QED BY <1>1, <1>5, <2>1, <2>2, <2>3, <2>4 DEF HInv, NothingReadYet, Progress
<1>7. CASE ~(Len(seen') =< StatesPerRequest)
  <2>1. /\ pc' = "page" /\ outcome' = NotFound
        /\ length' = Len(seen') - StatesPerRequest
    BY <1>2, <1>7 DEF ReadLength, HistoryLength
  <2>2. SearchTypeOK'
    BY <1>2, <1>3, <1>4, <2>1 DEF HInv, SearchTypeOK, NotFound
  <2>3. StatesPerRequest # 0 => length' + 1 \in PageStarts(Len(seen'))
    BY <1>3, <1>4, <1>7, <2>1, FirstPage
  <2>4. NoneFrom(seen', length' + StatesPerRequest + 1, block')
    BY <1>3, <1>4, <2>1 DEF NoneFrom
  <2>5. Len(seen') > StatesPerRequest /\ length' \in 1 .. Len(seen') - StatesPerRequest
    BY <1>3, <1>4, <1>7, <2>1
  <2>6. Progress'
    BY <2>1, <2>3, <2>4, <2>5 DEF Progress
  <2> QED BY <1>1, <1>5, <2>1, <2>2, <2>6
        DEF HInv, NothingReadYet, AsIfAtOnce, MissesOnlyTheOldest
<1> QED BY <1>6, <1>7

\* The last page that is asked for is the oldest one of the history.
LEMMA LastPage ==
  ASSUME NEW len \in Nat, StatesPerRequest # 0, len > StatesPerRequest,
         NEW p \in PageStarts(len), OutOfPages(Back(p - 1)),
         NEW q \in PageStarts(len)
  PROVE  p =< q
<1>1. /\ StatesPerRequest \in Nat /\ StatesPerRequest - 1 \in Nat
      /\ p \in 2 .. len /\ q \in 2 .. len /\ p - 1 \in Int
  BY PageAssumption, PagesInHistory
<1>2. p - 1 - (StatesPerRequest - 1) =< 1
  BY DEF OutOfPages, Back
<1>3. ASSUME q < p PROVE FALSE
  <2>1. q + (StatesPerRequest - 1) =< p
    BY <1>3, PagesApart
  <2>2. q = 2
    BY <1>1, <1>2, <2>1
  <2> DEFINE x == StatesPerRequest - 1
  <2>3. PICK n \in 0 .. len : q = len - StatesPerRequest - n * x + 1 /\ (n = 0 \/ q > 2)
    BY DEF PageStarts
  <2> HIDE DEF x
  <2>4. n = 0
    BY <2>2, <2>3
  <2>5. n * x = 0
    BY <1>1, <2>4 DEF x
  <2>6. q = len - StatesPerRequest + 1
    BY <1>1, <2>3, <2>5
  <2>7. p =< q
    BY <2>6, FirstPage
  <2> QED BY <1>1, <1>3, <2>7
<1> QED BY <1>1, <1>3

\* A page asked for is a page of the history the search began with, and has in
\* the block searched for what that one has.
LEMMA PageRead ==
  ASSUME HInv, pc = "page", ~Reverts(hist[tree], length)
  PROVE  /\ StatesPerRequest \in Nat \ {0} /\ length \in Nat /\ Len(seen) \in Nat
         /\ Len(seen) > StatesPerRequest /\ length + StatesPerRequest =< Len(seen)
         /\ length >= 1 /\ length + 1 \in PageStarts(Len(seen))
         /\ \A i \in Int : i \in InPage(Page(hist[tree], length), block)
                         <=> length + i \in Matches(seen, length + 1, block)
<1>1. StatesPerRequest \in Nat \ {0}
  BY PageAssumption DEF Reverts
<1>2. /\ tree \in Trees /\ block \in Nat /\ seen \in Seq(EntryOf(tree))
      /\ hist[tree] \in Seq(EntryOf(tree))
      /\ SameUpTo(seen, hist[tree], block) /\ SameUpTo(hist[tree], seen, block)
  BY DEF HInv, SearchTypeOK, Agreeing, Looking, ChainInv, HistOK
<1>3. Len(seen) \in Nat
  BY <1>2, LenProperties
<1>4. /\ Len(seen) > StatesPerRequest /\ length \in 1 .. Len(seen) - StatesPerRequest
      /\ length + 1 \in PageStarts(Len(seen))
  BY <1>1 DEF HInv, Progress
<1>5. length \in Nat /\ length >= 1 /\ length + StatesPerRequest =< Len(seen)
  BY <1>1, <1>3, <1>4
<1>6. \A e \in EntryOf(tree) : e.block \in Nat
  BY DEF EntryOf
<1>7. \A i \in Int : i \in InPage(Page(hist[tree], length), block)
                   <=> length + i \in Matches(seen, length + 1, block)
  BY <1>1, <1>2, <1>5, <1>6, HitsAgree
<1> QED BY <1>1, <1>3, <1>4, <1>5, <1>7

\* Of the pages, only those before the one read may hold what is searched for.
LEMMA NewerPagesEmpty ==
  ASSUME HInv, pc = "page", ~Reverts(hist[tree], length),
         NEW q \in PageStarts(Len(seen)), q > length + 1
  PROVE  Matches(seen, q, block) = {}
<1>1. /\ StatesPerRequest \in Nat \ {0} /\ length \in Nat /\ Len(seen) \in Nat
      /\ length + 1 \in PageStarts(Len(seen))
  BY PageRead
<1>2. q \in 2 .. Len(seen) /\ q + StatesPerRequest - 1 =< Len(seen)
  BY <1>1, PagesInHistory
<1>3. length + 1 + (StatesPerRequest - 1) =< q
  <2>1. length + 1 < q
    BY <1>1, <1>2
  <2> QED BY <1>1, <2>1, PagesApart
<1>4. NoneFrom(seen, length + StatesPerRequest + 1, block)
  BY DEF HInv, Progress
<1>5. ASSUME NEW k \in q + 1 .. q + StatesPerRequest - 1 PROVE seen[k].block # block
  <2>1. k \in 1 .. Len(seen) /\ k >= length + StatesPerRequest + 1
    BY <1>1, <1>2, <1>3
  <2> QED BY <1>4, <2>1 DEF NoneFrom
<1> QED BY <1>5 DEF Matches

\* A page that has no transition searched for leaves the older pages to look at;
\* one that has tells the outcome.
LEMMA ReadPageOK == HInv /\ ReadPage => HInv'
<1> SUFFICES ASSUME HInv, ReadPage PROVE HInv'
  OBVIOUS
<1> DEFINE hits == InPage(Page(hist[tree], length), block)
<1>1. ChainInv'
  BY DEF HInv, ChainInv, ReadPage, chainVars
<1>2. /\ pc = "page" /\ outcome = NotFound /\ seen' = seen
      /\ hist' = hist /\ final' = final /\ tree' = tree /\ block' = block
      /\ UNCHANGED <<chainVars, tree, block, seen>>
  BY DEF ReadPage, HInv, Progress, chainVars
<1>3. /\ seen \in Seq(EntryOf(tree)) /\ tree \in Trees /\ block \in Nat
      /\ length \in Int /\ block =< final
  BY <1>2 DEF HInv, SearchTypeOK
<1>4. CASE Reverts(hist[tree], length)
  <2>1. Finish(Failed) /\ length' = length
    BY <1>4 DEF ReadPage
  <2> QED BY <1>2, <1>3, <2>1, FailedOK
<1>5. CASE ~Reverts(hist[tree], length) /\ hits # {}
  <2>1. /\ StatesPerRequest \in Nat \ {0} /\ length \in Nat /\ Len(seen) \in Nat
        /\ Len(seen) > StatesPerRequest /\ length + 1 \in PageStarts(Len(seen))
        /\ \A i \in Int : i \in hits <=> length + i \in Matches(seen, length + 1, block)
    BY <1>2, <1>5, PageRead
  <2>2. hits \subseteq Nat
    BY DEF InPage
  <2>3. \A q \in PageStarts(Len(seen)) : q > length + 1 => Matches(seen, q, block) = {}
    BY <1>2, <1>5, NewerPagesEmpty
  <2>4. Finish(length + (CHOOSE i \in hits : \A j \in hits : i =< j)) /\ length' = length
    BY <1>5 DEF ReadPage
  <2> HIDE DEF hits
  <2>5. PICK i \in hits : /\ \A j \in hits : i =< j
                         /\ Finish(length + i)
    <3>1. \E i \in hits : \A j \in hits : i =< j
      BY <1>5, <2>2, Smallest
    <3> QED BY <2>4, <3>1
  <2>6. i \in Nat /\ length + i \in Matches(seen, length + 1, block)
    BY <2>1, <2>2
  <2>7. ASSUME NEW m \in Matches(seen, length + 1, block) PROVE length + i =< m
    <3>1. m \in Int
      BY <2>1 DEF Matches
    <3>2. m - length \in Int /\ length + (m - length) = m
      BY <2>1, <3>1
    <3>3. m - length \in hits
      BY <2>1, <3>2
    <3>4. i =< m - length
      BY <2>5, <3>3
    <3> QED BY <2>1, <2>6, <3>1, <3>4
  <2>8. Lookup(seen, block) = length + i
    BY <2>1, <2>3, <2>6, <2>7, LookupHit
  <2>9. pc' = "done" /\ outcome' = length + i /\ outcome' \in Nat /\ outcome' # NotFound
    <3>1. pc' = "done" /\ outcome' = length + i
      BY <2>5 DEF Finish
    <3>2. length + i >= length + 1 + 1
      BY <2>1, <2>6 DEF Matches
    <3> QED BY <2>1, <2>6, <3>1, <3>2 DEF NotFound
  <2>10. SearchTypeOK'
    BY <1>2, <1>3, <2>4, <2>9 DEF SearchTypeOK, HInv
  <2>11. Agreeing'
    BY <1>2 DEF HInv, Agreeing, Looking
  <2> QED BY <1>1, <1>2, <2>8, <2>9, <2>10, <2>11
        DEF HInv, NothingReadYet, Progress, AsIfAtOnce, MissesOnlyTheOldest
<1>6. CASE ~Reverts(hist[tree], length) /\ hits = {}
  <2>1. /\ StatesPerRequest \in Nat \ {0} /\ length \in Nat /\ Len(seen) \in Nat
        /\ Len(seen) > StatesPerRequest /\ length + StatesPerRequest =< Len(seen)
        /\ length >= 1 /\ length + 1 \in PageStarts(Len(seen))
        /\ \A i \in Int : i \in hits <=> length + i \in Matches(seen, length + 1, block)
    BY <1>2, <1>6, PageRead
  <2>2. Matches(seen, length + 1, block) = {}
    <3>1. ASSUME NEW m \in Matches(seen, length + 1, block) PROVE FALSE
      <4>1. m \in Int
        BY <2>1 DEF Matches
      <4>2. m - length \in Int /\ length + (m - length) = m
        BY <2>1, <4>1
      <4>3. m - length \in hits
        BY <2>1, <4>2
      <4> QED BY <1>6, <4>3
    <3> QED BY <3>1
  <2>3. NoneFrom(seen, length + 2, block)
    <3>1. NoneFrom(seen, length + StatesPerRequest + 1, block)
      BY <1>2 DEF HInv, Progress
    <3> SUFFICES ASSUME NEW k \in 1 .. Len(seen), k >= length + 2 PROVE seen[k].block # block
      BY DEF NoneFrom
    <3>2. CASE k >= length + StatesPerRequest + 1
      BY <3>1, <3>2 DEF NoneFrom
    <3>3. CASE ~(k >= length + StatesPerRequest + 1)
      <4>1. k \in length + 1 + 1 .. length + 1 + StatesPerRequest - 1
        BY <2>1, <3>3
      <4> QED BY <2>2, <4>1 DEF Matches
    <3> QED BY <3>2, <3>3
  <2>4. length' = Back(length) /\ Back(length) \in Int
    BY <1>6, <2>1 DEF ReadPage, Back
  <2>5. IF OutOfPages(Back(length)) THEN Finish(NotFound) ELSE UNCHANGED <<pc, outcome>>
    BY <1>6 DEF ReadPage
  <2>6. Agreeing'
    <3>1. SameUpTo(seen, hist[tree], block) /\ SameUpTo(hist[tree], seen, block)
      BY <1>2 DEF HInv, Agreeing, Looking
    <3> QED BY <1>2, <3>1 DEF Agreeing
  <2>7. CASE OutOfPages(Back(length))
    <3>1. pc' = "done" /\ outcome' = NotFound
      BY <2>5, <2>7 DEF Finish
    <3>2. SearchTypeOK'
      BY <1>2, <1>3, <2>4, <3>1 DEF SearchTypeOK, HInv, NotFound
    <3>3. \A q \in PageStarts(Len(seen)) : Matches(seen, q, block) = {}
      <4> SUFFICES ASSUME NEW q \in PageStarts(Len(seen)) PROVE Matches(seen, q, block) = {}
        OBVIOUS
      <4>1. PICK p \in PageStarts(Len(seen)) : p = length + 1
        BY <2>1
      <4>2. length + 1 =< q
        <5>1. OutOfPages(Back(p - 1))
          BY <2>1, <2>7, <4>1 DEF OutOfPages, Back
        <5> QED BY <2>1, <4>1, <5>1, LastPage
      <4>3. q \in Int
        BY <2>1, PagesInHistory
      <4>4. q = length + 1 \/ q > length + 1
        BY <2>1, <4>2, <4>3
      <4> QED BY <1>2, <1>6, <2>2, <4>4, NewerPagesEmpty
    <3>4. AsIfAtOnce'
      <4>1. Lookup(seen, block) = NotFound
        BY <2>1, <3>3, LookupMiss
      <4> QED BY <1>2, <3>1, <4>1 DEF AsIfAtOnce
    <3>5. MissesOnlyTheOldest'
      <4>1. length =< StatesPerRequest
        BY <2>1, <2>7 DEF OutOfPages, Back
      <4>2. ASSUME NEW k \in StatesPerRequest + 2 .. Len(seen) PROVE seen[k].block # block
        BY <2>1, <2>3, <4>1 DEF NoneFrom
      <4> QED BY <1>2, <4>2 DEF MissesOnlyTheOldest
    <3> QED BY <1>1, <2>6, <3>1, <3>2, <3>4, <3>5 DEF HInv, NothingReadYet, Progress
  <2>8. CASE ~OutOfPages(Back(length))
    <3>1. pc' = "page" /\ outcome' = NotFound
      BY <1>2, <2>5, <2>8
    <3>2. SearchTypeOK'
      BY <1>2, <1>3, <2>4, <3>1 DEF SearchTypeOK, HInv, NotFound
    <3>3. Back(length) > 1 /\ Back(length) + (StatesPerRequest - 1) = length
      BY <2>1, <2>4, <2>8 DEF OutOfPages, Back
    <3>4. Back(length) + 1 \in PageStarts(Len(seen))
      <4>1. PICK p \in PageStarts(Len(seen)) : p = length + 1
        BY <2>1
      <4>2. p - (StatesPerRequest - 1) > 2
        BY <2>1, <3>3, <4>1 DEF Back
      <4>3. p - (StatesPerRequest - 1) \in PageStarts(Len(seen))
        BY <2>1, <4>2, NextPage
      <4>4. p - (StatesPerRequest - 1) = Back(length) + 1
        BY <2>1, <4>1 DEF Back
      <4> QED BY <4>3, <4>4
    <3>5. Back(length) + StatesPerRequest + 1 = length + 2
      BY <2>1 DEF Back
    <3>6. Back(length) \in 1 .. Len(seen) - StatesPerRequest
      BY <2>1, <3>3 DEF Back
    <3>7. Progress'
      BY <1>2, <2>1, <2>3, <2>4, <3>1, <3>4, <3>5, <3>6 DEF Progress
    <3> QED BY <1>1, <2>6, <3>1, <3>2, <3>7
          DEF HInv, NothingReadYet, AsIfAtOnce, MissesOnlyTheOldest
  <2> QED BY <2>7, <2>8
<1> QED BY <1>4, <1>5, <1>6

-----------------------------------------------------------------------------
\* The searches of internal/rarimo/stateupdate.go keep HInv.
THEOREM HInvariance == Spec => []HInv
<1>1. HInv /\ [Next]_vars => HInv'
  <2> SUFFICES ASSUME HInv, [Next]_vars PROVE HInv'
    OBVIOUS
  <2>1. CASE Begin
    BY <2>1, BeginOK
  <2>2. CASE ReadLength
    BY <2>2, ReadLengthOK
  <2>3. CASE ReadPage
    BY <2>3, ReadPageOK
  <2>4. CASE CallFails
    <3>1. /\ UNCHANGED <<chainVars, tree, block, seen>> /\ pc # "idle"
          /\ length' = length /\ Finish(Failed)
      BY <2>4 DEF CallFails
    <3>2. length' \in Int
      BY <3>1 DEF HInv, SearchTypeOK
    <3> QED BY <3>1, <3>2, FailedOK
  <2>5. CASE Reset
    BY <2>5, ResetOK
  <2>6. CASE Chain
    BY <2>6, ChainOK
  <2>7. CASE UNCHANGED vars
    BY <2>7 DEF vars, chainVars, searchVars, HInv, ChainInv, SearchTypeOK, Agreeing, Looking,
              NothingReadYet, Progress, AsIfAtOnce, MissesOnlyTheOldest
  <2> QED BY <2>1, <2>2, <2>3, <2>4, <2>5, <2>6, <2>7 DEF Next
<1> QED BY <1>1, HInit, PTL DEF Spec

\* The heights, the histories and the search's own variables have their types
\* (internal/rarimo/stateupdate.go and the contract it reads).
THEOREM SearchTyped == Spec => []TypeOK
<1>1. HInv => TypeOK
  BY DEF HInv, ChainInv, HistOK, SearchTypeOK, TypeOK, ChainTypeOK
<1> QED BY <1>1, HInvariance, PTL

\* The loops of getGISTsOnBlock and getStatesOnBlock, whose calls are answered
\* from histories that differ, return what one look at one of them would.
THEOREM SearchIsALookup == Spec => []AsIfAtOnce
<1>1. HInv => AsIfAtOnce
  BY DEF HInv
<1> QED BY <1>1, HInvariance, PTL

\* What a search returns is in the history for as long as it is used: the
\* position found holds a transition of the block asked for, on the chain as
\* it is now.
THEOREM FoundStaysThere == Spec => []FoundIsThere
<1>1. HInv => FoundIsThere
  <2> SUFFICES ASSUME HInv, pc = "done", outcome \notin {NotFound, Failed}
               PROVE  outcome \in 2 .. Len(hist[tree]) /\ hist[tree][outcome].block = block
    BY DEF FoundIsThere
  <2>1. outcome = Lookup(seen, block) /\ Lookup(seen, block) # NotFound
    BY DEF HInv, AsIfAtOnce
  <2>2. seen \in Seq(EntryOf(tree)) /\ hist[tree] \in Seq(EntryOf(tree)) /\ block \in Nat
    BY DEF HInv, SearchTypeOK, ChainInv, HistOK
  <2>3. outcome \in 2 .. Len(seen) /\ seen[outcome].block = block
    BY <2>1, <2>2, LookupSound
  <2>4. SameUpTo(seen, hist[tree], block)
    BY DEF HInv, Agreeing, Looking
  <2>5. Len(seen) \in Nat /\ Len(hist[tree]) \in Nat
    BY <2>2, LenProperties
  <2>6. outcome =< Len(hist[tree]) /\ hist[tree][outcome] = seen[outcome]
    <3>1. outcome \in 1 .. Len(seen) /\ seen[outcome].block =< block
      BY <2>2, <2>3, <2>5
    <3> QED BY <2>4, <3>1 DEF SameUpTo
  <2> QED BY <2>3, <2>5, <2>6
<1> QED BY <1>1, HInvariance, PTL

\* No call asks the contract for a page outside the history whose length was
\* read, or for the entry at index 0.
THEOREM PagesStayInBounds == Spec => []PagesInBounds
<1>1. HInv => PagesInBounds
  BY DEF HInv, Progress, PagesInBounds
<1> QED BY <1>1, HInvariance, PTL

\* A search that finds nothing has overlooked no transition but, at most, those
\* of the StatesPerRequest + 1 oldest entries.
THEOREM NothingElseMissed == Spec => []MissesOnlyTheOldest
<1>1. HInv => MissesOnlyTheOldest
  BY DEF HInv
<1> QED BY <1>1, HInvariance, PTL

-----------------------------------------------------------------------------
\* The block searched for has a transition in the history searched, made after
\* the entries the history began with.
Sought == pc # "idle" =>
  \E k \in GenesisLen + 1 .. Len(hist[tree]) : hist[tree][k].block = block

\* A search is begun with the block of a log, which names an entry of the GIST
\* history and one of the issuer's.
LEMMA BeginSought == ASSUME Paired(hist), Begin PROVE Sought'
<1>1. PICK k \in GenesisLen + 1 .. Len(hist[Gist]) :
        /\ tree' \in {Gist, Log(k).id} /\ block' = Log(k).block
  BY DEF Begin, FilterStateUpdated, Logs
<1>2. /\ Log(k).block = hist[Gist][k].block /\ Log(k).id = hist[Gist][k].id
      /\ hist' = hist
  BY DEF Log, Begin, chainVars
<1>3. \E m \in GenesisLen + 1 .. Len(hist[hist[Gist][k].id]) :
        hist[hist[Gist][k].id][m].block = hist[Gist][k].block
  BY DEF Paired
<1> QED BY <1>1, <1>2, <1>3 DEF Sought

\* No reorganisation takes it away while the search goes on.
LEMMA ChainSought == ASSUME HInv, Sought, Chain PROVE Sought'
<1> SUFFICES ASSUME pc # "idle"
             PROVE  \E k \in GenesisLen + 1 .. Len(hist'[tree]) : hist'[tree][k].block = block
  BY DEF Sought, Chain, searchVars
<1>1. PICK k \in GenesisLen + 1 .. Len(hist[tree]) : hist[tree][k].block = block
  BY DEF Sought
<1>2. /\ tree \in Trees /\ block =< final /\ hist[tree] \in Seq(EntryOf(tree))
      /\ GenesisLen \in Nat
  BY ContractAssumption DEF HInv, SearchTypeOK, ChainInv, HistOK
<1>3. Keeps(hist, hist', final)
  BY ChainStepOK DEF HInv, Chain, Agree
<1>4. k \in 1 .. Len(hist[tree])
  BY <1>2, LenProperties
<1>5. k =< Len(hist'[tree]) /\ hist'[tree][k] = hist[tree][k]
  BY <1>1, <1>2, <1>3, <1>4 DEF Keeps
<1>6. Len(hist'[tree]) \in Nat
  BY ChainStepOK, <1>2, LenProperties DEF HInv, Chain, ChainInv, HistOK
<1>7. k \in GenesisLen + 1 .. Len(hist'[tree])
  BY <1>2, <1>4, <1>5, <1>6
<1> QED BY <1>1, <1>5, <1>7

\* Every step keeps the transition searched for in the history.
LEMMA SoughtNext ==
  HInv /\ Paired(hist) /\ Sought /\ [Next]_vars => Paired(hist)' /\ Sought'
<1> SUFFICES ASSUME HInv, Paired(hist), Sought, [Next]_vars PROVE Paired(hist)' /\ Sought'
  OBVIOUS
<1>1. CASE Chain
  <2>1. Paired(hist')
    BY <1>1, RootsStayPaired DEF HInv, Chain
  <2> QED BY <1>1, <2>1, ChainSought DEF Paired
<1>2. CASE Begin
  <2>1. hist' = hist
    BY <1>2 DEF Begin, chainVars
  <2> QED BY <1>2, <2>1, BeginSought DEF Paired
<1>3. CASE ReadLength \/ ReadPage \/ CallFails
  <2>1. pc # "idle" /\ UNCHANGED <<hist, tree, block>>
    BY <1>3 DEF ReadLength, ReadPage, CallFails, chainVars
  <2> QED BY <2>1 DEF Sought, Paired
<1>4. CASE Reset
  BY <1>4 DEF Reset, chainVars, Sought, Paired
<1>5. CASE UNCHANGED vars
  BY <1>5 DEF vars, chainVars, searchVars, Sought, Paired
<1> QED BY <1>1, <1>2, <1>3, <1>4, <1>5 DEF Next

\* Once the histories are longer than a page, a search for the block of a log
\* ends with a transition or with a failed call, and never with the nil that
\* getGISTsOnBlock and getStatesOnBlock return for a block they do not find.
THEOREM SearchFinds ==
  ASSUME StatesPerRequest \notin {0, 1}, GenesisLen > StatesPerRequest
  PROVE  Spec => [](pc = "done" => outcome # NotFound)
<1>1. Init => Paired(hist) /\ Sought
  BY PairedInit DEF Init, Sought
<1>2. HInv /\ Sought => (pc = "done" => outcome # NotFound)
  <2> SUFFICES ASSUME HInv, Sought, pc = "done", outcome = NotFound PROVE FALSE
    OBVIOUS
  <2>1. PICK k \in GenesisLen + 1 .. Len(hist[tree]) : hist[tree][k].block = block
    BY DEF Sought
  <2>2. /\ GenesisLen \in Nat /\ StatesPerRequest \in Nat /\ block \in Nat
        /\ hist[tree] \in Seq(EntryOf(tree)) /\ seen \in Seq(EntryOf(tree))
    BY ContractAssumption, PageAssumption DEF HInv, SearchTypeOK, ChainInv, HistOK
  <2>3. k \in 1 .. Len(hist[tree]) /\ k >= StatesPerRequest + 2 /\ Len(seen) \in Nat
    BY <2>2, LenProperties
  <2>4. outcome # Failed
    BY SearchAssumption DEF NotFound
  <2>5. SameUpTo(hist[tree], seen, block)
    BY <2>4 DEF HInv, Agreeing, Looking
  <2>6. k =< Len(seen) /\ seen[k].block = block
    BY <2>1, <2>2, <2>3, <2>5 DEF SameUpTo
  <2>7. k \in StatesPerRequest + 2 .. Len(seen)
    BY <2>2, <2>3, <2>6
  <2> QED BY <2>6, <2>7 DEF HInv, MissesOnlyTheOldest
<1> QED BY <1>1, <1>2, SoughtNext, HInvariance, PTL DEF Spec
=============================================================================
