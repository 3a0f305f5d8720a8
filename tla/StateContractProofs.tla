------------------------- MODULE StateContractProofs -------------------------
(***************************************************************************)
(* What the chain guarantees its readers, for every value of the constants *)
(* and however deep histories grow: entries are in the order of their      *)
(* blocks, and no step of the chain changes an entry of a final block.     *)
(***************************************************************************)
EXTENDS StateContract, SequenceTheorems, NaturalsInduction,
        WellFoundedInduction, TLAPS

\* h is a well-formed collection of histories whose entries are in blocks up
\* to b.
HistOK(h, b) ==
  /\ DOMAIN h = Trees
  /\ \A t \in Trees :
       /\ h[t] \in Seq(EntryOf(t))
       /\ Len(h[t]) >= 1 /\ h[t][1].block = 0
       /\ \A k \in 1 .. Len(h[t]) : h[t][k].block =< b
       /\ \A j, k \in 1 .. Len(h[t]) : j =< k => h[t][j].block =< h[t][k].block

\* Every entry of g made in a block up to n is where it was in h.
Keeps(g, h, n) ==
  \A t \in Trees : \A k \in 1 .. Len(g[t]) :
    g[t][k].block =< n => k =< Len(h[t]) /\ h[t][k] = g[t][k]

\* The histories g and h agree on the entries made in blocks up to n.
Agree(g, h, n) == Keeps(g, h, n) /\ Keeps(h, g, n)

\* Heights and histories are in order, and only ReorgDepth blocks under the
\* head are not final.
ChainInv ==
  /\ head \in Nat
  /\ final \in Nat
  /\ final =< head /\ head =< MaxHead
  /\ final >= head - ReorgDepth
  /\ head >= InitHead - ReorgDepth
  /\ final >= InitHead - ReorgDepth
  /\ HistOK(hist, head)

-----------------------------------------------------------------------------
\* A non-empty set of natural numbers has a smallest element.
LEMMA Smallest ==
  ASSUME NEW S \in SUBSET Nat, S # {}
  PROVE  \E m \in S : \A n \in S : m =< n
<1>1. PICK m \in S : \A n \in S : ~ (<<n, m>> \in OpToRel(<, Nat))
  BY NatLessThanWellFounded, WFMin
<1>2. ASSUME NEW n \in S PROVE m =< n
  <2>1. m \in Nat /\ n \in Nat
    OBVIOUS
  <2>2. n < m => <<n, m>> \in OpToRel(<, Nat)
    BY <2>1, Zenon DEF OpToRel
  <2>3. ~ (n < m)
    BY <1>1, <2>2
  <2> QED BY <2>1, <2>3
<1> QED BY <1>2

\* A set of natural numbers with an upper bound, if not empty, has a largest
\* element.
LEMMA Largest ==
  ASSUME NEW S \in SUBSET Nat, S # {}, NEW b \in Nat, \A n \in S : n =< b
  PROVE  \E m \in S : \A n \in S : n =< m
<1> DEFINE D == {d \in Nat : b - d \in S}
<1>1. ASSUME NEW n \in S PROVE b - n \in D
  BY b - (b - n) = n
<1>2. D \in SUBSET Nat /\ D # {}
  BY <1>1
<1>3. PICK d \in D : \A e \in D : d =< e
  BY <1>2, Smallest
<1>4. ASSUME NEW n \in S PROVE n =< b - d
  <2>1. d =< b - n
    BY <1>1, <1>3
  <2>2. d \in Nat /\ n \in Nat
    OBVIOUS
  <2> QED BY <2>1, <2>2
<1>5. b - d \in S
  OBVIOUS
<1> QED BY <1>4, <1>5

-----------------------------------------------------------------------------
\* h2 is h with one entry more in the history of issuer i and one in the GIST's.
Appended(h, h2, i, s, b) ==
  /\ DOMAIN h2 = Trees
  /\ \A t \in Trees \ {i, Gist} : h2[t] = h[t]
  /\ \A t \in {i, Gist} :
       /\ h2[t] \in Seq(EntryOf(t))
       /\ Len(h2[t]) = Len(h[t]) + 1
       /\ \A k \in 1 .. Len(h[t]) : h2[t][k] = h[t][k]
       /\ h2[t][Len(h[t]) + 1] = Entry(IF t = Gist THEN RootWith(h, i, s) ELSE s, i, b)

\* A transition appends one entry to the history of its issuer and one to the
\* GIST history, and changes nothing else.
LEMMA TransitedEntries ==
  ASSUME NEW b \in Nat, NEW c, NEW h, HistOK(h, c),
         NEW i \in Issuers, NEW s \in States,
         NEW h2, h2 = Transited(h, i, s, b)
  PROVE  Appended(h, h2, i, s, b)
<1> DEFINE root == RootWith(h, i, s)
           new(t) == Entry(IF t = Gist THEN root ELSE s, i, b)
<1>1. i \in Trees /\ Gist \in Trees /\ i # Gist
  BY ContractAssumption DEF Trees
<1>2. ASSUME NEW j \in Issuers PROVE h[j][Len(h[j])].val \in Leaf
  <2>1. j \in Trees /\ j # Gist
    BY ContractAssumption DEF Trees
  <2>2. h[j][Len(h[j])] \in EntryOf(j)
    BY <2>1, ElementOfSeq, LenProperties DEF HistOK
  <2> QED BY <2>1, <2>2 DEF EntryOf, ValueOf
<1>3. root \in ValueOf(Gist)
  BY <1>2 DEF RootWith, ValueOf, Leaf
<1>4. new(Gist) \in EntryOf(Gist) /\ new(i) \in EntryOf(i)
  BY <1>1, <1>3 DEF Entry, EntryOf, ValueOf, Leaf
<1>5. h2 = [h EXCEPT ![i] = Append(h[i], new(i)), ![Gist] = Append(h[Gist], new(Gist))]
  BY <1>1 DEF Transited, HistOK
<1>6. /\ DOMAIN h2 = Trees
      /\ h2[i] = Append(h[i], new(i)) /\ h2[Gist] = Append(h[Gist], new(Gist))
      /\ \A t \in Trees \ {i, Gist} : h2[t] = h[t]
  BY <1>1, <1>5 DEF HistOK
<1>7. ASSUME NEW t \in {i, Gist}
      PROVE  /\ h2[t] \in Seq(EntryOf(t))
             /\ Len(h2[t]) = Len(h[t]) + 1
             /\ \A k \in 1 .. Len(h[t]) : h2[t][k] = h[t][k]
             /\ h2[t][Len(h[t]) + 1] = new(t)
  <2>1. h[t] \in Seq(EntryOf(t)) /\ new(t) \in EntryOf(t)
    BY <1>1, <1>4 DEF HistOK
  <2>2. h2[t] = Append(h[t], new(t))
    BY <1>6
  <2> HIDE DEF new
  <2> QED BY <2>1, <2>2, AppendProperties
<1> QED BY <1>6, <1>7 DEF Appended

\* Histories in order are in order after a transition, and it changes no entry
\* there was.
LEMMA TransitedOK ==
  ASSUME NEW b \in Nat, NEW n \in Nat, n < b, NEW h, HistOK(h, b),
         NEW i \in Issuers, NEW s \in States
  PROVE  HistOK(Transited(h, i, s, b), b) /\ Agree(h, Transited(h, i, s, b), n)
<1> DEFINE h2 == Transited(h, i, s, b)
<1>0. /\ DOMAIN h2 = Trees /\ \A t \in Trees \ {i, Gist} : h2[t] = h[t]
      /\ \A t \in {i, Gist} :
           /\ h2[t] \in Seq(EntryOf(t))
           /\ Len(h2[t]) = Len(h[t]) + 1
           /\ \A k \in 1 .. Len(h[t]) : h2[t][k] = h[t][k]
           /\ h2[t][Len(h[t]) + 1] = Entry(IF t = Gist THEN RootWith(h, i, s) ELSE s, i, b)
  <2>1. h2 = Transited(h, i, s, b)
    OBVIOUS
  <2> HIDE DEF h2
  <2>2. Appended(h, h2, i, s, b)
    BY <2>1, TransitedEntries
  <2> QED BY <2>2 DEF Appended
<1> HIDE DEF h2
<1>1. ASSUME NEW t \in {i, Gist}
      PROVE  /\ h2[t] \in Seq(EntryOf(t))
             /\ Len(h2[t]) = Len(h[t]) + 1
             /\ \A k \in 1 .. Len(h[t]) : h2[t][k] = h[t][k]
             /\ h2[t][Len(h[t]) + 1].block = b
  BY <1>0 DEF Entry
<1>2. ASSUME NEW t \in Trees
      PROVE  /\ h2[t] \in Seq(EntryOf(t))
             /\ Len(h2[t]) >= 1 /\ h2[t][1].block = 0
             /\ \A k \in 1 .. Len(h2[t]) : h2[t][k].block =< b
             /\ \A j, k \in 1 .. Len(h2[t]) : j =< k => h2[t][j].block =< h2[t][k].block
             /\ \A k \in 1 .. Len(h[t]) : h[t][k].block =< n =>
                  k =< Len(h2[t]) /\ h2[t][k] = h[t][k]
             /\ \A k \in 1 .. Len(h2[t]) : h2[t][k].block =< n =>
                  k =< Len(h[t]) /\ h[t][k] = h2[t][k]
  <2>0. Len(h[t]) \in Nat /\ Len(h[t]) >= 1 /\ h[t][1].block = 0
    BY LenProperties DEF HistOK
  <2>1. CASE t \in {i, Gist}
    <3>1. \A k \in 1 .. Len(h2[t]) : k \in 1 .. Len(h[t]) \/ k = Len(h[t]) + 1
      BY <1>1, <2>0, <2>1
    <3>2. \A k \in 1 .. Len(h[t]) : h2[t][k] = h[t][k] /\ h2[t][k].block =< b
      BY <1>1, <2>1 DEF HistOK
    <3>3. h2[t][Len(h[t]) + 1].block = b
      BY <1>1, <2>1
    <3>4. \A k \in 1 .. Len(h2[t]) : h2[t][k].block =< b
      BY <3>1, <3>2, <3>3
    <3>5. ASSUME NEW j \in 1 .. Len(h2[t]), NEW k \in 1 .. Len(h2[t]), j =< k
          PROVE  h2[t][j].block =< h2[t][k].block
      <4>1. CASE k = Len(h[t]) + 1
        BY <3>3, <3>4, <4>1
      <4>2. CASE k \in 1 .. Len(h[t])
        <5>1. j \in 1 .. Len(h[t])
          BY <2>0, <3>5, <4>2
        <5> QED BY <3>2, <3>5, <4>2, <5>1 DEF HistOK
      <4> QED BY <3>1, <4>1, <4>2
    <3>6. ASSUME NEW k \in 1 .. Len(h2[t]), h2[t][k].block =< n
          PROVE  k =< Len(h[t]) /\ h[t][k] = h2[t][k]
      <4>1. k # Len(h[t]) + 1
        BY <3>3, <3>6
      <4> QED BY <2>0, <3>1, <3>2, <4>1
    <3>7. h2[t] \in Seq(EntryOf(t)) /\ Len(h2[t]) = Len(h[t]) + 1
      BY <1>1, <2>1
    <3>8. Len(h2[t]) >= 1
      BY <2>0, <3>7
    <3>9. h2[t][1].block = 0
      <4>1. 1 \in 1 .. Len(h[t])
        BY <2>0
      <4> QED BY <2>0, <3>2, <4>1
    <3>10. ASSUME NEW k \in 1 .. Len(h[t])
           PROVE  k =< Len(h2[t]) /\ h2[t][k] = h[t][k]
      BY <2>0, <3>2, <3>7
    <3> QED BY <3>4, <3>5, <3>6, <3>7, <3>8, <3>9, <3>10
  <2>2. CASE t \notin {i, Gist}
    <3>1. h2[t] = h[t]
      BY <1>0, <2>2
    <3>2. /\ h[t] \in Seq(EntryOf(t))
          /\ \A k \in 1 .. Len(h[t]) : h[t][k].block =< b /\ k =< Len(h[t])
          /\ \A j, k \in 1 .. Len(h[t]) : j =< k => h[t][j].block =< h[t][k].block
      BY <2>0 DEF HistOK
    <3> QED BY <2>0, <3>1, <3>2
  <2> QED BY <2>1, <2>2
<1> QED BY <1>0, <1>2 DEF HistOK, Keeps, Agree, h2

\* Histories that are in order up to a block are so up to a later one.
LEMMA HistOKLater ==
  ASSUME NEW b \in Nat, NEW c \in Nat, b =< c, NEW h, HistOK(h, b)
  PROVE  HistOK(h, c)
<1> SUFFICES ASSUME NEW t \in Trees, NEW k \in 1 .. Len(h[t])
             PROVE  h[t][k].block =< c
  BY DEF HistOK
<1>1. h[t][k].block =< b
  BY DEF HistOK
<1>2. h[t][k].block \in Nat
  <2>1. h[t][k] \in EntryOf(t)
    BY ElementOfSeq DEF HistOK
  <2> QED BY <2>1 DEF EntryOf
<1> QED BY <1>1, <1>2

\* Histories that agree with the same histories agree with each other.
LEMMA KeepsTransitive ==
  ASSUME NEW g, NEW h, NEW f, NEW n \in Nat, NEW b, HistOK(h, b),
         Keeps(g, h, n), Keeps(h, f, n), \A t \in Trees : Len(g[t]) \in Nat
  PROVE  Keeps(g, f, n)
<1> SUFFICES ASSUME NEW t \in Trees, NEW k \in 1 .. Len(g[t]),
                    g[t][k].block =< n
             PROVE  k =< Len(f[t]) /\ f[t][k] = g[t][k]
  BY DEF Keeps
<1>1. k =< Len(h[t]) /\ h[t][k] = g[t][k]
  BY DEF Keeps
<1>2. k \in 1 .. Len(h[t])
  BY <1>1, LenProperties DEF HistOK
<1> QED BY <1>1, <1>2 DEF Keeps

-----------------------------------------------------------------------------
\* In a history in the order of its blocks, the entries made up to a block
\* come first: MadeUpTo says how many they are.
LEMMA CutProperties ==
  ASSUME NEW S, NEW h \in Seq(S), NEW n \in Nat,
         \A k \in 1 .. Len(h) : h[k].block \in Nat,
         \A j, k \in 1 .. Len(h) : j =< k => h[j].block =< h[k].block
  PROVE  /\ MadeUpTo(h, n) \in 0 .. Len(h)
         /\ \A k \in 1 .. Len(h) : h[k].block =< n <=> k =< MadeUpTo(h, n)
<1> DEFINE L == Len(h)
           Later == {k \in 1 .. L : ~ (h[k].block =< n)}
           Cut(m) == \A k \in 1 .. L : h[k].block =< n <=> k =< m
<1>0. L \in Nat
  BY LenProperties
<1>1. \E m \in 0 .. L : Cut(m)
  <2>1. CASE Later = {}
    <3>1. \A k \in 1 .. L : h[k].block =< n /\ k =< L
      BY <1>0, <2>1
    <3> QED BY <1>0, <3>1
  <2>2. CASE Later # {}
    <3>1. Later \in SUBSET Nat
      BY <1>0
    <3>2. PICK l \in Later : \A k \in Later : l =< k
      BY <2>2, <3>1, Smallest
    <3>3. l - 1 \in 0 .. L /\ l \in 1 .. L
      BY <1>0
    <3>4. ASSUME NEW k \in 1 .. L PROVE h[k].block =< n <=> k =< l - 1
      <4>1. CASE k >= l
        <5>1. h[l].block =< h[k].block
          BY <3>3, <4>1
        <5>2. ~ (h[k].block =< n)
          BY <3>3, <5>1
        <5> QED BY <1>0, <3>3, <4>1, <5>2
      <4>2. CASE ~ (k >= l)
        <5>1. k \notin Later
          BY <1>0, <3>2, <3>3, <4>2
        <5>2. k =< l - 1
          BY <1>0, <3>3, <4>2
        <5> QED BY <5>1, <5>2
      <4> QED BY <4>1, <4>2
    <3> QED BY <3>3, <3>4
  <2> QED BY <2>1, <2>2
<1>2. MadeUpTo(h, n) = CHOOSE m \in 0 .. L : Cut(m)
  BY DEF MadeUpTo
<1> HIDE DEF Cut
<1>3. MadeUpTo(h, n) \in 0 .. L /\ Cut(MadeUpTo(h, n))
  BY <1>1, <1>2
<1> QED BY <1>3 DEF Cut

\* Cutting histories off above block n leaves them in order, and leaves every
\* entry made up to n.
LEMMA CutOK ==
  ASSUME NEW b \in Nat, NEW n \in Nat, n =< b, NEW h, HistOK(h, b)
  PROVE  LET g == [t \in Trees |-> SubSeq(h[t], 1, MadeUpTo(h[t], n))]
         IN  HistOK(g, n) /\ Agree(h, g, n)
<1> DEFINE g == [t \in Trees |-> SubSeq(h[t], 1, MadeUpTo(h[t], n))]
           m(t) == MadeUpTo(h[t], n)
<1>1. ASSUME NEW t \in Trees
      PROVE  /\ m(t) \in 1 .. Len(h[t]) /\ Len(h[t]) \in Nat
             /\ \A k \in 1 .. Len(h[t]) : h[t][k].block =< n <=> k =< m(t)
  <2>1. h[t] \in Seq(EntryOf(t)) /\ Len(h[t]) \in Nat
    BY LenProperties DEF HistOK
  <2>2. ASSUME NEW k \in 1 .. Len(h[t]) PROVE h[t][k].block \in Nat
    <3>1. h[t][k] \in EntryOf(t)
      BY <2>1, ElementOfSeq
    <3> QED BY <3>1 DEF EntryOf
  <2>3. \A j, k \in 1 .. Len(h[t]) : j =< k => h[t][j].block =< h[t][k].block
    BY DEF HistOK
  <2>4. /\ m(t) \in 0 .. Len(h[t])
        /\ \A k \in 1 .. Len(h[t]) : h[t][k].block =< n <=> k =< m(t)
    BY <2>1, <2>2, <2>3, CutProperties
  <2>5. 1 \in 1 .. Len(h[t]) /\ h[t][1].block =< n
    BY <2>1 DEF HistOK
  <2> HIDE DEF m
  <2> QED BY <2>1, <2>4, <2>5
<1>2. ASSUME NEW t \in Trees
      PROVE  /\ g[t] \in Seq(EntryOf(t)) /\ Len(g[t]) = m(t)
             /\ \A k \in 1 .. m(t) : g[t][k] = h[t][k]
  <2>1. \A k \in 1 .. m(t) : h[t][k] \in EntryOf(t)
    <3>1. \A k \in 1 .. m(t) : k \in 1 .. Len(h[t])
      BY <1>1
    <3> QED BY <3>1, ElementOfSeq DEF HistOK
  <2>2. g[t] = SubSeq(h[t], 1, m(t))
    OBVIOUS
  <2>3. m(t) \in Int /\ 1 =< m(t)
    BY <1>1
  <2> HIDE DEF m, g
  <2>4. /\ SubSeq(h[t], 1, m(t)) \in Seq(EntryOf(t))
        /\ Len(SubSeq(h[t], 1, m(t))) = m(t)
        /\ \A k \in 1 .. m(t) : SubSeq(h[t], 1, m(t))[k] = h[t][1 + k - 1]
    BY <2>1, <2>3, SubSeqProperties
  <2>5. \A k \in 1 .. m(t) : 1 + k - 1 = k
    BY <2>3
  <2> QED BY <2>2, <2>4, <2>5
<1> HIDE DEF m, g
<1>3. ASSUME NEW t \in Trees
      PROVE  /\ g[t] \in Seq(EntryOf(t)) /\ Len(g[t]) >= 1 /\ g[t][1].block = 0
             /\ \A k \in 1 .. Len(g[t]) : g[t][k].block =< n
             /\ \A j, k \in 1 .. Len(g[t]) : j =< k => g[t][j].block =< g[t][k].block
  <2>1. Len(g[t]) = m(t) /\ m(t) >= 1 /\ g[t] \in Seq(EntryOf(t))
    BY <1>1, <1>2
  <2>2. ASSUME NEW k \in 1 .. Len(g[t])
        PROVE  k \in 1 .. Len(h[t]) /\ g[t][k] = h[t][k] /\ h[t][k].block =< n
    BY <1>1, <1>2, <2>1
  <2>3. 1 \in 1 .. Len(g[t])
    BY <2>1
  <2>4. g[t][1].block = 0
    BY <2>2, <2>3 DEF HistOK
  <2>5. ASSUME NEW j \in 1 .. Len(g[t]), NEW k \in 1 .. Len(g[t]), j =< k
        PROVE  g[t][j].block =< g[t][k].block
    <3>1. h[t][j].block =< h[t][k].block
      BY <2>2, <2>5 DEF HistOK
    <3> QED BY <2>2, <3>1
  <2> QED BY <2>1, <2>2, <2>4, <2>5
<1>4. HistOK(g, n)
  BY <1>3 DEF HistOK, g
<1>5. Agree(h, g, n)
  BY <1>1, <1>2 DEF Keeps, Agree
<1> QED BY <1>4, <1>5 DEF g

-----------------------------------------------------------------------------
\* The chain starts in order.
LEMMA ChainInitOK == ContractInit => ChainInv
<1> SUFFICES ASSUME ContractInit PROVE ChainInv
  OBVIOUS
<1> DEFINE val(t, k) == IF t = Gist THEN [j \in Issuers |-> k] ELSE k
           h(t) == [k \in 1 .. GenesisLen |-> Entry(val(t, k), t, 0)]
<1>1. \A t \in Trees : hist[t] = h(t)
  BY DEF ContractInit
<1>2. ASSUME NEW t \in Trees
      PROVE  /\ hist[t] \in Seq(EntryOf(t))
             /\ Len(hist[t]) = GenesisLen
             /\ \A k \in 1 .. GenesisLen : hist[t][k].block = 0
  <2>1. \A k \in 1 .. GenesisLen : val(t, k) \in ValueOf(t)
    BY DEF ValueOf, Leaf
  <2>2. \A k \in 1 .. GenesisLen : Entry(val(t, k), t, 0) \in EntryOf(t)
    BY <2>1 DEF Entry, EntryOf
  <2>3. GenesisLen \in Nat
    BY ContractAssumption
  <2> HIDE DEF val
  <2>4. h(t) \in Seq(EntryOf(t)) /\ Len(h(t)) = GenesisLen
    BY <2>2, <2>3
  <2>5. \A k \in 1 .. GenesisLen : h(t)[k].block = 0
    BY DEF Entry
  <2> QED BY <1>1, <2>4, <2>5
<1> HIDE DEF h, val
<1>3. /\ GenesisLen \in Nat /\ GenesisLen >= 1 /\ InitHead \in Nat
      /\ ReorgDepth \in Nat /\ InitHead =< MaxHead
  BY ContractAssumption
<1>4. head = InitHead /\ final = MaxOf(0, InitHead - ReorgDepth) /\ DOMAIN hist = Trees
  BY DEF ContractInit
<1>5. HistOK(hist, head)
  BY <1>2, <1>3, <1>4 DEF HistOK
<1> QED BY <1>3, <1>4, <1>5 DEF ChainInv, MaxOf

\* A sealed block: the height grows by one, and the histories it leaves behind
\* keep what was final.
LEMMA SealOK ==
  ASSUME ChainInv, NEW h, Seal(h),
         HistOK(h, head + 1), Agree(hist, h, final)
  PROVE  ChainInv' /\ Agree(hist, hist', final) /\ final =< final'
<1>1. head + 1 \in Nat /\ ReorgDepth \in Nat /\ InitHead \in Nat /\ MaxHead \in Nat
  BY ContractAssumption DEF ChainInv
<1>2. /\ head' = head + 1 /\ hist' = h /\ head < MaxHead
      /\ final' = MaxOf(final, head + 1 - ReorgDepth)
  BY DEF Seal
<1>3. HistOK(hist, head)'
  BY <1>2 DEF HistOK
<1> QED BY <1>1, <1>2, <1>3 DEF ChainInv, MaxOf

\* No step of the chain changes an entry of a block that is final, and what is
\* final stays so: the guarantee every reader of the contract relies on.
THEOREM ChainStepOK ==
  ASSUME ChainInv, ContractNext
  PROVE  ChainInv' /\ Agree(hist, hist', final) /\ final =< final'
<1>0. /\ head \in Nat /\ head + 1 \in Nat /\ final \in Nat
      /\ final =< head /\ final < head + 1 /\ head =< head + 1
      /\ HistOK(hist, head)
  BY DEF ChainInv
<1>1. HistOK(hist, head + 1) /\ \A t \in Trees : Len(hist[t]) \in Nat
  BY <1>0, HistOKLater, LenProperties DEF HistOK
<1>2. CASE MineEmpty
  <2>1. Agree(hist, hist, final)
    BY <1>1, LenProperties DEF Keeps, Agree
  <2> QED BY <1>1, <1>2, <2>1, SealOK DEF MineEmpty
<1>3. CASE MineOne
  <2>1. PICK i \in Issuers, s \in States :
          Seal(Transited(hist, i, s, head + 1))
    BY <1>3 DEF MineOne, Fresh
  <2>2. /\ HistOK(Transited(hist, i, s, head + 1), head + 1)
        /\ Agree(hist, Transited(hist, i, s, head + 1), final)
    BY <1>0, <1>1, TransitedOK
  <2> QED BY <2>1, <2>2, SealOK
<1>4. CASE MineTwo
  <2> DEFINE h(i, s) == Transited(hist, i, s, head + 1)
  <2>1. PICK i \in Issuers, j \in Issuers, s \in States, u \in States :
          Seal(Transited(h(i, s), j, u, head + 1))
    BY <1>4 DEF MineTwo, Fresh
  <2> DEFINE g == h(i, s)
             f == Transited(g, j, u, head + 1)
  <2>2. HistOK(g, head + 1) /\ Agree(hist, g, final)
    BY <1>0, <1>1, TransitedOK
  <2> HIDE DEF g
  <2>3. HistOK(f, head + 1) /\ Agree(g, f, final)
    BY <1>0, <2>2, TransitedOK
  <2> HIDE DEF f
  <2>4. Agree(hist, f, final)
    <3>1. \A t \in Trees : Len(f[t]) \in Nat
      BY <2>3, LenProperties DEF HistOK
    <3>2. Keeps(hist, f, final)
      BY <1>0, <1>1, <2>2, <2>3, KeepsTransitive DEF Agree
    <3>3. Keeps(f, hist, final)
      BY <1>0, <2>2, <2>3, <3>1, KeepsTransitive DEF Agree
    <3> QED BY <3>2, <3>3 DEF Agree
  <2>5. Seal(f)
    BY <2>1 DEF f, g
  <2> QED BY <2>3, <2>4, <2>5, SealOK
<1>5. CASE Reorg
  <2>1. PICK n \in final .. head - 1 :
          /\ head' = n
          /\ hist' = [t \in Trees |-> SubSeq(hist[t], 1, MadeUpTo(hist[t], n))]
          /\ UNCHANGED final
    BY <1>5 DEF Reorg
  <2>2. n \in Nat /\ n =< head /\ final =< n
    BY <1>0, <2>1
  <2>3. HistOK(hist', n) /\ Agree(hist, hist', n)
    BY <1>0, <2>1, <2>2, CutOK
  <2>4. HistOK(hist, head)'
    BY <2>1, <2>3 DEF HistOK
  <2>5. Agree(hist, hist', final)
    <3>1. ASSUME NEW h, NEW b, HistOK(h, b),
                 NEW t \in Trees, NEW k \in 1 .. Len(h[t]), h[t][k].block =< final
          PROVE  h[t][k].block =< n
      <4>1. h[t][k] \in EntryOf(t)
        BY <3>1, ElementOfSeq DEF HistOK
      <4>2. h[t][k].block \in Nat
        BY <4>1 DEF EntryOf
      <4> QED BY <1>0, <2>2, <3>1, <4>2
    <3>2. Keeps(hist, hist', final)
      BY <1>0, <2>3, <3>1 DEF Keeps, Agree
    <3>3. Keeps(hist', hist, final)
      BY <2>3, <3>1 DEF Keeps, Agree
    <3> QED BY <3>2, <3>3 DEF Agree
  <2>6. /\ head' >= InitHead - ReorgDepth /\ head' - ReorgDepth =< final'
        /\ head' =< MaxHead
    <3>1. InitHead \in Nat /\ ReorgDepth \in Nat /\ MaxHead \in Nat
      BY ContractAssumption
    <3> QED BY <1>0, <2>1, <2>2, <3>1 DEF ChainInv
  <2> QED BY <1>0, <2>1, <2>2, <2>4, <2>5, <2>6 DEF ChainInv
<1> QED BY <1>2, <1>3, <1>4, <1>5 DEF ContractNext

-----------------------------------------------------------------------------
\* No value occurs twice in a history, and a root commits to states that were
\* installed before it.
Distinct(h) ==
  /\ \A t \in Trees : \A j, k \in 1 .. Len(h[t]) : h[t][j].val = h[t][k].val => j = k
  /\ \A k \in 1 .. Len(h[Gist]) : \A i \in Issuers : \E m \in 1 .. Len(h[i]) :
       h[i][m].val = h[Gist][k].val[i] /\ h[i][m].block =< h[Gist][k].block

\* The histories the model starts with are distinct.
LEMMA DistinctInit == ContractInit => Distinct(hist)
<1> SUFFICES ASSUME ContractInit PROVE Distinct(hist)
  OBVIOUS
<1>1. PICK i \in Issuers : TRUE
  BY ContractAssumption
<1>2. GenesisLen \in Nat /\ Gist \notin Issuers
  BY ContractAssumption
<1>3. ASSUME NEW t \in Trees
      PROVE  /\ Len(hist[t]) = GenesisLen
             /\ \A k \in 1 .. GenesisLen :
                  /\ IF t = Gist THEN \A j \in Issuers : hist[t][k].val[j] = k
                                 ELSE hist[t][k].val = k
                  /\ hist[t][k].block = 0
  <2> DEFINE e(k) == Entry(IF t = Gist THEN [j \in Issuers |-> k] ELSE k, t, 0)
  <2>1. hist[t] = [k \in 1 .. GenesisLen |-> e(k)]
    BY DEF ContractInit
  <2>2. ASSUME NEW k \in 1 .. GenesisLen
        PROVE  /\ t = Gist => e(k).val = [j \in Issuers |-> k]
               /\ t # Gist => e(k).val = k
               /\ e(k).block = 0
    BY DEF Entry
  <2> HIDE DEF e
  <2>3. ASSUME NEW k \in 1 .. GenesisLen PROVE hist[t][k] = e(k)
    BY <2>1
  <2>4. ASSUME NEW k \in 1 .. GenesisLen, t = Gist, NEW j \in Issuers
        PROVE  hist[t][k].val[j] = k
    <3>1. hist[t][k].val = [n \in Issuers |-> k]
      BY <2>2, <2>3, <2>4
    <3> QED BY <3>1, <2>4
  <2>5. Len(hist[t]) = GenesisLen
    BY <1>2, <2>1
  <2> QED BY <2>2, <2>3, <2>4, <2>5
<1>4. ASSUME NEW t \in Trees, NEW j \in 1 .. Len(hist[t]), NEW k \in 1 .. Len(hist[t]),
             hist[t][j].val = hist[t][k].val
      PROVE  j = k
  <2>1. j \in 1 .. GenesisLen /\ k \in 1 .. GenesisLen
    BY <1>3
  <2>2. CASE t = Gist
    <3>1. hist[t][j].val[i] = j /\ hist[t][k].val[i] = k
      BY <1>3, <2>1, <2>2
    <3> QED BY <1>4, <3>1
  <2>3. CASE t # Gist
    BY <1>3, <1>4, <2>1, <2>3
  <2> QED BY <2>2, <2>3
<1>5. ASSUME NEW k \in 1 .. Len(hist[Gist]), NEW j \in Issuers
      PROVE  \E m \in 1 .. Len(hist[j]) :
               hist[j][m].val = hist[Gist][k].val[j] /\ hist[j][m].block =< hist[Gist][k].block
  <2>1. Gist \in Trees /\ j \in Trees /\ j # Gist
    BY <1>2 DEF Trees
  <2>2. k \in 1 .. GenesisLen /\ k \in 1 .. Len(hist[j])
    BY <1>3, <2>1
  <2>3. hist[j][k].val = k /\ hist[j][k].block = 0
    BY <1>3, <2>1, <2>2
  <2>4. hist[Gist][k].val[j] = k /\ hist[Gist][k].block = 0
    BY <1>3, <2>1, <2>2
  <2> QED BY <2>2, <2>3, <2>4
<1> QED BY <1>4, <1>5 DEF Distinct

\* A transition to a fresh state leaves the histories distinct: the new root
\* commits to that state, to which no root committed before.
LEMMA DistinctTransited ==
  ASSUME NEW b \in Nat, NEW h, HistOK(h, b), Distinct(h),
         NEW i \in Issuers, NEW s \in Fresh(h, i),
         NEW h2, h2 = Transited(h, i, s, b)
  PROVE  Distinct(h2)
<1> DEFINE new(t) == Entry(IF t = Gist THEN RootWith(h, i, s) ELSE s, i, b)
<1>1. i \in Trees /\ Gist \in Trees /\ i # Gist /\ s \in States
  BY ContractAssumption DEF Trees, Fresh
<1>0. Appended(h, h2, i, s, b)
  BY <1>1, TransitedEntries
<1>2. \A t \in Trees \ {i, Gist} : h2[t] = h[t]
  BY <1>0 DEF Appended
<1>3. \A t \in {i, Gist} :
        /\ Len(h2[t]) = Len(h[t]) + 1
        /\ \A k \in 1 .. Len(h[t]) : h2[t][k] = h[t][k]
        /\ h2[t][Len(h[t]) + 1] = new(t)
  BY <1>0 DEF Appended
<1>4. \A t \in Trees : Len(h[t]) \in Nat /\ Len(h[t]) >= 1
  BY LenProperties DEF HistOK
<1>5. new(i).val = s /\ new(Gist).val[i] = s /\ new(Gist).block = b /\ new(i).block = b
  BY <1>1 DEF Entry, RootWith
<1>6. ASSUME NEW j \in Issuers \ {i} PROVE new(Gist).val[j] = h[j][Len(h[j])].val
  BY <1>1 DEF Entry, RootWith
<1> HIDE DEF new
<1>7. \A t \in {i, Gist} : \A k \in 1 .. Len(h2[t]) :
        \/ k \in 1 .. Len(h[t]) /\ h2[t][k] = h[t][k]
        \/ k = Len(h[t]) + 1 /\ h2[t][k] = new(t)
  BY <1>1, <1>3, <1>4
<1>8. ASSUME NEW t \in {i, Gist}, NEW k \in 1 .. Len(h[t])
      PROVE  h[t][k].val # new(t).val
  <2>1. \A m \in 1 .. Len(h[i]) : h[i][m].val # s
    BY DEF Fresh
  <2>2. CASE t = i
    BY <1>5, <2>1, <2>2
  <2>3. CASE t = Gist
    <3>1. PICK m \in 1 .. Len(h[i]) : h[i][m].val = h[Gist][k].val[i]
      BY <2>3 DEF Distinct
    <3> QED BY <1>5, <2>1, <2>3, <3>1
  <2> QED BY <2>2, <2>3
<1>9. ASSUME NEW t \in Trees, NEW j \in 1 .. Len(h2[t]), NEW k \in 1 .. Len(h2[t]),
             h2[t][j].val = h2[t][k].val
      PROVE  j = k
  <2>1. CASE t \in {i, Gist}
    <3>1. \A m, n \in 1 .. Len(h[t]) : h[t][m].val = h[t][n].val => m = n
      BY DEF Distinct
    <3>2. CASE j \in 1 .. Len(h[t]) /\ k \in 1 .. Len(h[t])
      BY <1>3, <1>9, <2>1, <3>1, <3>2
    <3>3. CASE j \in 1 .. Len(h[t]) /\ k = Len(h[t]) + 1
      BY <1>3, <1>8, <1>9, <2>1, <3>3
    <3>4. CASE j = Len(h[t]) + 1 /\ k \in 1 .. Len(h[t])
      BY <1>3, <1>8, <1>9, <2>1, <3>4
    <3> QED BY <1>7, <2>1, <3>2, <3>3, <3>4
  <2>2. CASE t \notin {i, Gist}
    <3>1. h2[t] = h[t]
      BY <1>2, <2>2
    <3> QED BY <1>9, <3>1 DEF Distinct
  <2> QED BY <2>1, <2>2
<1>10. ASSUME NEW t \in Issuers, NEW m \in 1 .. Len(h[t])
       PROVE  m \in 1 .. Len(h2[t]) /\ h2[t][m] = h[t][m]
  <2>1. t \in Trees
    BY DEF Trees
  <2> QED BY <1>2, <1>3, <1>4, <1>10, <2>1
<1>11. ASSUME NEW k \in 1 .. Len(h2[Gist]), NEW j \in Issuers
       PROVE  \E m \in 1 .. Len(h2[j]) :
                h2[j][m].val = h2[Gist][k].val[j] /\ h2[j][m].block =< h2[Gist][k].block
  <2>1. j \in Trees /\ j # Gist
    BY ContractAssumption DEF Trees
  <2>2. CASE k \in 1 .. Len(h[Gist]) /\ h2[Gist][k] = h[Gist][k]
    <3>1. PICK m \in 1 .. Len(h[j]) :
            h[j][m].val = h[Gist][k].val[j] /\ h[j][m].block =< h[Gist][k].block
      BY <2>2 DEF Distinct
    <3> QED BY <1>10, <2>2, <3>1
  <2>3. CASE k = Len(h[Gist]) + 1 /\ h2[Gist][k] = new(Gist)
    <3>1. CASE j = i
      <4>1. Len(h[i]) + 1 \in 1 .. Len(h2[i]) /\ h2[i][Len(h[i]) + 1] = new(i)
        BY <1>1, <1>3, <1>4
      <4> QED BY <1>5, <2>3, <3>1, <4>1
    <3>2. CASE j # i
      <4>1. Len(h[j]) \in 1 .. Len(h[j]) /\ h[j][Len(h[j])].block =< b
        BY <1>4, <2>1 DEF HistOK
      <4>2. new(Gist).val[j] = h[j][Len(h[j])].val
        BY <1>6, <3>2
      <4> QED BY <1>5, <1>10, <2>3, <4>1, <4>2
    <3> QED BY <3>1, <3>2
  <2> QED BY <1>7, <2>2, <2>3
<1> QED BY <1>9, <1>11 DEF Distinct

\* So does a reorganisation.
LEMMA DistinctCut ==
  ASSUME NEW b \in Nat, NEW n \in Nat, n =< b, NEW h, HistOK(h, b), Distinct(h),
         NEW g, HistOK(g, n), Agree(h, g, n)
  PROVE  Distinct(g)
<1>1. ASSUME NEW t \in Trees, NEW k \in 1 .. Len(g[t])
      PROVE  k \in 1 .. Len(h[t]) /\ g[t][k] = h[t][k]
  <2>1. g[t][k].block =< n
    BY DEF HistOK
  <2>2. k =< Len(h[t]) /\ h[t][k] = g[t][k]
    BY <2>1 DEF Agree, Keeps
  <2> QED BY <2>2, LenProperties DEF HistOK
<1>2. ASSUME NEW k \in 1 .. Len(g[Gist]), NEW i \in Issuers
      PROVE  \E m \in 1 .. Len(g[i]) :
               g[i][m].val = g[Gist][k].val[i] /\ g[i][m].block =< g[Gist][k].block
  <2>1. i \in Trees /\ Gist \in Trees
    BY DEF Trees
  <2>2. k \in 1 .. Len(h[Gist]) /\ g[Gist][k] = h[Gist][k] /\ g[Gist][k].block =< n
    BY <1>1, <2>1 DEF HistOK
  <2>3. PICK m \in 1 .. Len(h[i]) :
          h[i][m].val = h[Gist][k].val[i] /\ h[i][m].block =< h[Gist][k].block
    BY <2>2 DEF Distinct
  <2>4. h[i][m] \in EntryOf(i) /\ h[Gist][k] \in EntryOf(Gist)
    BY <2>1, <2>2, ElementOfSeq DEF HistOK
  <2>5. h[i][m].block =< n
    BY <2>2, <2>3, <2>4 DEF EntryOf
  <2>6. m =< Len(g[i]) /\ g[i][m] = h[i][m]
    BY <2>1, <2>5 DEF Agree, Keeps
  <2>7. m \in 1 .. Len(g[i])
    BY <2>1, <2>6, LenProperties DEF HistOK
  <2> QED BY <2>2, <2>3, <2>6, <2>7
<1> QED BY <1>1, <1>2 DEF Distinct

\* No step of the chain makes a value occur twice: a state or a root names at
\* most one entry, at any time.
THEOREM ValuesStayUnique ==
  ASSUME ChainInv, Distinct(hist), ContractNext
  PROVE  Distinct(hist')
<1>0. head \in Nat /\ head + 1 \in Nat /\ head =< head + 1 /\ HistOK(hist, head)
  BY DEF ChainInv
<1>1. HistOK(hist, head + 1)
  BY <1>0, HistOKLater
<1>2. CASE MineEmpty
  BY <1>2 DEF MineEmpty, Seal
<1>3. CASE MineOne
  <2>1. PICK i \in Issuers :
          \E s \in Fresh(hist, i) : hist' = Transited(hist, i, s, head + 1)
    BY <1>3 DEF MineOne, Seal
  <2>2. PICK s \in Fresh(hist, i) : hist' = Transited(hist, i, s, head + 1)
    BY <2>1
  <2> QED BY <1>0, <1>1, <2>2, DistinctTransited
<1>4. CASE MineTwo
  <2>0. PICK i \in Issuers, j \in Issuers :
          \E s \in Fresh(hist, i) : \E u \in Fresh(Transited(hist, i, s, head + 1), j) :
            hist' = Transited(Transited(hist, i, s, head + 1), j, u, head + 1)
    BY <1>4 DEF MineTwo, Seal
  <2>1. PICK s \in Fresh(hist, i) : \E u \in Fresh(Transited(hist, i, s, head + 1), j) :
          hist' = Transited(Transited(hist, i, s, head + 1), j, u, head + 1)
    BY <2>0
  <2> DEFINE g == Transited(hist, i, s, head + 1)
  <2>2. PICK u \in Fresh(g, j) : hist' = Transited(g, j, u, head + 1)
    BY <2>1
  <2>3. s \in States
    BY DEF Fresh
  <2>4. HistOK(g, head + 1)
    BY <1>0, <1>1, <2>3, TransitedOK
  <2>5. g = Transited(hist, i, s, head + 1)
    OBVIOUS
  <2> HIDE DEF g
  <2>6. Distinct(g)
    BY <1>0, <1>1, <2>5, DistinctTransited
  <2> QED BY <1>0, <2>2, <2>4, <2>6, DistinctTransited
<1>5. CASE Reorg
  <2>1. PICK n \in final .. head - 1 :
          hist' = [t \in Trees |-> SubSeq(hist[t], 1, MadeUpTo(hist[t], n))]
    BY <1>5 DEF Reorg
  <2>2. n \in Nat /\ n =< head
    BY <1>0, <2>1 DEF ChainInv
  <2>3. HistOK(hist', n) /\ Agree(hist, hist', n)
    BY <1>0, <2>1, <2>2, CutOK
  <2> QED BY <1>0, <2>2, <2>3, DistinctCut
<1> QED BY <1>2, <1>3, <1>4, <1>5 DEF ContractNext

-----------------------------------------------------------------------------
\* Every history still has the entries it started with, and every root made
\* later goes with the entry of the state it was installed for: in the history
\* of its issuer, in the same block, with the value the root commits to.
Paired(h) ==
  /\ \A t \in Trees : Len(h[t]) >= GenesisLen /\ h[t][GenesisLen].block = 0
  /\ \A k \in GenesisLen + 1 .. Len(h[Gist]) :
       /\ h[Gist][k].id \in Issuers
       /\ \E m \in GenesisLen + 1 .. Len(h[h[Gist][k].id]) :
            /\ h[h[Gist][k].id][m].block = h[Gist][k].block
            /\ h[h[Gist][k].id][m].val = h[Gist][k].val[h[Gist][k].id]

\* A block names at most one entry made after the start in each history.
OnePerBlock(h) ==
  \A t \in Trees : \A j \in 1 .. Len(h[t]) : \A k \in GenesisLen + 1 .. Len(h[t]) :
    h[t][j].block = h[t][k].block => j = k

\* The histories the model starts with are as long as GenesisLen says, all of
\* block 0.
LEMMA GenesisEntries ==
  ContractInit => \A t \in Trees : Len(hist[t]) = GenesisLen /\ hist[t][GenesisLen].block = 0
<1> SUFFICES ASSUME ContractInit, NEW t \in Trees
             PROVE  Len(hist[t]) = GenesisLen /\ hist[t][GenesisLen].block = 0
  OBVIOUS
<1> DEFINE e(k) == Entry(IF t = Gist THEN [j \in Issuers |-> k] ELSE k, t, 0)
<1>1. hist[t] = [k \in 1 .. GenesisLen |-> e(k)]
  BY DEF ContractInit
<1>2. GenesisLen \in Nat /\ GenesisLen \in 1 .. GenesisLen
  BY ContractAssumption
<1>3. e(GenesisLen).block = 0
  BY DEF Entry
<1> HIDE DEF e
<1> QED BY <1>1, <1>2, <1>3

\* They are paired, and no entry was made after the start.
LEMMA PairedInit == ContractInit => Paired(hist) /\ OnePerBlock(hist)
<1> SUFFICES ASSUME ContractInit PROVE Paired(hist) /\ OnePerBlock(hist)
  OBVIOUS
<1>1. GenesisLen \in Nat /\ Gist \in Trees
  BY ContractAssumption DEF Trees
<1>2. \A t \in Trees : Len(hist[t]) >= GenesisLen /\ hist[t][GenesisLen].block = 0
                       /\ GenesisLen + 1 .. Len(hist[t]) = {}
  BY <1>1, GenesisEntries
<1> QED BY <1>1, <1>2 DEF Paired, OnePerBlock

\* A transition adds the root and the state it commits to in the same block.
LEMMA PairedTransited ==
  ASSUME NEW b \in Nat, NEW c, NEW h, HistOK(h, c), Paired(h),
         NEW i \in Issuers, NEW s \in States,
         NEW h2, h2 = Transited(h, i, s, b)
  PROVE  Paired(h2)
<1> DEFINE new(t) == Entry(IF t = Gist THEN RootWith(h, i, s) ELSE s, i, b)
<1>0. Appended(h, h2, i, s, b)
  BY TransitedEntries
<1>1. i \in Trees /\ Gist \in Trees /\ i # Gist /\ GenesisLen \in Nat \ {0}
  BY ContractAssumption DEF Trees
<1>2. \A t \in Trees \ {i, Gist} : h2[t] = h[t]
  BY <1>0 DEF Appended
<1>3. \A t \in {i, Gist} :
        /\ Len(h2[t]) = Len(h[t]) + 1
        /\ \A k \in 1 .. Len(h[t]) : h2[t][k] = h[t][k]
        /\ h2[t][Len(h[t]) + 1] = new(t)
  BY <1>0 DEF Appended
<1>4. \A t \in Trees : Len(h[t]) \in Nat /\ Len(h[t]) >= GenesisLen
  BY LenProperties DEF HistOK, Paired
<1>5. /\ new(i).val = s /\ new(i).block = b
      /\ new(Gist).val[i] = s /\ new(Gist).block = b /\ new(Gist).id = i
  BY <1>1 DEF Entry, RootWith
<1> HIDE DEF new
<1>6. ASSUME NEW t \in Trees, NEW k \in 1 .. Len(h[t])
      PROVE  k \in 1 .. Len(h2[t]) /\ h2[t][k] = h[t][k]
  BY <1>2, <1>3, <1>4
<1>7. ASSUME NEW t \in Trees
      PROVE  Len(h2[t]) >= GenesisLen /\ h2[t][GenesisLen].block = 0
  <2>1. GenesisLen \in 1 .. Len(h[t])
    BY <1>1, <1>4
  <2>2. h[t][GenesisLen].block = 0
    BY DEF Paired
  <2>3. Len(h2[t]) \in Nat
    BY <1>2, <1>3, <1>4
  <2> QED BY <1>6, <2>1, <2>2, <2>3
<1>8. ASSUME NEW k \in GenesisLen + 1 .. Len(h2[Gist])
      PROVE  /\ h2[Gist][k].id \in Issuers
             /\ \E m \in GenesisLen + 1 .. Len(h2[h2[Gist][k].id]) :
                  /\ h2[h2[Gist][k].id][m].block = h2[Gist][k].block
                  /\ h2[h2[Gist][k].id][m].val = h2[Gist][k].val[h2[Gist][k].id]
  <2>1. CASE k \in GenesisLen + 1 .. Len(h[Gist])
    <3>1. k \in 1 .. Len(h[Gist]) /\ h2[Gist][k] = h[Gist][k]
      BY <1>1, <1>4, <1>6, <2>1
    <3> DEFINE j == h[Gist][k].id
    <3>2. j \in Issuers
      BY <2>1 DEF Paired
    <3>3. PICK m \in GenesisLen + 1 .. Len(h[j]) :
            h[j][m].block = h[Gist][k].block /\ h[j][m].val = h[Gist][k].val[j]
      BY <2>1 DEF Paired
    <3>4. j \in Trees
      BY <3>2 DEF Trees
    <3>5. m \in 1 .. Len(h[j])
      BY <1>1, <1>4, <3>4
    <3>6. m \in GenesisLen + 1 .. Len(h2[j]) /\ h2[j][m] = h[j][m]
      BY <1>1, <1>6, <3>4, <3>5
    <3>7. h2[Gist][k].id = j
      BY <3>1
    <3> HIDE DEF j
    <3> QED BY <3>1, <3>2, <3>3, <3>6, <3>7
  <2>2. CASE k = Len(h[Gist]) + 1
    <3>1. h2[Gist][k] = new(Gist) /\ h2[i][Len(h[i]) + 1] = new(i)
      BY <1>3, <2>2
    <3>2. Len(h[i]) + 1 \in GenesisLen + 1 .. Len(h2[i])
      BY <1>1, <1>3, <1>4
    <3> QED BY <1>5, <3>1, <3>2
  <2> QED BY <1>1, <1>3, <1>4, <2>1, <2>2
<1> QED BY <1>7, <1>8 DEF Paired

\* What a reorganisation leaves is paired too: the two entries of a transition
\* stay or go together, for they are of the same block.
LEMMA PairedCut ==
  ASSUME NEW b \in Nat, NEW n \in Nat, n =< b, NEW h, HistOK(h, b), Paired(h),
         NEW g, HistOK(g, n), Agree(h, g, n)
  PROVE  Paired(g)
<1>0. GenesisLen \in Nat \ {0} /\ Gist \in Trees
  BY ContractAssumption DEF Trees
<1>1. ASSUME NEW t \in Trees, NEW k \in 1 .. Len(g[t])
      PROVE  k \in 1 .. Len(h[t]) /\ g[t][k] = h[t][k] /\ g[t][k].block =< n
  <2>1. g[t][k].block =< n
    BY DEF HistOK
  <2>2. k =< Len(h[t]) /\ h[t][k] = g[t][k]
    BY <2>1 DEF Agree, Keeps
  <2> QED BY <2>1, <2>2, LenProperties DEF HistOK
<1>2. ASSUME NEW t \in Trees
      PROVE  Len(g[t]) >= GenesisLen /\ g[t][GenesisLen].block = 0
  <2>1. Len(h[t]) \in Nat /\ Len(h[t]) >= GenesisLen /\ h[t][GenesisLen].block = 0
    BY LenProperties DEF HistOK, Paired
  <2>2. GenesisLen \in 1 .. Len(h[t]) /\ h[t][GenesisLen].block =< n
    BY <1>0, <2>1
  <2>3. GenesisLen =< Len(g[t]) /\ g[t][GenesisLen] = h[t][GenesisLen]
    BY <2>2 DEF Agree, Keeps
  <2>4. Len(g[t]) \in Nat
    BY LenProperties DEF HistOK
  <2> QED BY <1>0, <2>1, <2>3, <2>4
<1>3. ASSUME NEW k \in GenesisLen + 1 .. Len(g[Gist])
      PROVE  /\ g[Gist][k].id \in Issuers
             /\ \E m \in GenesisLen + 1 .. Len(g[g[Gist][k].id]) :
                  /\ g[g[Gist][k].id][m].block = g[Gist][k].block
                  /\ g[g[Gist][k].id][m].val = g[Gist][k].val[g[Gist][k].id]
  <2>0. Len(g[Gist]) \in Nat /\ Len(h[Gist]) \in Nat
    BY <1>0, LenProperties DEF HistOK
  <2>1. k \in 1 .. Len(h[Gist]) /\ g[Gist][k] = h[Gist][k] /\ g[Gist][k].block =< n
    <3>1. k \in 1 .. Len(g[Gist])
      BY <1>0, <2>0
    <3> QED BY <1>0, <1>1, <3>1
  <2> DEFINE j == h[Gist][k].id
  <2>2. k \in GenesisLen + 1 .. Len(h[Gist]) /\ j \in Issuers
    BY <1>0, <2>0, <2>1 DEF Paired
  <2>3. PICK m \in GenesisLen + 1 .. Len(h[j]) :
          h[j][m].block = h[Gist][k].block /\ h[j][m].val = h[Gist][k].val[j]
    BY <2>2 DEF Paired
  <2>4. j \in Trees
    BY <2>2 DEF Trees
  <2>5. Len(h[j]) \in Nat /\ Len(g[j]) \in Nat
    BY <2>4, LenProperties DEF HistOK
  <2>6. m \in 1 .. Len(h[j]) /\ h[j][m].block =< n
    BY <1>0, <2>1, <2>3, <2>5
  <2>7. m =< Len(g[j]) /\ g[j][m] = h[j][m]
    BY <2>4, <2>6 DEF Agree, Keeps
  <2>8. m \in GenesisLen + 1 .. Len(g[j])
    BY <1>0, <2>5, <2>7
  <2>9. g[Gist][k].id = j
    BY <2>1
  <2> HIDE DEF j
  <2> QED BY <2>1, <2>2, <2>3, <2>7, <2>8, <2>9
<1> QED BY <1>2, <1>3 DEF Paired

\* No step of the chain parts a root from the state it was installed for.
THEOREM RootsStayPaired ==
  ASSUME ChainInv, Paired(hist), ContractNext
  PROVE  Paired(hist')
<1>0. head \in Nat /\ head + 1 \in Nat /\ head =< head + 1 /\ HistOK(hist, head)
  BY DEF ChainInv
<1>1. HistOK(hist, head + 1)
  BY <1>0, HistOKLater
<1>2. CASE MineEmpty
  BY <1>2 DEF MineEmpty, Seal
<1>3. CASE MineOne
  <2>1. PICK i \in Issuers, s \in States : hist' = Transited(hist, i, s, head + 1)
    BY <1>3 DEF MineOne, Seal, Fresh
  <2> QED BY <1>0, <1>1, <2>1, PairedTransited
<1>4. CASE MineTwo
  <2>1. PICK i \in Issuers, j \in Issuers, s \in States, u \in States :
          hist' = Transited(Transited(hist, i, s, head + 1), j, u, head + 1)
    BY <1>4 DEF MineTwo, Seal, Fresh
  <2> DEFINE g == Transited(hist, i, s, head + 1)
  <2>2. HistOK(g, head + 1)
    BY <1>0, <1>1, TransitedOK
  <2>3. Paired(g)
    <3>1. g = Transited(hist, i, s, head + 1)
      OBVIOUS
    <3> HIDE DEF g
    <3> QED BY <1>0, <1>1, <3>1, PairedTransited
  <2>4. hist' = Transited(g, j, u, head + 1)
    BY <2>1
  <2> HIDE DEF g
  <2> QED BY <1>0, <2>2, <2>3, <2>4, PairedTransited
<1>5. CASE Reorg
  <2>1. PICK n \in final .. head - 1 :
          hist' = [t \in Trees |-> SubSeq(hist[t], 1, MadeUpTo(hist[t], n))]
    BY <1>5 DEF Reorg
  <2>2. n \in Nat /\ n =< head
    BY <1>0, <2>1 DEF ChainInv
  <2>3. HistOK(hist', n) /\ Agree(hist, hist', n)
    BY <1>0, <2>1, <2>2, CutOK
  <2> QED BY <1>0, <2>2, <2>3, PairedCut
<1> QED BY <1>2, <1>3, <1>4, <1>5 DEF ContractNext

\* Where no block carries two transitions, its number stays the name of one
\* entry of each history.
THEOREM BlocksStayUnique ==
  ASSUME TxPerBlock = 1, ChainInv, OnePerBlock(hist), ContractNext
  PROVE  OnePerBlock(hist')
<1>0. /\ head \in Nat /\ head + 1 \in Nat /\ head =< head + 1 /\ HistOK(hist, head)
      /\ GenesisLen \in Nat
  BY ContractAssumption DEF ChainInv
<1>1. \A t \in Trees : Len(hist[t]) \in Nat
  BY <1>0, LenProperties DEF HistOK
<1>2. CASE MineEmpty
  BY <1>2 DEF MineEmpty, Seal
<1>3. CASE MineOne
  <2>1. PICK i \in Issuers, s \in States : hist' = Transited(hist, i, s, head + 1)
    BY <1>3 DEF MineOne, Seal, Fresh
  <2> DEFINE n == head + 1
  <2>0. Appended(hist, hist', i, s, n)
    <3>1. n \in Nat /\ hist' = Transited(hist, i, s, n)
      BY <1>0, <2>1
    <3> HIDE DEF n
    <3>2. ASSUME NEW h2, h2 = Transited(hist, i, s, n) PROVE Appended(hist, h2, i, s, n)
      BY <1>0, <3>1, <3>2, TransitedEntries
    <3> QED BY <3>1, <3>2
  <2>2. \A t \in Trees \ {i, Gist} : hist'[t] = hist[t]
    BY <2>0 DEF Appended
  <2>3. \A t \in {i, Gist} :
          /\ Len(hist'[t]) = Len(hist[t]) + 1
          /\ \A k \in 1 .. Len(hist[t]) : hist'[t][k] = hist[t][k]
          /\ hist'[t][Len(hist[t]) + 1].block = head + 1
    <3> DEFINE new(t) == Entry(IF t = Gist THEN RootWith(hist, i, s) ELSE s, i, n)
    <3>1. \A t \in {i, Gist} :
            /\ Len(hist'[t]) = Len(hist[t]) + 1
            /\ \A k \in 1 .. Len(hist[t]) : hist'[t][k] = hist[t][k]
            /\ hist'[t][Len(hist[t]) + 1] = new(t)
      <4> HIDE DEF n
      <4> QED BY <2>0 DEF Appended
    <3>2. \A t \in {i, Gist} : new(t).block = head + 1
      BY DEF Entry
    <3> HIDE DEF new
    <3> QED BY <3>1, <3>2
  <2> SUFFICES ASSUME NEW t \in Trees, NEW j \in 1 .. Len(hist'[t]),
                      NEW k \in GenesisLen + 1 .. Len(hist'[t]),
                      hist'[t][j].block = hist'[t][k].block
               PROVE  j = k
    BY DEF OnePerBlock
  <2>4. CASE t \notin {i, Gist}
    BY <2>2, <2>4 DEF OnePerBlock
  <2>5. CASE t \in {i, Gist}
    <3>1. ASSUME NEW m \in 1 .. Len(hist'[t])
          PROVE  \/ m \in 1 .. Len(hist[t]) /\ hist'[t][m] = hist[t][m]
                    /\ hist'[t][m].block # head + 1
                 \/ m = Len(hist[t]) + 1 /\ hist'[t][m].block = head + 1
      <4>1. CASE m = Len(hist[t]) + 1
        BY <2>3, <2>5, <4>1
      <4>2. CASE m # Len(hist[t]) + 1
        <5>1. m \in 1 .. Len(hist[t])
          BY <1>1, <2>3, <2>5, <4>2
        <5>2. hist'[t][m] = hist[t][m] /\ hist[t][m].block =< head
          BY <1>0, <2>3, <2>5, <5>1 DEF HistOK
        <5>3. hist[t][m] \in EntryOf(t)
          BY <1>0, <5>1, ElementOfSeq DEF HistOK
        <5>4. hist[t][m].block \in Nat
          BY <5>3 DEF EntryOf
        <5> QED BY <1>0, <5>1, <5>2, <5>4
      <4> QED BY <4>1, <4>2
    <3>2. k \in 1 .. Len(hist'[t]) /\ Len(hist'[t]) \in Nat
      BY <1>0, <1>1, <2>3, <2>5
    <3>3. CASE j = Len(hist[t]) + 1 \/ k = Len(hist[t]) + 1
      BY <1>1, <3>1, <3>2, <3>3
    <3>4. CASE j \in 1 .. Len(hist[t]) /\ k \in 1 .. Len(hist[t])
      <4>1. k \in GenesisLen + 1 .. Len(hist[t])
        BY <1>0, <1>1, <3>4
      <4>2. hist[t][j].block = hist[t][k].block
        BY <2>3, <2>5, <3>4
      <4> QED BY <3>4, <4>1, <4>2 DEF OnePerBlock
    <3> QED BY <3>1, <3>2, <3>3, <3>4
  <2> QED BY <2>4, <2>5
<1>4. CASE MineTwo
  BY <1>4 DEF MineTwo
<1>5. CASE Reorg
  <2>1. PICK n \in final .. head - 1 :
          hist' = [t \in Trees |-> SubSeq(hist[t], 1, MadeUpTo(hist[t], n))]
    BY <1>5 DEF Reorg
  <2>2. n \in Nat /\ n =< head
    BY <1>0, <2>1 DEF ChainInv
  <2>3. HistOK(hist', n) /\ Agree(hist, hist', n)
    BY <1>0, <2>1, <2>2, CutOK
  <2>4. ASSUME NEW t \in Trees, NEW k \in 1 .. Len(hist'[t])
        PROVE  k \in 1 .. Len(hist[t]) /\ hist'[t][k] = hist[t][k]
    <3>1. hist'[t][k].block =< n
      BY <2>3 DEF HistOK
    <3>2. k =< Len(hist[t]) /\ hist[t][k] = hist'[t][k]
      BY <2>3, <3>1 DEF Agree, Keeps
    <3> QED BY <1>1, <3>2
  <2>5. ASSUME NEW t \in Trees, NEW j \in 1 .. Len(hist'[t]),
               NEW k \in GenesisLen + 1 .. Len(hist'[t]),
               hist'[t][j].block = hist'[t][k].block
        PROVE  j = k
    <3>1. k \in 1 .. Len(hist'[t])
      <4>1. Len(hist'[t]) \in Nat
        BY <2>3, LenProperties DEF HistOK
      <4> QED BY <1>0, <4>1
    <3>2. k \in GenesisLen + 1 .. Len(hist[t]) /\ j \in 1 .. Len(hist[t])
      BY <1>0, <1>1, <2>4, <3>1
    <3>3. hist[t][j].block = hist[t][k].block
      BY <2>4, <2>5, <3>1
    <3> QED BY <3>2, <3>3 DEF OnePerBlock
  <2> QED BY <2>5 DEF OnePerBlock
<1> QED BY <1>2, <1>3, <1>4, <1>5 DEF ContractNext

-----------------------------------------------------------------------------
\* What a history says at position k, and that it says so somewhere.
OpIn(h, t, k) == [tree |-> t, new |-> h[t][k].val, block |-> h[t][k].block,
                  old |-> h[t][k - 1].val]
GenuineIn(h, op) ==
  /\ op.tree \in Trees
  /\ \E k \in 2 .. Len(h[op.tree]) : op = OpIn(h, op.tree, k)

\* Where one history says what a final operation does, a history that keeps the
\* final entries says it too, at the same position.
LEMMA PositionKept ==
  ASSUME NEW g, NEW h, NEW b, NEW c, HistOK(g, b), HistOK(h, c),
         NEW n \in Nat, Keeps(g, h, n),
         NEW t \in Trees, NEW k \in 2 .. Len(g[t]), g[t][k].block =< n
  PROVE  /\ k \in 2 .. Len(h[t]) /\ OpIn(h, t, k) = OpIn(g, t, k)
         /\ h[t][k] = g[t][k] /\ h[t][k - 1] = g[t][k - 1]
<1>1. g[t] \in Seq(EntryOf(t)) /\ Len(g[t]) \in Nat /\ Len(h[t]) \in Nat
  BY LenProperties DEF HistOK
<1>2. k \in 1 .. Len(g[t]) /\ k - 1 \in 1 .. Len(g[t]) /\ k - 1 =< k
  BY <1>1
<1>3. g[t][k] \in EntryOf(t) /\ g[t][k - 1] \in EntryOf(t)
  BY <1>1, <1>2, ElementOfSeq
<1>4. g[t][k - 1].block =< n
  <2>1. g[t][k - 1].block =< g[t][k].block
    BY <1>1, <1>2 DEF HistOK
  <2>2. g[t][k - 1].block \in Nat /\ g[t][k].block \in Nat
    BY <1>3 DEF EntryOf
  <2> QED BY <2>1, <2>2
<1>5. k =< Len(h[t]) /\ h[t][k] = g[t][k] /\ h[t][k - 1] = g[t][k - 1]
  BY <1>2, <1>4 DEF Keeps
<1>6. k \in 2 .. Len(h[t])
  BY <1>1, <1>5
<1> QED BY <1>5, <1>6 DEF OpIn

\* So what is genuine and final in the one is genuine in the other.
LEMMA GenuineKept ==
  ASSUME NEW g, NEW h, NEW b, NEW c, HistOK(g, b), HistOK(h, c),
         NEW n \in Nat, Keeps(g, h, n),
         NEW op, GenuineIn(g, op), op.block =< n
  PROVE  GenuineIn(h, op)
<1>1. PICK k \in 2 .. Len(g[op.tree]) : op = OpIn(g, op.tree, k)
  BY DEF GenuineIn
<1>2. op.tree \in Trees /\ g[op.tree][k].block =< n
  BY <1>1 DEF GenuineIn, OpIn
<1>3. k \in 2 .. Len(h[op.tree]) /\ OpIn(h, op.tree, k) = OpIn(g, op.tree, k)
  BY <1>2, PositionKept
<1> QED BY <1>1, <1>2, <1>3 DEF GenuineIn

\* An operation that is genuine and final stays so.
LEMMA GenuineForever ==
  ASSUME ChainInv, NEW op, Genuine(op), op.block =< final,
         Keeps(hist, hist', final), HistOK(hist', head')
  PROVE  Genuine(op)'
<1>1. GenuineIn(hist, op)
  BY DEF Genuine, GenuineIn, OpAt, OpIn
<1>2. GenuineIn(hist', op)
  BY <1>1, GenuineKept DEF ChainInv
<1> QED BY <1>2 DEF Genuine, GenuineIn, OpAt, OpIn
=============================================================================
