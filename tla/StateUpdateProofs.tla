-------------------------- MODULE StateUpdateProofs --------------------------
(* What a lookup of internal/rarimo/stateupdate.go returns. *)
EXTENDS StateUpdate, StateContractProofs

\* Every page lies within the history.
LEMMA PagesInHistory ==
  ASSUME NEW len \in Nat, StatesPerRequest # 0, NEW p \in PageStarts(len)
  PROVE  p \in 2 .. len /\ p + StatesPerRequest - 1 =< len
<1>1. StatesPerRequest \in Nat /\ StatesPerRequest - 1 \in Nat
  BY PageAssumption
<1>2. PICK n \in 0 .. len : p = len - StatesPerRequest - n * (StatesPerRequest - 1) + 1
  BY DEF PageStarts
<1>3. n * (StatesPerRequest - 1) \in Nat
  BY <1>1
<1>4. p \in 2 .. len
  BY DEF PageStarts
<1> QED BY <1>1, <1>2, <1>3, <1>4

\* A lookup that finds something returns the position of a transition made in
\* the block asked for, and the entry it replaced is in the history too.
THEOREM LookupSound ==
  ASSUME NEW S, NEW h \in Seq(S), NEW b, Lookup(h, b) # NotFound
  PROVE  Lookup(h, b) \in 2 .. Len(h) /\ h[Lookup(h, b)].block = b
<1> DEFINE hits == IF Len(h) =< StatesPerRequest \/ StatesPerRequest = 0 THEN {}
                   ELSE {p \in PageStarts(Len(h)) : Matches(h, p, b) # {}}
           newest == CHOOSE p \in hits : \A q \in hits : q =< p
           found  == Matches(h, newest, b)
           result == CHOOSE k \in found : \A m \in found : k =< m
<1>1. Lookup(h, b) = IF hits = {} THEN NotFound ELSE result
  BY DEF Lookup
<1>2. hits # {} /\ Lookup(h, b) = result
  BY <1>1
<1>3. StatesPerRequest # 0 /\ hits = {p \in PageStarts(Len(h)) : Matches(h, p, b) # {}}
  BY <1>2
<1>4. Len(h) \in Nat /\ StatesPerRequest \in Nat
  BY LenProperties, PageAssumption
<1>5. newest \in hits
  <2>1. hits \in SUBSET Nat /\ \A p \in hits : p =< Len(h)
    BY <1>3, <1>4 DEF PageStarts
  <2> HIDE DEF hits
  <2>2. \E p \in hits : \A q \in hits : q =< p
    BY <1>2, <1>4, <2>1, Largest
  <2> QED BY <2>2
<1>6. newest \in PageStarts(Len(h)) /\ found # {}
  BY <1>3, <1>5
<1> HIDE DEF newest
<1>7. newest \in 2 .. Len(h) /\ newest + StatesPerRequest - 1 =< Len(h)
  BY <1>3, <1>4, <1>6, PagesInHistory
<1>8. \A k \in found : k \in 2 .. Len(h) /\ h[k].block = b
  BY <1>4, <1>7 DEF Matches
<1>9. result \in found
  <2>1. found \in SUBSET Nat
    BY <1>8
  <2> HIDE DEF found
  <2>2. \E k \in found : \A m \in found : k =< m
    BY <1>6, <2>1, Smallest
  <2> QED BY <2>2
<1> HIDE DEF result, found
<1> QED BY <1>2, <1>8, <1>9

-----------------------------------------------------------------------------
\* A multiple is at least what is multiplied.
LEMMA Multiple == \A n, x \in Nat : n # 0 => x =< n * x
<1> SUFFICES ASSUME NEW n \in Nat, NEW x \in Nat, n # 0 PROVE x =< n * x
  OBVIOUS
<1>1. n - 1 \in Nat
  OBVIOUS
<1>2. (n - 1) * x \in Nat
  BY <1>1
<1>3. n * x = (n - 1) * x + x
  OBVIOUS
<1> QED BY <1>2, <1>3

\* The first page of a history ends with it, and is the newest.
LEMMA FirstPage ==
  ASSUME NEW len \in Nat, StatesPerRequest # 0, len > StatesPerRequest
  PROVE  /\ len - StatesPerRequest + 1 \in PageStarts(len)
         /\ \A q \in PageStarts(len) : q =< len - StatesPerRequest + 1
<1>1. StatesPerRequest \in Nat /\ StatesPerRequest - 1 \in Nat
  BY PageAssumption
<1>2. 0 * (StatesPerRequest - 1) = 0
  BY <1>1
<1>3. len - StatesPerRequest + 1 \in PageStarts(len)
  BY <1>1, <1>2 DEF PageStarts
<1>4. ASSUME NEW q \in PageStarts(len) PROVE q =< len - StatesPerRequest + 1
  BY <1>1, PagesInHistory
<1> QED BY <1>3, <1>4

\* From every page the next one follows, unless it would start too early.
LEMMA NextPage ==
  ASSUME NEW len \in Nat, StatesPerRequest # 0, NEW p \in PageStarts(len),
         p - (StatesPerRequest - 1) > 2
  PROVE  p - (StatesPerRequest - 1) \in PageStarts(len)
<1> DEFINE x == StatesPerRequest - 1
<1>1. StatesPerRequest \in Nat /\ x \in Nat /\ p \in 2 .. len
  BY PageAssumption, PagesInHistory
<1>2. PICK n \in 0 .. len : p = len - StatesPerRequest - n * x + 1
  BY DEF PageStarts
<1>3. CASE x = 0
  BY <1>1, <1>3
<1>4. CASE x # 0
  <2>1. n * x \in Nat /\ (n + 1) * x = n * x + x
    BY <1>1
  <2>2. p - x = len - StatesPerRequest - (n + 1) * x + 1
    BY <1>1, <1>2, <2>1
  <2>3. n + 1 =< (n + 1) * x
    <3>1. (n + 1) * x = x * (n + 1)
      BY <1>1
    <3>2. n + 1 \in Nat
      OBVIOUS
    <3> QED BY <1>1, <1>4, <3>1, <3>2, Multiple
  <2>4. n + 1 \in 0 .. len
    BY <1>1, <2>1, <2>2, <2>3
  <2>5. p - x \in 2 .. len
    BY <1>1
  <2> HIDE DEF x
  <2>6. \E m \in 0 .. len : p - x = len - StatesPerRequest - m * x + 1
    BY <2>2, <2>4
  <2> QED BY <2>5, <2>6 DEF PageStarts, x
<1> QED BY <1>3, <1>4

\* Two pages that differ are a page, less one entry, apart.
LEMMA PagesApart ==
  ASSUME NEW len \in Nat, StatesPerRequest # 0,
         NEW p \in PageStarts(len), NEW q \in PageStarts(len), q < p
  PROVE  q + (StatesPerRequest - 1) =< p
<1> DEFINE x == StatesPerRequest - 1
<1>1. StatesPerRequest \in Nat /\ x \in Nat /\ p \in 2 .. len /\ q \in 2 .. len
  BY PageAssumption, PagesInHistory
<1>2. PICK n \in 0 .. len : p = len - StatesPerRequest - n * x + 1
  BY DEF PageStarts
<1>3. PICK m \in 0 .. len : q = len - StatesPerRequest - m * x + 1
  BY DEF PageStarts
<1>4. n * x \in Nat /\ m * x \in Nat
  BY <1>1
<1>5. n * x < m * x
  BY <1>1, <1>2, <1>3, <1>4
<1>6. n < m
  <2>1. ASSUME m =< n PROVE FALSE
    <3>1. n - m \in Nat
      BY <2>1
    <3>2. n * x = m * x + (n - m) * x /\ (n - m) * x \in Nat
      BY <1>1, <3>1
    <3> QED BY <1>4, <1>5, <3>2
  <2> QED BY <2>1
<1>7. m - n \in Nat /\ m - n # 0
  BY <1>6
<1>8. x =< (m - n) * x
  BY <1>1, <1>7, Multiple
<1>9. m * x = n * x + (m - n) * x /\ (m - n) * x \in Nat
  BY <1>1, <1>7
<1>10. p - q = (m - n) * x
  BY <1>1, <1>2, <1>3, <1>4, <1>9
<1> QED BY <1>1, <1>8, <1>9, <1>10

\* A lookup returns the oldest transition of the newest page that has any.
LEMMA LookupHit ==
  ASSUME NEW h, NEW b, Len(h) \in Nat, StatesPerRequest # 0, Len(h) > StatesPerRequest,
         NEW p \in PageStarts(Len(h)), NEW k \in Matches(h, p, b),
         \A m \in Matches(h, p, b) : k =< m,
         \A q \in PageStarts(Len(h)) : q > p => Matches(h, q, b) = {}
  PROVE  Lookup(h, b) = k
<1> DEFINE hits == {q \in PageStarts(Len(h)) : Matches(h, q, b) # {}}
           newest == CHOOSE q \in hits : \A r \in hits : r =< q
           found  == Matches(h, newest, b)
           result == CHOOSE m \in found : \A n \in found : m =< n
<1>1. StatesPerRequest \in Nat /\ PageStarts(Len(h)) \subseteq Nat
  BY PageAssumption DEF PageStarts
<1>2. p \in hits /\ \A r \in hits : r =< p
  BY <1>1
<1>3. \A q \in hits : (\A r \in hits : r =< q) => q = p
  BY <1>1, <1>2
<1>4. Lookup(h, b) = result
  <2> DEFINE searched == IF Len(h) =< StatesPerRequest \/ StatesPerRequest = 0 THEN {}
                         ELSE {q \in PageStarts(Len(h)) : Matches(h, q, b) # {}}
             newestOf(s) == CHOOSE q \in s : \A r \in s : r =< q
             foundIn(s)  == Matches(h, newestOf(s), b)
             chosen(s)   == CHOOSE m \in foundIn(s) : \A n \in foundIn(s) : m =< n
  <2>1. Lookup(h, b) = IF searched = {} THEN NotFound ELSE chosen(searched)
    BY DEF Lookup
  <2>2. searched = hits
    BY <1>1
  <2>3. chosen(hits) = result
    OBVIOUS
  <2>4. hits # {}
    BY <1>2
  <2> HIDE DEF searched, hits, chosen, result
  <2> QED BY <2>1, <2>2, <2>3, <2>4
<1> HIDE DEF hits
<1>5. newest = p
  BY <1>2, <1>3
<1> HIDE DEF newest
<1>6. found = Matches(h, p, b) /\ found \subseteq Int
  BY <1>1, <1>5 DEF Matches
<1> HIDE DEF found
<1>7. k \in found /\ \A m \in found : k =< m
  BY <1>6
<1>8. \A m \in found : (\A n \in found : m =< n) => m = k
  BY <1>6, <1>7
<1>9. result = k
  BY <1>7, <1>8
<1> QED BY <1>4, <1>9
-----------------------------------------------------------------------------
\* The pages leave nothing out but the oldest entries: every position above
\* StatesPerRequest + 1 is in a page, together with the one before it.
LEMMA PagesCover ==
  ASSUME NEW len \in Nat, StatesPerRequest \notin {0, 1},
         NEW k \in StatesPerRequest + 2 .. len
  PROVE  \E p \in PageStarts(len) : k \in p + 1 .. p + StatesPerRequest - 1
<1> DEFINE x == StatesPerRequest - 1
           Past == {m \in Nat : len - k < m * x}
<1>1. /\ StatesPerRequest \in Nat /\ x \in Nat /\ x # 0 /\ x = StatesPerRequest - 1
      /\ k \in Nat /\ k >= StatesPerRequest + 2 /\ k =< len /\ len - k \in Nat
  BY PageAssumption
<1> HIDE DEF x
<1>2. PICK m \in Past : \A n \in Past : m =< n
  <2>1. len - k + 1 \in Nat /\ x * (len - k + 1) = (len - k + 1) * x
    BY <1>1
  <2>2. len - k + 1 =< (len - k + 1) * x
    <3>1. \A n \in Nat : n =< x * n
      BY <1>1, Multiple
    <3> QED BY <2>1, <3>1
  <2>3. (len - k + 1) * x \in Nat
    BY <1>1, <2>1
  <2>4. len - k + 1 \in Past
    BY <1>1, <2>1, <2>2, <2>3
  <2>5. Past \in SUBSET Nat /\ Past # {}
    BY <2>4
  <2> HIDE DEF Past
  <2> QED BY <2>5, Smallest
<1>3. m \in Nat /\ len - k < m * x
  BY <1>2
<1>4. m # 0
  <2>1. 0 * x = 0
    BY <1>1
  <2> QED BY <1>1, <1>3, <2>1
<1> DEFINE n == m - 1
<1>5. n \in Nat /\ n + 1 = m /\ m * x = n * x + x /\ n * x \in Nat
  BY <1>1, <1>3, <1>4
<1>6. n * x =< len - k
  <2>1. n \notin Past
    BY <1>2, <1>3, <1>5
  <2> QED BY <1>1, <1>5, <2>1
<1> DEFINE p == len - StatesPerRequest - n * x + 1
<1>7. /\ p = len - x - n * x /\ p + x = len - n * x
      /\ p \in Int /\ k >= p + 1 /\ k =< p + x
  BY <1>1, <1>3, <1>5, <1>6
<1>8. p > 2 /\ p =< len
  BY <1>1, <1>5, <1>7
<1>9. n \in 0 .. len
  <2>1. n =< n * x
    <3>1. n * x = x * n
      BY <1>1, <1>5
    <3> QED BY <1>1, <1>5, <3>1, Multiple
  <2> QED BY <1>1, <1>5, <1>6, <2>1
<1>10. p \in PageStarts(len)
  <2>1. p \in 2 .. len
    BY <1>7, <1>8
  <2>2. p = len - StatesPerRequest - n * (StatesPerRequest - 1) + 1
    BY DEF x
  <2> HIDE DEF p, n
  <2> QED BY <1>8, <1>9, <2>1, <2>2 DEF PageStarts
<1>11. k \in p + 1 .. p + StatesPerRequest - 1
  BY <1>1, <1>7
<1> HIDE DEF p
<1> QED BY <1>10, <1>11

\* A lookup finds a transition of every block that has one, as long as it is
\* not among the oldest entries of the history, which no page covers.
THEOREM LookupComplete ==
  ASSUME NEW S, NEW h \in Seq(S), NEW b, StatesPerRequest \notin {0, 1},
         NEW k \in StatesPerRequest + 2 .. Len(h), h[k].block = b
  PROVE  Lookup(h, b) # NotFound
<1> DEFINE hits == IF Len(h) =< StatesPerRequest \/ StatesPerRequest = 0 THEN {}
                   ELSE {p \in PageStarts(Len(h)) : Matches(h, p, b) # {}}
           newest == CHOOSE p \in hits : \A q \in hits : q =< p
           found  == Matches(h, newest, b)
           result == CHOOSE m \in found : \A n \in found : m =< n
<1>1. Lookup(h, b) = IF hits = {} THEN NotFound ELSE result
  BY DEF Lookup
<1>2. Len(h) \in Nat /\ StatesPerRequest \in Nat
  BY LenProperties, PageAssumption
<1>3. hits = {p \in PageStarts(Len(h)) : Matches(h, p, b) # {}}
  BY <1>2
<1>4. hits # {}
  <2>1. PICK p \in PageStarts(Len(h)) : k \in p + 1 .. p + StatesPerRequest - 1
    BY <1>2, PagesCover
  <2>2. k \in Matches(h, p, b)
    BY <2>1 DEF Matches
  <2> QED BY <1>3, <2>2
<1>5. newest \in hits
  <2>1. hits \in SUBSET Nat /\ \A p \in hits : p =< Len(h)
    BY <1>2, <1>3 DEF PageStarts
  <2> HIDE DEF hits
  <2>2. \E p \in hits : \A q \in hits : q =< p
    BY <1>2, <1>4, <2>1, Largest
  <2> QED BY <2>2
<1>6. newest \in PageStarts(Len(h)) /\ found # {}
  BY <1>3, <1>5
<1> HIDE DEF newest
<1>7. found \in SUBSET Nat /\ 0 \notin found
  <2>1. newest \in 2 .. Len(h)
    BY <1>6 DEF PageStarts
  <2> QED BY <1>2, <2>1 DEF Matches
<1>8. result \in found
  <2> HIDE DEF found
  <2>1. \E m \in found : \A n \in found : m =< n
    BY <1>6, <1>7, Smallest
  <2> QED BY <2>1
<1> HIDE DEF hits, result, found
<1> QED BY <1>1, <1>4, <1>7, <1>8 DEF NotFound
=============================================================================
