--------------------------- MODULE LogIteratorProofs ---------------------------
(***************************************************************************)
(* What the iterator yields, for every capacity of the channel and every   *)
(* window.                                                                 *)
(***************************************************************************)
EXTENDS LogIterator, SequenceTheorems, TLAPS

\* The number of logs Next has received.
Received == Len(yielded) + IF fail THEN 1 ELSE 0

\* Every log that was pushed is yielded, waits in the channel, or is the one
\* that could not be decoded; Next takes the goroutine for done only when it is.
Inv ==
  /\ TypeOK
  /\ \A k \in 1 .. Len(yielded) : yielded[k] = k
  /\ sent = Received + Len(logs)
  /\ \A k \in 1 .. Len(logs) : logs[k] = Received + k
  /\ fail => pc = "ended" /\ Len(yielded) + 1 \in bad
  /\ ~running => sent = found
  /\ done => ~running
  /\ pc = "ended" /\ ~fail => ~running /\ logs = <<>>

\* Nothing is pushed or yielded before the iteration begins.
LEMMA InitInv == Init => Inv
<1> SUFFICES ASSUME Init PROVE Inv
  OBVIOUS
<1>1. found \in Nat /\ bad \subseteq 1 .. found /\ found \in 0 .. MaxLogs
  BY IteratorAssumption DEF Init
<1>2. logs \in Seq(1 .. found) /\ yielded \in Seq(1 .. found) /\ Len(logs) = 0 /\ Len(yielded) = 0
  BY DEF Init
<1>3. ~fail /\ pc = "next" /\ ~done /\ running /\ sent = 0
  BY DEF Init
<1>4. Received = 0
  BY <1>2, <1>3 DEF Received
<1>5. TypeOK
  <2>1. {running, done, fail} \subseteq BOOLEAN
    BY Zenon DEF Init
  <2>2. Len(logs) =< Buffer
    BY <1>2, IteratorAssumption
  <2>3. sent \in 0 .. found
    BY <1>1, <1>3
  <2> QED BY <1>1, <1>2, <1>3, <2>1, <2>2, <2>3 DEF TypeOK
<1> QED BY <1>1, <1>2, <1>3, <1>4, <1>5 DEF Inv

\* The goroutine keeps the invariant.
LEMMA ProducerInv == ASSUME Inv, Producer PROVE Inv'
<1>0. /\ found \in Nat /\ sent \in Nat /\ Buffer \in Nat /\ Len(logs) \in Nat
      /\ Len(yielded) \in Nat /\ logs \in Seq(1 .. found)
  BY IteratorAssumption, LenProperties DEF Inv, TypeOK
<1>1. CASE Push
  <2>0. Received' = Received /\ Received \in Nat
    BY <1>0, <1>1 DEF Push, Received
  <2>1. sent + 1 \in 1 .. found /\ sent < found
    BY <1>0, <1>1 DEF Push
  <2>2. /\ logs' \in Seq(1 .. found) /\ Len(logs') = Len(logs) + 1
        /\ \A k \in 1 .. Len(logs) : logs'[k] = logs[k]
        /\ logs'[Len(logs) + 1] = sent + 1
    BY <1>0, <1>1, <2>1, AppendProperties DEF Push
  <2>3. Len(logs') =< Buffer /\ sent' = Received' + Len(logs')
    BY <1>0, <1>1, <2>0, <2>2 DEF Push, Inv
  <2>4. ASSUME NEW k \in 1 .. Len(logs') PROVE logs'[k] = Received' + k
    <3>1. k \in 1 .. Len(logs) \/ k = Len(logs) + 1
      BY <1>0, <2>2
    <3>2. sent = Received + Len(logs) /\ \A n \in 1 .. Len(logs) : logs[n] = Received + n
      BY DEF Inv
    <3> QED BY <1>0, <2>0, <2>2, <3>1, <3>2
  <2>5. TypeOK'
    BY <1>0, <1>1, <2>1, <2>2, <2>3 DEF Push, Inv, TypeOK
  <2>6. /\ (pc = "ended" /\ ~fail => ~running /\ logs = <<>>)'
        /\ (~running => sent = found)' /\ (done => ~running)'
    BY <1>1 DEF Push, Inv
  <2> QED BY <1>1, <2>3, <2>4, <2>5, <2>6 DEF Push, Inv
<1>2. CASE CloseErr
  BY <1>2 DEF CloseErr, Inv, TypeOK, Received
<1> QED BY <1>1, <1>2 DEF Producer

\* So does a log taken from the channel.
LEMMA TakeLogInv == ASSUME Inv, TakeLog PROVE Inv'
<1>0. /\ found \in Nat /\ sent \in Nat /\ Buffer \in Nat /\ Len(logs) \in Nat
      /\ Len(yielded) \in Nat /\ logs \in Seq(1 .. found) /\ yielded \in Seq(1 .. found)
      /\ logs # <<>> /\ ~fail
  BY IteratorAssumption, LenProperties DEF Inv, TypeOK, TakeLog
<1>1. /\ Head(logs) = logs[1] /\ logs' \in Seq(1 .. found)
      /\ Len(logs) >= 1 /\ Len(logs') = Len(logs) - 1
      /\ \A k \in 1 .. Len(logs') : logs'[k] = logs[k + 1]
  BY <1>0, HeadTailProperties DEF TakeLog
<1>2. Head(logs) = Len(yielded) + 1
  BY <1>0, <1>1 DEF Inv, Received
<1>3. Head(logs) \in 1 .. found
  BY <1>0, <1>1, ElementOfSeq
<1>4. UNCHANGED <<producerVars, done>>
  BY DEF TakeLog
<1>5. Received = Len(yielded)
  BY <1>0 DEF Received
<1>6. CASE Head(logs) \in bad /\ fail' = TRUE /\ pc' = "ended" /\ UNCHANGED yielded
  <2>1. Received' = Received + 1
    BY <1>5, <1>6 DEF Received
  <2>2. sent' = Received' + Len(logs') /\ \A k \in 1 .. Len(logs') : logs'[k] = Received' + k
    BY <1>0, <1>1, <1>4, <1>5, <2>1 DEF producerVars, Inv
  <2>3. TypeOK'
    BY <1>0, <1>1, <1>4, <1>6 DEF producerVars, Inv, TypeOK
  <2>4. (fail => pc = "ended" /\ Len(yielded) + 1 \in bad)' /\ fail'
    BY <1>2, <1>4, <1>6 DEF producerVars
  <2>5. (\A k \in 1 .. Len(yielded) : yielded[k] = k)'
    BY <1>6 DEF Inv
  <2>6. (~running => sent = found)' /\ (done => ~running)'
    BY <1>4 DEF producerVars, Inv
  <2> QED BY <2>2, <2>3, <2>4, <2>5, <2>6 DEF Inv
<1>7. CASE yielded' = Append(yielded, Head(logs)) /\ pc' = "body" /\ UNCHANGED fail
  <2>1. /\ yielded' \in Seq(1 .. found) /\ Len(yielded') = Len(yielded) + 1
        /\ \A k \in 1 .. Len(yielded) : yielded'[k] = yielded[k]
        /\ yielded'[Len(yielded) + 1] = Head(logs)
    BY <1>0, <1>3, <1>7, AppendProperties
  <2>2. ~fail'
    BY <1>0, <1>7
  <2>3. Received' = Received + 1
    BY <1>5, <2>1, <2>2 DEF Received
  <2>4. sent' = Received' + Len(logs') /\ \A k \in 1 .. Len(logs') : logs'[k] = Received' + k
    BY <1>0, <1>1, <1>4, <1>5, <2>3 DEF producerVars, Inv
  <2>5. TypeOK'
    BY <1>0, <1>1, <1>4, <1>7, <2>1, <2>2 DEF producerVars, Inv, TypeOK
  <2>6. ASSUME NEW k \in 1 .. Len(yielded') PROVE yielded'[k] = k
    <3>1. k \in 1 .. Len(yielded) \/ k = Len(yielded) + 1
      BY <1>0, <2>1
    <3> QED BY <1>2, <2>1, <3>1 DEF Inv
  <2>7. (~running => sent = found)' /\ (done => ~running)'
    BY <1>4 DEF producerVars, Inv
  <2> QED BY <1>7, <2>2, <2>4, <2>5, <2>6, <2>7 DEF Inv
<1> QED BY <1>6, <1>7 DEF TakeLog

\* Every step keeps the invariant.
LEMMA NextInv == ASSUME Inv, [Next]_vars PROVE Inv'
<1>1. CASE Producer
  BY <1>1, ProducerInv
<1>2. CASE TakeLog
  BY <1>2, TakeLogInv
<1>3. CASE SubEnds
  BY <1>3 DEF SubEnds, producerVars, Inv, TypeOK, Received
<1>4. CASE Exhausted
  BY <1>4 DEF Exhausted, producerVars, Inv, TypeOK, Received
<1>5. CASE LeaveBody
  BY <1>5 DEF LeaveBody, producerVars, Inv, TypeOK, Received
<1>6. CASE UNCHANGED vars
  BY <1>6 DEF vars, producerVars, Inv, TypeOK, Received
<1> QED BY <1>1, <1>2, <1>3, <1>4, <1>5, <1>6 DEF Next, Consumer

-----------------------------------------------------------------------------
\* The iterator keeps its types, and the channel its bound.
THEOREM IteratorTyped == Spec => []TypeOK
<1>1. Inv => TypeOK
  BY DEF Inv
<1> QED BY <1>1, InitInv, NextInv, PTL DEF Spec

\* The iteration ends with every log handled, oldest first, or at the first
\* one that cannot be decoded: although err may be closed long before the
\* channel is drained, no log is lost.
THEOREM NoLogLost == Spec => []EndsForAReason
<1>1. Inv => EndsForAReason
  <2> SUFFICES ASSUME Inv, pc = "ended" PROVE EndsForAReason
    BY DEF EndsForAReason
  <2>1. yielded \in Seq(1 .. found) /\ Len(yielded) \in Nat
    BY LenProperties DEF Inv, TypeOK
  <2>2. yielded = [k \in 1 .. Len(yielded) |-> yielded[k]]
    BY <2>1
  <2>3. yielded = [k \in 1 .. Len(yielded) |-> k]
    BY <2>2 DEF Inv
  <2>4. CASE fail
    BY <2>3, <2>4 DEF EndsForAReason, Inv
  <2>5. CASE ~fail
    <3>1. Len(logs) = 0 /\ sent = found
      BY <2>5 DEF Inv
    <3>2. Len(yielded) = found
      BY <2>1, <2>5, <3>1 DEF Inv, Received
    <3> QED BY <2>3, <2>5, <3>2 DEF EndsForAReason
  <2> QED BY <2>4, <2>5
<1> QED BY <1>1, InitInv, NextInv, PTL DEF Spec

-----------------------------------------------------------------------------
\* Since the logs are yielded in order, those left are the numbers that follow.
LEMMA PendingIsRest == Inv => Pending = Len(yielded) + 1 .. found
<1> SUFFICES ASSUME Inv PROVE Pending = Len(yielded) + 1 .. found
  OBVIOUS
<1>1. found \in Nat /\ yielded \in Seq(1 .. found) /\ Len(yielded) \in Nat
  BY LenProperties DEF Inv, TypeOK
<1>2. \A j \in 1 .. Len(yielded) : yielded[j] = j
  BY DEF Inv
<1> QED BY <1>1, <1>2 DEF Pending

\* An iteration begins with the whole window left.
LEMMA WindowInit == ASSUME Init, Inv PROVE Window!Init
<1>1. Len(yielded) = 0 /\ pc = "next" /\ found \in 0 .. MaxLogs /\ bad \in SUBSET (1 .. found)
  BY DEF Init
<1>2. Pending = 1 .. found
  BY <1>1, PendingIsRest
<1> QED BY <1>1, <1>2 DEF Window!Init

\* A log received is the oldest one left: it is yielded, or it ends the window.
LEMMA TakeLogMaps ==
  ASSUME Inv, Inv', TakeLog PROVE Window!NextEvent \/ Window!EndOfEvents
<1> DEFINE e == Len(yielded) + 1
<1>1. /\ found \in Nat /\ sent \in 0 .. found /\ Len(yielded) \in Nat
      /\ logs \in Seq(1 .. found) /\ yielded \in Seq(1 .. found) /\ logs # <<>> /\ ~fail
  BY LenProperties DEF Inv, TypeOK, TakeLog
<1>2. Head(logs) = logs[1] /\ Len(logs) \in Nat /\ Len(logs) >= 1
  BY <1>1, HeadTailProperties, LenProperties
<1>3. Head(logs) = e
  BY <1>1, <1>2 DEF Inv, Received
<1>4. e \in 1 .. found
  BY <1>1, <1>2, <1>3, ElementOfSeq
<1>5. Pending = e .. found /\ Pending' = Len(yielded') + 1 .. found
  <2>1. (Pending = Len(yielded) + 1 .. found)'
    BY PendingIsRest, PTL
  <2>2. found' = found
    BY DEF TakeLog, producerVars
  <2> QED BY <2>1, <2>2, PendingIsRest
<1>6. Window!Oldest(e)
  BY <1>1, <1>4, <1>5 DEF Window!Oldest
<1>7. pc = "next" /\ UNCHANGED bad
  BY DEF TakeLog, producerVars
<1>8. CASE Head(logs) \in bad /\ pc' = "ended" /\ UNCHANGED yielded
  <2>1. Pending' = Pending
    BY <1>5, <1>8
  <2> QED BY <1>3, <1>6, <1>7, <1>8, <2>1 DEF Window!EndOfEvents
<1>9. CASE Head(logs) \notin bad /\ yielded' = Append(yielded, Head(logs)) /\ pc' = "body"
  <2>1. Len(yielded') = e
    BY <1>1, <1>3, <1>4, <1>9, AppendProperties
  <2>2. Pending' = Pending \ {e}
    BY <1>1, <1>4, <1>5, <2>1
  <2> QED BY <1>3, <1>6, <1>7, <1>9, <2>2 DEF Window!NextEvent, Window!Oldest
<1> QED BY <1>8, <1>9 DEF TakeLog

\* When Next finds the goroutine done and the channel empty, nothing is left.
LEMMA ExhaustedMaps == ASSUME Inv, Exhausted PROVE Window!EndOfEvents
<1>1. found \in Nat /\ Len(yielded) \in Nat /\ Len(logs) = 0
  BY LenProperties DEF Inv, TypeOK, Exhausted
<1>2. ~fail /\ sent = found
  BY DEF Inv, Exhausted
<1>3. Len(yielded) = found
  BY <1>1, <1>2 DEF Inv, Received
<1>4. Pending = {}
  BY <1>1, <1>3, PendingIsRest
<1>5. Pending' = Pending
  BY DEF Exhausted, producerVars, Pending
<1> QED BY <1>4, <1>5 DEF Exhausted, producerVars, Window!EndOfEvents

\* The goroutine and its channels are hidden behind the window: every step of
\* the consumer draws from it as StateChangeListener does, and no step of the
\* goroutine shows.
THEOREM WindowImplemented == Spec => ImplementsWindow
<1>1. Init /\ Inv => Window!Init
  BY WindowInit
<1>2. ASSUME Inv, Inv', [Next]_vars PROVE [Window!Next]_(Window!windowVars)
  <2>1. CASE Push
    BY <2>1 DEF Push, Pending, Window!windowVars
  <2>2. CASE CloseErr
    BY <2>2 DEF CloseErr, Pending, Window!windowVars
  <2>3. CASE TakeLog
    BY <1>2, <2>3, TakeLogMaps DEF Window!Next
  <2>4. CASE SubEnds
    BY <2>4 DEF SubEnds, producerVars, Pending, Window!windowVars
  <2>5. CASE Exhausted
    BY <1>2, <2>5, ExhaustedMaps DEF Window!Next
  <2>6. CASE LeaveBody
    <3>1. Pending' = Pending
      BY <2>6 DEF LeaveBody, producerVars, Pending
    <3> QED BY <2>6, <3>1 DEF LeaveBody, producerVars, Window!LeaveBody, Window!Next
  <2>7. CASE UNCHANGED vars
    BY <2>7 DEF vars, producerVars, Pending, Window!windowVars
  <2> QED BY <1>2, <2>1, <2>2, <2>3, <2>4, <2>5, <2>6, <2>7 DEF Next, Producer, Consumer
<1> QED BY <1>1, <1>2, InitInv, NextInv, PTL DEF Spec, ImplementsWindow, Window!Spec
=============================================================================
