----------------------------- MODULE LogIterator -----------------------------
(***************************************************************************)
(* pkg/state/state_lib.go: StateLibStateUpdatedIterator, and the loop of   *)
(* subscription that draws from it.  The logs of a window are fetched by   *)
(* one call; a goroutine of go-ethereum then pushes them into a buffered   *)
(* channel and closes the error channel of its subscription.  Next selects *)
(* between the two channels, so the goroutine may be seen to be done while *)
(* logs are still in the buffer.                                           *)
(*                                                                         *)
(* StateChangeListener takes the logs of a window from a set in one step   *)
(* each and may stop at a log that cannot be decoded.  The properties      *)
(* ImplementsWindow and IterationEnds are what allows that.                *)
(***************************************************************************)
EXTENDS Integers, Sequences

CONSTANTS
  Buffer,   \* capacity of the logs channel: 128 in go-ethereum
  MaxLogs   \* bound on the logs of a window

ASSUME IteratorAssumption == Buffer \in Nat \ {0} /\ MaxLogs \in Nat

VARIABLES
  found,     \* how many logs FilterLogs returned; they are numbered from 1
  bad,       \* the logs that UnpackLog cannot decode
  sent,      \* how many of them the goroutine has pushed
  running,   \* the goroutine has not returned; then its err channel is open
  logs,      \* content of the logs channel
  done, fail,  \* the fields of the iterator
  pc,        \* "next": in a call of Next, "body": in the loop body, "ended"
  yielded    \* history: the logs the loop body was run for

producerVars == <<found, bad, sent, running>>
vars == <<producerVars, logs, done, fail, pc, yielded>>

Init ==
  /\ found \in 0 .. MaxLogs
  /\ bad \in SUBSET (1 .. found)
  /\ sent = 0 /\ running = TRUE
  /\ logs = <<>> /\ done = FALSE /\ fail = FALSE
  /\ pc = "next"
  /\ yielded = <<>>

-----------------------------------------------------------------------------
\* (mutations: the channel has no bound; one place of it is never used)
PushUnbounded ==
  /\ running
  /\ sent < found
  /\ sent' = sent + 1
  /\ logs' = Append(logs, sent + 1)
  /\ UNCHANGED <<found, bad, running, done, fail, pc, yielded>>
PushTooCareful ==
  /\ running
  /\ sent < found
  /\ Len(logs) + 1 < Buffer
  /\ sent' = sent + 1
  /\ logs' = Append(logs, sent + 1)
  /\ UNCHANGED <<found, bad, running, done, fail, pc, yielded>>

\* The goroutine pushes the next log once there is room.
Push ==
  /\ running
  /\ sent < found
  /\ Len(logs) < Buffer
  /\ sent' = sent + 1
  /\ logs' = Append(logs, sent + 1)
  /\ UNCHANGED <<found, bad, running, done, fail, pc, yielded>>

\* All logs are in the channel: the goroutine closes err and is gone.
CloseErr ==
  /\ running
  /\ sent = found
  /\ running' = FALSE
  /\ UNCHANGED <<found, bad, sent, logs, done, fail, pc, yielded>>

\* Next receives a log, in either of its two selects, and decodes it.
TakeLog ==
  /\ pc = "next"
  /\ logs # <<>>
  /\ logs' = Tail(logs)
  /\ \/ /\ Head(logs) \in bad
        /\ fail' = TRUE
        /\ pc' = "ended"
        /\ UNCHANGED yielded
     \/ /\ Head(logs) \notin bad
        /\ yielded' = Append(yielded, Head(logs))
        /\ pc' = "body"
        /\ UNCHANGED fail
  /\ UNCHANGED <<producerVars, done>>

\* (mutations: the iteration ends when the goroutine does; done is not set)
SubEndsAtOnce ==
  /\ pc = "next" /\ ~done /\ ~running
  /\ done' = TRUE
  /\ pc' = "ended"
  /\ UNCHANGED <<producerVars, logs, fail, yielded>>
SubEndsForgotten ==
  /\ pc = "next" /\ ~done /\ ~running
  /\ UNCHANGED vars

\* Next receives from the closed err channel, although logs may be waiting, and
\* calls itself.
SubEnds ==
  /\ pc = "next" /\ ~done /\ ~running
  /\ done' = TRUE
  /\ UNCHANGED <<producerVars, logs, fail, pc, yielded>>

\* Next finds nothing left after the goroutine was seen to be done.
Exhausted ==
  /\ pc = "next" /\ done /\ logs = <<>>
  /\ pc' = "ended"
  /\ UNCHANGED <<producerVars, logs, done, fail, yielded>>

\* The loop body is left with continue, or, for an issuer that is not
\* supported, with return nil.  Nobody calls Close either way.
LeaveBody ==
  /\ pc = "body"
  /\ pc' \in {"next", "returned"}
  /\ UNCHANGED <<producerVars, logs, done, fail, yielded>>

Producer == Push \/ CloseErr
Consumer == TakeLog \/ SubEnds \/ Exhausted \/ LeaveBody

Next == Producer \/ Consumer

\* Goroutines that can run do run.
Spec == Init /\ [][Next]_vars /\ WF_vars(Producer) /\ WF_vars(Consumer)

-----------------------------------------------------------------------------
TypeOK ==
  /\ found \in 0 .. MaxLogs
  /\ bad \subseteq 1 .. found
  /\ sent \in 0 .. found
  /\ logs \in Seq(1 .. found) /\ Len(logs) =< Buffer
  /\ yielded \in Seq(1 .. found)
  /\ {running, done, fail} \subseteq BOOLEAN
  /\ pc \in {"next", "body", "returned", "ended"}

\* When Next returns false, either every log of the window was handled, oldest
\* first, or the first one not handled cannot be decoded and fail is set
\* (state_lib.go:227-229): closing err before the buffer is drained loses none.
EndsForAReason ==
  pc = "ended" =>
    /\ yielded = [k \in 1 .. Len(yielded) |-> k]
    /\ IF fail THEN Len(yielded) + 1 \in bad ELSE Len(yielded) = found

\* The iterator implements the window StateChangeListener draws from: whatever
\* the goroutine is doing, a call of Next yields the oldest log left, and returns
\* false only when there is none or when that one cannot be decoded.
Pending == {k \in 1 .. found : \A j \in 1 .. Len(yielded) : yielded[j] # k}
Window == INSTANCE LogWindow WITH pending <- Pending
ImplementsWindow == Window!Spec

\* subscription never waits for a log that does not come.
IterationEnds == <>(pc \in {"ended", "returned"})

\* The goroutine ends, Close or not, unless the loop was left with more logs to
\* push than the channel can hold: only then it waits for ever.
LeaksOnlyBeyondBuffer ==
  <>(~running \/ (pc \in {"ended", "returned"} /\ found - sent > 0 /\ Len(logs) = Buffer))
=============================================================================
