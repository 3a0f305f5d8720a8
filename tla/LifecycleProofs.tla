---------------------------- MODULE LifecycleProofs ----------------------------
(***************************************************************************)
(* The process, for any number of revotes and signals.                     *)
(***************************************************************************)
EXTENDS Lifecycle, SequenceTheorems, TLAPS

\* From the catch-up on the section it asks for has been read.
SectionsInv ==
  /\ NoSectionBroken
  /\ voter # "setup" => sections["cosmos"] = "read"

\* A revote under way has a server, which the API waits for.
RevotesInv ==
  /\ ~Gone => \A c \in Revotes : calls[c] # "cut"
  /\ ~Gone /\ Active # {} => server \in {"serving", "draining", "died"}
  /\ ~Gone /\ server \in {"serving", "draining"} => "grpc-api" \in running
  /\ RevotesAnswered

\* Without a signal only the API can have ended, and only because its server
\* died.
AloneInv ==
  /\ voter = "subscribed" /\ ~cancelled => subs = Subscribers
  /\ server \in {"draining", "stopped"} => cancelled
  /\ main \in {"notify", "select", "stopping"} /\ ~cancelled =>
       \A s \in command \ running : s = "grpc-api" /\ server = "died"
  /\ DiesAlone

-----------------------------------------------------------------------------
\* An exit of the process keeps the types.
LEMMA ExitTyped ==
  ASSUME TypeOK, NEW how \in {"returned", "failed", "killed", "crashed"}, Exit(how),
         wrong' \subseteq Sections, sections' \in [Sections -> {"unread", "read", "broken"}]
  PROVE  TypeOK'
<1>1. calls' \in [Revotes -> {"none", "active", "answered", "cut"}]
  BY DEF TypeOK, Exit, ExitCalls
<1> QED BY <1>1 DEF TypeOK, Exit, mainVars, voterVars

\* A call for a section leaves a section read that was.
LEMMA AskedTyped ==
  ASSUME TypeOK, NEW s, NEW o \in {"read", "broken"}, Asked(s, o), sections[s] # "read"
  PROVE  /\ wrong' \subseteq Sections
         /\ sections' \in [Sections -> {"unread", "read", "broken"}]
         /\ \A t \in Sections : sections[t] = "read" => sections'[t] = "read"
         /\ o = "read" => \A t \in Sections : sections'[t] = "broken" => sections[t] = "broken"
BY DEF TypeOK, Asked

\* What a routine asks for has not been read.
LEMMA WantedUnread == ASSUME NEW r, NEW s \in Wanted(r) PROVE sections[s] # "read"
BY DEF Wanted

\* A call for a section keeps the types.
LEMMA LoadTyped == ASSUME TypeOK, NEW r, Load(r) PROVE TypeOK'
<1>1. PICK s \in Wanted(r) :
        \/ Asked(s, "read") /\ UNCHANGED <<main, mainVars, voterVars, apiVars>>
        \/ /\ Asked(s, "broken")
           /\ CASE r = "run" -> Exit("failed")
                [] r = "voter-catchup" -> UNCHANGED <<main, mainVars, voterVars, apiVars>>
                [] OTHER -> Exit("crashed")
  BY DEF Load
<1>2. wrong' \subseteq Sections /\ sections' \in [Sections -> {"unread", "read", "broken"}]
  BY <1>1, AskedTyped, WantedUnread
<1>3. \/ UNCHANGED <<main, mainVars, voterVars, apiVars>>
      \/ Exit("failed") \/ Exit("crashed")
  BY <1>1
<1>4. CASE UNCHANGED <<main, mainVars, voterVars, apiVars>>
  BY <1>2, <1>4 DEF TypeOK, mainVars, voterVars, apiVars
<1>5. CASE Exit("failed") \/ Exit("crashed")
  BY <1>2, <1>5, ExitTyped
<1> QED BY <1>3, <1>4, <1>5

\* Run keeps the types.
LEMMA RunTyped == ASSUME TypeOK, Run PROVE TypeOK'
<1>0. wrong \subseteq Sections /\ sections \in [Sections -> {"unread", "read", "broken"}]
  BY DEF TypeOK
<1>1. CASE Parse
  <2>1. UNCHANGED configVars
    BY <1>1 DEF Parse
  <2>2. CASE Exit("failed")
    BY <1>0, <2>1, <2>2, ExitTyped DEF configVars
  <2>3. CASE main' = "launch" /\ UNCHANGED <<mainVars, voterVars, apiVars>>
    BY <2>1, <2>3 DEF TypeOK, configVars, mainVars, voterVars, apiVars
  <2> QED BY <1>1, <2>2, <2>3 DEF Parse
<1>2. CASE Launch
  BY <1>2 DEF Launch, TypeOK, configVars, voterVars, apiVars
<1>3. CASE Notify
  BY <1>3 DEF Notify, TypeOK, configVars, mainVars, voterVars, apiVars
<1>4. CASE AllStopped
  BY <1>0, <1>4, ExitTyped DEF AllStopped, configVars
<1>5. CASE Receive
  BY <1>5 DEF Receive, TypeOK, configVars, voterVars, apiVars
<1> QED BY <1>1, <1>2, <1>3, <1>4, <1>5 DEF Run

\* So do the services and their clients.
LEMMA ServicesTyped ==
  ASSUME TypeOK, RunVoter \/ RunAPI \/ StopListener \/ Accept \/ Answer
  PROVE  TypeOK'
<1>1. CASE CatchUp
  BY <1>1 DEF CatchUp, TypeOK, configVars, mainVars, apiVars
<1>2. CASE Subscribe
  BY <1>2 DEF Subscribe, TypeOK, configVars, mainVars, apiVars
<1>3. CASE StopVoter
  BY <1>3 DEF StopVoter, Ends, TypeOK, configVars, voterVars, apiVars
<1>4. CASE \E r \in Subscribers : SubscriberEnds(r)
  BY <1>4 DEF SubscriberEnds, TypeOK, configVars, mainVars, apiVars
<1>5. CASE Serve
  BY <1>5 DEF Serve, TypeOK, configVars, mainVars, voterVars
<1>6. CASE ServerDied
  BY <1>6 DEF ServerDied, Ends, TypeOK, configVars, voterVars, apiVars
<1>7. CASE Shutdown
  BY <1>7 DEF Shutdown, TypeOK, configVars, mainVars, voterVars
<1>8. CASE Drained
  BY <1>8 DEF Drained, Ends, TypeOK, configVars, voterVars
<1>9. CASE StopListener
  BY <1>9 DEF StopListener, Ends, TypeOK, configVars, voterVars, apiVars
<1>10. CASE Accept
  BY <1>10 DEF Accept, TypeOK, configVars, mainVars, voterVars
<1>11. CASE Answer
  BY <1>11 DEF Answer, Active, TypeOK, configVars, mainVars, voterVars
<1> QED BY <1>1, <1>2, <1>3, <1>4, <1>5, <1>6, <1>7, <1>8, <1>9, <1>10, <1>11
        DEF RunVoter, CaughtUp, GiveUp, RunAPI

\* A signal keeps the types.
LEMMA SignalTyped == ASSUME TypeOK, Signal PROVE TypeOK'
<1>1. CASE main \in {"setup", "launch", "notify"}
  <2>1. calls' \in [Revotes -> {"none", "active", "answered", "cut"}]
    BY <1>1 DEF TypeOK, Signal, ExitCalls
  <2> QED BY <1>1, <2>1, LifecycleAssumption DEF Signal, TypeOK, configVars, voterVars
<1>2. CASE main \notin {"setup", "launch", "notify"}
  BY <1>2, LifecycleAssumption DEF Signal, TypeOK, configVars, voterVars
<1> QED BY <1>1, <1>2

\* Every step keeps the types.
LEMMA TNext == ASSUME TypeOK, [Next]_vars PROVE TypeOK'
<1>1. CASE UNCHANGED vars
  BY <1>1 DEF vars, TypeOK, configVars, mainVars, voterVars, apiVars
<1> QED BY <1>1, LoadTyped, RunTyped, ServicesTyped, SignalTyped DEF Next

\* The process starts well typed.
LEMMA TInit == Init => TypeOK
<1> SUFFICES ASSUME Init PROVE TypeOK
  OBVIOUS
<1>1. wrong \subseteq Sections /\ sections \in [Sections -> {"unread", "read", "broken"}]
  BY DEF Init, ConfigInit
<1>2. mailbox \in BOOLEAN /\ cancelled \in BOOLEAN
  BY Zenon DEF Init
<1>3. signals \in 0 .. MaxSignals
  BY LifecycleAssumption DEF Init
<1>4. calls \in [Revotes -> {"none", "active", "answered", "cut"}]
  BY DEF Init
<1>5. command \in Commands /\ running = {} /\ subs = {}
      /\ main = "setup" /\ voter = "setup" /\ server = "new"
  BY DEF Init
<1> QED BY <1>1, <1>2, <1>3, <1>4, <1>5 DEF TypeOK

\* Type correctness of the process.
THEOREM ProcessTyped == Spec => []TypeOK
BY TInit, TNext, PTL DEF Spec

-----------------------------------------------------------------------------
\* When RunVoter begins to catch up, it has read what the catch-up asks for.
LEMMA VoterHasCosmos == Ready("voter") => sections["cosmos"] = "read"
<1> SUFFICES ASSUME Ready("voter") PROVE sections["cosmos"] = "read"
  OBVIOUS
<1> DEFINE four == <<"evm", "cosmos", "broadcaster", "state_contract_cfg">>
           two == <<"evm", "broadcaster">>
<1>1. Needs("voter") = (four \o four) \o two
  BY DEF Needs, VoterNeeds, NewGISTUpdateVerifier, NewStateUpdateVerifier
<1>2. four \in Seq(Sections) /\ two \in Seq(Sections) /\ Len(four) = 4 /\ Len(two) = 2
      /\ four[2] = "cosmos"
  BY DEF Sections, Embedded
<1> HIDE DEF four, two
<1>3. /\ four \o four \in Seq(Sections) /\ Len(four \o four) = 8
      /\ (four \o four)[2] = four[2]
  <2>1. /\ four \o four \in Seq(Sections)
        /\ Len(four \o four) = Len(four) + Len(four)
        /\ \A k \in 1 .. Len(four) + Len(four) :
             (four \o four)[k] = IF k =< Len(four) THEN four[k] ELSE four[k - Len(four)]
    BY <1>2, ConcatProperties
  <2> QED BY <1>2, <2>1
<1>4. Len(Needs("voter")) = 10 /\ Needs("voter")[2] = (four \o four)[2]
  <2> DEFINE eight == four \o four
  <2> HIDE DEF eight
  <2>1. eight \in Seq(Sections) /\ Len(eight) = 8 /\ Needs("voter") = eight \o two
    BY <1>1, <1>3 DEF eight
  <2>2. /\ Len(eight \o two) = Len(eight) + Len(two)
        /\ \A k \in 1 .. Len(eight) + Len(two) :
             (eight \o two)[k] = IF k =< Len(eight) THEN eight[k] ELSE two[k - Len(eight)]
    BY <1>2, <2>1, ConcatProperties
  <2>3. 2 \in 1 .. Len(eight) + Len(two) /\ 2 =< Len(eight) /\ Len(eight) + Len(two) = 10
    BY <1>2, <2>1
  <2>4. Len(eight \o two) = 10 /\ (eight \o two)[2] = eight[2]
    BY <2>2, <2>3
  <2> QED BY <2>1, <2>4 DEF eight
<1> QED BY <1>2, <1>3, <1>4 DEF Ready

\* The catch-up asks for one section.
LEMMA CatchupWants == ASSUME NEW s \in Wanted("voter-catchup") PROVE s = "cosmos"
BY DEF Wanted, Needs, CatchupNeeds

\* No step but a panic leaves a section broken, and a panic of the voter, the
\* subscribers, the API or the saver ends the process; the catch-up meets none.
LEMMA SectionsStep ==
  ASSUME TypeOK, SectionsInv, [Next]_vars
  PROVE  SectionsInv'
<1>1. ASSUME NEW r, Load(r) PROVE SectionsInv'
  <2>1. PICK s \in Wanted(r) :
          \/ Asked(s, "read") /\ UNCHANGED <<main, mainVars, voterVars, apiVars>>
          \/ /\ Asked(s, "broken")
             /\ CASE r = "run" -> Exit("failed")
                  [] r = "voter-catchup" -> UNCHANGED <<main, mainVars, voterVars, apiVars>>
                  [] OTHER -> Exit("crashed")
    BY <1>1 DEF Load
  <2>2. sections[s] # "read" /\ ~Gone /\ Asking(r)
    BY <1>1, WantedUnread DEF Load
  <2>3. "cosmos" \in Sections
    BY DEF Sections
  <2>4. \A t \in Sections : sections[t] = "read" => sections'[t] = "read"
    BY <2>1, <2>2, AskedTyped
  <2>5. (voter # "setup" => sections["cosmos"] = "read")'
    BY <2>1, <2>3, <2>4 DEF SectionsInv, Exit, voterVars
  <2>6. CASE Asked(s, "read") /\ UNCHANGED <<main, mainVars, voterVars, apiVars>>
    <3>1. \A t \in Sections : sections'[t] = "broken" => sections[t] = "broken"
      BY <2>2, <2>6, AskedTyped
    <3> QED BY <2>2, <2>5, <3>1 DEF SectionsInv, NoSectionBroken
  <2>7. CASE Exit("failed") \/ Exit("crashed")
    BY <2>5, <2>7 DEF SectionsInv, NoSectionBroken, Gone, Exit
  <2>8. CASE r = "voter-catchup"
    <3>1. voter = "catchup"
      BY <2>2, <2>8 DEF Asking, Subscribers
    <3>2. s = "cosmos"
      BY <2>8, CatchupWants
    <3> QED BY <2>2, <3>1, <3>2 DEF SectionsInv
  <2> QED BY <2>1, <2>6, <2>7, <2>8
<1>2. ASSUME UNCHANGED configVars, UNCHANGED voter \/ sections["cosmos"] = "read",
             Gone => Gone'
      PROVE  SectionsInv'
  BY <1>2 DEF SectionsInv, NoSectionBroken, configVars
<1>3. CASE Run \/ RunAPI \/ StopListener \/ Signal \/ Accept \/ Answer
  <2>1. UNCHANGED configVars /\ UNCHANGED voter
    BY <1>3 DEF Run, Parse, Launch, Notify, AllStopped, Receive, Exit, RunAPI, Serve, ServerDied,
       Shutdown, Drained, StopListener, Ends, Signal, Accept, Answer, voterVars
  <2>2. Gone => Gone'
    BY <1>3 DEF Run, Parse, Launch, Notify, AllStopped, Receive, Exit, RunAPI, Serve, ServerDied,
       Shutdown, Drained, StopListener, Ends, Signal, Accept, Answer, Gone
  <2> QED BY <1>2, <2>1, <2>2
<1>4. CASE RunVoter
  <2>1. UNCHANGED configVars /\ UNCHANGED main
    BY <1>4 DEF RunVoter, CatchUp, CaughtUp, GiveUp, Subscribe, StopVoter, Ends, SubscriberEnds
  <2>2. UNCHANGED voter \/ sections["cosmos"] = "read"
    BY <1>4, VoterHasCosmos DEF RunVoter, CatchUp, CaughtUp, GiveUp, Subscribe, StopVoter,
       SubscriberEnds, voterVars, SectionsInv
  <2> QED BY <1>2, <2>1, <2>2 DEF Gone
<1>5. CASE UNCHANGED vars
  BY <1>2, <1>5 DEF vars, voterVars, Gone
<1> QED BY <1>1, <1>3, <1>4, <1>5 DEF Next

\* A live process has no section that panics for ever.
THEOREM PanicsEndTheProcess == Spec => []NoSectionBroken
<1>1. Init => SectionsInv
  BY DEF Init, ConfigInit, SectionsInv, NoSectionBroken
<1>2. TypeOK /\ SectionsInv /\ [Next]_vars => SectionsInv'
  BY SectionsStep
<1>3. SectionsInv => NoSectionBroken
  BY DEF SectionsInv
<1> QED BY <1>1, <1>2, <1>3, ProcessTyped, PTL DEF Spec

-----------------------------------------------------------------------------
\* An exit cuts off revotes only if there are any.
LEMMA ExitRevotes ==
  ASSUME RevotesInv, ~Gone, NEW how, Exit(how), how # "returned" \/ running = {},
         how \in {"returned", "failed", "killed", "crashed"}
  PROVE  RevotesInv'
<1>1. Gone' /\ main' = how /\ UNCHANGED server
  BY DEF Exit, Gone
<1>2. ASSUME how = "returned", server # "died", NEW c \in Revotes PROVE calls'[c] # "cut"
  <2>1. Active = {}
    BY <1>2 DEF RevotesInv
  <2>2. calls[c] # "cut" /\ calls[c] # "active"
    BY <2>1 DEF RevotesInv, Active
  <2> QED BY <2>2 DEF Exit, ExitCalls
<1> QED BY <1>1, <1>2 DEF RevotesInv, RevotesAnswered

\* Once the process is gone nothing happens to the revotes.
LEMMA GoneRevotes ==
  ASSUME RevotesInv, UNCHANGED <<main, server, calls>>, Gone \/ UNCHANGED running
  PROVE  RevotesInv'
BY DEF RevotesInv, RevotesAnswered, Gone, Active

\* Every step keeps a server behind the revotes, and the API running while
\* there is one.
LEMMA RevotesStep ==
  ASSUME TypeOK, RevotesInv, [Next]_vars
  PROVE  RevotesInv'
<1>1. CASE Parse
  <2>1. CASE Exit("failed")
    BY <1>1, <2>1, ExitRevotes DEF Parse, Gone
  <2>2. CASE main' = "launch" /\ UNCHANGED <<mainVars, voterVars, apiVars>>
    BY <1>1, <2>2 DEF Parse, RevotesInv, RevotesAnswered, Gone, Active, mainVars, apiVars
  <2> QED BY <1>1, <2>1, <2>2 DEF Parse
<1>2. CASE Launch
  <2>1. ~Gone /\ ~Gone' /\ running' = command /\ UNCHANGED apiVars
    BY <1>2 DEF Launch, Gone
  <2>2. server \in {"serving", "draining"} => "grpc-api" \in command
    BY DEF TypeOK
  <2>3. main' # "returned"
    BY <2>1 DEF Gone
  <2> QED BY <2>1, <2>2, <2>3 DEF RevotesInv, RevotesAnswered, Active, apiVars
<1>3. CASE Notify \/ Receive
  BY <1>3 DEF Notify, Receive, RevotesInv, RevotesAnswered, Gone, Active, mainVars, apiVars
<1>4. CASE AllStopped
  BY <1>4, ExitRevotes DEF AllStopped, Gone
<1>5. CASE RunVoter \/ StopListener
  <2>1. ~Gone /\ UNCHANGED <<main, server, calls>>
    BY <1>5 DEF RunVoter, CatchUp, CaughtUp, GiveUp, Subscribe, StopVoter, SubscriberEnds,
       StopListener, Ends, apiVars
  <2>2. "grpc-api" \in running => "grpc-api" \in running'
    BY <1>5 DEF RunVoter, CatchUp, CaughtUp, GiveUp, Subscribe, StopVoter, SubscriberEnds,
       StopListener, Ends, mainVars
  <2> QED BY <2>1, <2>2 DEF RevotesInv, RevotesAnswered, Gone, Active
<1>6. CASE Serve \/ Shutdown
  <2>1. ~Gone /\ "grpc-api" \in running /\ UNCHANGED <<main, running, calls>>
        /\ server' \in {"serving", "draining", "died"}
    BY <1>6 DEF Serve, Shutdown, mainVars
  <2> QED BY <2>1 DEF RevotesInv, RevotesAnswered, Gone, Active
<1>7. CASE ServerDied
  <2>1. ~Gone /\ server = "died" /\ UNCHANGED <<main, server, calls>>
    BY <1>7 DEF ServerDied, Ends, apiVars
  <2> QED BY <2>1 DEF RevotesInv, RevotesAnswered, Gone, Active
<1>8. CASE Drained
  <2>1. ~Gone /\ Active = {} /\ server' = "stopped" /\ UNCHANGED <<main, calls>>
    BY <1>8 DEF Drained, Ends
  <2> QED BY <2>1 DEF RevotesInv, RevotesAnswered, Gone, Active
<1>9. CASE Accept
  <2>1. ~Gone /\ server = "serving" /\ UNCHANGED <<main, running, server>>
    BY <1>9 DEF Accept, mainVars
  <2>2. \A c \in Revotes : calls'[c] = calls[c] \/ calls'[c] = "active"
    BY <1>9 DEF Accept, TypeOK
  <2> QED BY <2>1, <2>2 DEF RevotesInv, RevotesAnswered, Gone, Active
<1>10. CASE Answer
  <2>1. ~Gone /\ UNCHANGED <<main, running, server>>
    BY <1>10 DEF Answer, mainVars
  <2>2. \A c \in Revotes : calls'[c] = calls[c] \/ calls'[c] = "answered"
    BY <1>10 DEF Answer, Active, TypeOK
  <2> QED BY <2>1, <2>2 DEF RevotesInv, RevotesAnswered, Gone, Active
<1>11. CASE Signal
  <2>1. CASE main \in {"setup", "launch", "notify"}
    <3>1. Gone' /\ main' = "killed"
      BY <1>11, <2>1 DEF Signal, Gone
    <3> QED BY <3>1 DEF RevotesInv, RevotesAnswered
  <2>2. CASE main \notin {"setup", "launch", "notify"}
    BY <1>11, <2>2, GoneRevotes DEF Signal
  <2> QED BY <2>1, <2>2
<1>12. ASSUME NEW r, Load(r) PROVE RevotesInv'
  <2>1. \/ UNCHANGED <<main, mainVars, voterVars, apiVars>>
        \/ Exit("failed") \/ Exit("crashed")
    BY <1>12 DEF Load
  <2>2. ~Gone
    BY <1>12 DEF Load
  <2>3. CASE UNCHANGED <<main, mainVars, voterVars, apiVars>>
    BY <2>3, GoneRevotes DEF mainVars, apiVars
  <2>4. CASE Exit("failed") \/ Exit("crashed")
    BY <2>2, <2>4, ExitRevotes
  <2> QED BY <2>1, <2>3, <2>4
<1>13. CASE UNCHANGED vars
  BY <1>13, GoneRevotes DEF vars, mainVars, apiVars
<1> QED BY <1>1, <1>2, <1>3, <1>4, <1>5, <1>6, <1>7, <1>8, <1>9, <1>10, <1>11, <1>12, <1>13
        DEF Next, Run, RunAPI

\* Run does not return before GracefulStop has: no revote is cut off, unless
\* the server had died by itself.
THEOREM NoRevoteCutOff == Spec => []RevotesAnswered
<1>1. Init => RevotesInv
  BY DEF Init, RevotesInv, RevotesAnswered, Gone, Active
<1>2. TypeOK /\ RevotesInv /\ [Next]_vars => RevotesInv'
  BY RevotesStep
<1>3. RevotesInv => RevotesAnswered
  BY DEF RevotesInv
<1> QED BY <1>1, <1>2, <1>3, ProcessTyped, PTL DEF Spec

-----------------------------------------------------------------------------
\* A step by which no service ends and Run does not return.
LEMMA NoneEnds ==
  ASSUME AloneInv, UNCHANGED <<command, running, voter, subs, server>>,
         cancelled => cancelled', UNCHANGED main \/ main' \in {"failed", "killed", "crashed"}
  PROVE  AloneInv'
BY DEF AloneInv, DiesAlone

\* A service that ends without a signal is an API whose server died: the
\* subscribers hold the voter back, the saver looks at the context only, and
\* GracefulStop is called after a signal.
LEMMA AloneStep == ASSUME TypeOK, AloneInv, [Next]_vars PROVE AloneInv'
<1>1. CASE Parse
  <2>1. CASE Exit("failed")
    BY <2>1, NoneEnds DEF Exit, mainVars, voterVars
  <2>2. CASE main' = "launch" /\ UNCHANGED <<mainVars, voterVars, apiVars>>
    BY <2>2 DEF AloneInv, DiesAlone, mainVars, voterVars, apiVars
  <2> QED BY <1>1, <2>1, <2>2 DEF Parse
<1>2. CASE Launch
  BY <1>2 DEF Launch, AloneInv, DiesAlone, voterVars, apiVars
<1>3. CASE Notify
  BY <1>3 DEF Notify, AloneInv, DiesAlone, mainVars, voterVars, apiVars
<1>4. CASE Receive
  BY <1>4 DEF Receive, AloneInv, DiesAlone, voterVars, apiVars
<1>5. CASE AllStopped
  <2>1. main \in {"select", "stopping"} /\ running = {} /\ main' = "returned"
        /\ UNCHANGED <<mainVars, voterVars, server>>
    BY <1>5 DEF AllStopped, Exit
  <2>2. ~cancelled => command = {"grpc-api"} /\ server = "died"
    <3> SUFFICES ASSUME ~cancelled PROVE command = {"grpc-api"} /\ server = "died"
      OBVIOUS
    <3>1. \A s \in command : s = "grpc-api" /\ server = "died"
      BY <2>1 DEF AloneInv
    <3>2. command # {}
      BY DEF TypeOK, Commands, Services
    <3> QED BY <3>1, <3>2
  <2> QED BY <2>1, <2>2 DEF AloneInv, DiesAlone, mainVars, voterVars
<1>6. CASE Signal
  BY <1>6, NoneEnds DEF Signal, voterVars
<1>7. CASE CatchUp \/ Subscribe
  BY <1>7 DEF CatchUp, Subscribe, AloneInv, DiesAlone, mainVars, apiVars
<1>8. ASSUME NEW r, SubscriberEnds(r) PROVE AloneInv'
  BY <1>8 DEF SubscriberEnds, AloneInv, DiesAlone, Gone, mainVars, apiVars
<1>9. CASE StopVoter
  <2>1. cancelled
    BY <1>9 DEF StopVoter, AloneInv, Subscribers
  <2> QED BY <1>9, <2>1 DEF StopVoter, Ends, AloneInv, DiesAlone, voterVars, apiVars
<1>10. CASE StopListener
  BY <1>10 DEF StopListener, Ends, AloneInv, DiesAlone, voterVars, apiVars
<1>11. CASE Serve
  BY <1>11 DEF Serve, AloneInv, DiesAlone, Gone, mainVars, voterVars
<1>12. CASE ServerDied
  BY <1>12 DEF ServerDied, Ends, AloneInv, DiesAlone, voterVars, apiVars
<1>13. CASE Shutdown
  BY <1>13 DEF Shutdown, AloneInv, DiesAlone, mainVars, voterVars
<1>14. CASE Drained
  BY <1>14 DEF Drained, Ends, AloneInv, DiesAlone, voterVars
<1>15. CASE Accept \/ Answer
  BY <1>15, NoneEnds DEF Accept, Answer, mainVars, voterVars
<1>16. ASSUME NEW r, Load(r) PROVE AloneInv'
  <2>1. \/ UNCHANGED <<main, mainVars, voterVars, apiVars>>
        \/ Exit("failed") \/ Exit("crashed")
    BY <1>16 DEF Load
  <2> QED BY <2>1, NoneEnds DEF Exit, mainVars, voterVars, apiVars
<1>17. CASE UNCHANGED vars
  BY <1>17, NoneEnds DEF vars, mainVars, voterVars, apiVars
<1> QED BY <1>1, <1>2, <1>3, <1>4, <1>5, <1>6, <1>7, <1>8, <1>9, <1>10, <1>11, <1>12, <1>13,
           <1>14, <1>15, <1>16, <1>17
        DEF Next, Run, RunVoter, CaughtUp, GiveUp, RunAPI

\* A server that dies takes nothing else down: Run returns without a signal only
\* when it ran nothing but the API.
THEOREM OthersGoOn == Spec => []DiesAlone
<1>1. Init => AloneInv
  BY DEF Init, AloneInv, DiesAlone
<1>2. TypeOK /\ AloneInv /\ [Next]_vars => AloneInv'
  BY AloneStep
<1>3. AloneInv => DiesAlone
  BY DEF AloneInv
<1> QED BY <1>1, <1>2, <1>3, ProcessTyped, PTL DEF Spec
=============================================================================
