------------------------------- MODULE Lifecycle -------------------------------
(***************************************************************************)
(* internal/cli/main.go, internal/services/voting/main.go and              *)
(* internal/services/grpc/serve.go: the process.                           *)
(*                                                                         *)
(* Run launches the services of a command, each in a goroutine, and waits  *)
(* for all of them or for a signal; a signal cancels the context of all of *)
(* them and Run waits on.  A service first gets what it needs from the     *)
(* configuration, without a look at the context.  The voter then catches   *)
(* up and starts two subscribers.  The API answers the revotes under way   *)
(* before it returns; the others return where they next look at the        *)
(* context.                                                                *)
(***************************************************************************)
EXTENDS Configuration, FiniteSets

CONSTANTS
  Revotes,     \* calls of Revote that clients may make
  MaxSignals   \* bound on the signals sent

ASSUME LifecycleAssumption == IsFiniteSet(Revotes) /\ MaxSignals \in Nat

Services == {"voter", "grpc-api", "state-change-listener"}

\* run api, run state-update-voter, run state-update-saver, run state-update-all.
Commands == {{s} : s \in Services} \union {Services}

Subscribers == {"gist", "state"}
Routines == Services \union Subscribers \union {"run", "voter-catchup"}

VARIABLES
  command,   \* the services to run
  main,      \* of Run: "setup", "launch", "notify", "select", "stopping",
             \* "returned"; or the process is gone otherwise: "failed",
             \* "killed", "crashed"
  running,   \* the services whose goroutine has not ended: the wait group
  mailbox,   \* a signal waits in gracefulStop, which holds one
  signals,   \* how many were sent
  cancelled, \* the context is cancelled
  voter,     \* of RunVoter: "setup", "catchup" or "subscribed"
  subs,      \* its subscribers that have not ended
  server,    \* of the gRPC server: "new", "serving", "draining", "died",
             \* "stopped"
  calls      \* per Revote call: "none", "active", "answered", "cut"

voterVars == <<voter, subs>>
apiVars == <<server, calls>>
mainVars == <<command, running, mailbox, signals, cancelled>>
vars == <<main, mainVars, voterVars, apiVars, configVars>>

Init ==
  /\ command \in Commands
  /\ ConfigInit
  /\ main = "setup"
  /\ running = {}
  /\ mailbox = FALSE /\ signals = 0 /\ cancelled = FALSE
  /\ voter = "setup" /\ subs = {}
  /\ server = "new"
  /\ calls = [c \in Revotes |-> "none"]

Gone == main \in {"returned", "failed", "killed", "crashed"}
Active == {c \in Revotes : calls[c] = "active"}

\* The calls under way end with the process.
ExitCalls ==
  calls' = [c \in Revotes |-> IF calls[c] = "active" THEN "cut" ELSE calls[c]]

Exit(how) ==
  /\ main' = how
  /\ ExitCalls
  /\ UNCHANGED <<mainVars, voterVars, server>>

-----------------------------------------------------------------------------
(***************************************************************************)
(* cli.Run                                                                 *)
(***************************************************************************)
\* The arguments may name no command.
Parse ==
  /\ main = "setup"
  /\ sections["log"] = "read"
  /\ \/ /\ sections["profiler"] = "unread"
        /\ Exit("failed")
     \/ /\ Ready("run")
        /\ main' = "launch"
        /\ UNCHANGED <<mainVars, voterVars, apiVars>>
  /\ UNCHANGED configVars

\* (mutation: every command starts all services)
LaunchAll ==
  /\ main = "launch"
  /\ main' = "notify"
  /\ running' = Services
  /\ UNCHANGED <<command, mailbox, signals, cancelled, voterVars, apiVars, configVars>>

\* The goroutines of the command are started.
Launch ==
  /\ main = "launch"
  /\ main' = "notify"
  /\ running' = command
  /\ UNCHANGED <<command, mailbox, signals, cancelled, voterVars, apiVars, configVars>>

\* From here on signals go to gracefulStop.
Notify ==
  /\ main = "notify"
  /\ main' = "select"
  /\ UNCHANGED <<mainVars, voterVars, apiVars, configVars>>

\* SIGTERM or SIGINT.  Before Notify it kills the process; when one is waiting
\* already, it is dropped.
Signal ==
  /\ ~Gone
  /\ signals < MaxSignals
  /\ signals' = signals + 1
  /\ IF main \in {"setup", "launch", "notify"}
     THEN ExitCalls /\ main' = "killed" /\ UNCHANGED mailbox
     ELSE mailbox' = TRUE /\ UNCHANGED <<main, calls>>
  /\ UNCHANGED <<command, running, cancelled, voterVars, server, configVars>>

\* (mutation: Run returns with the first of its services)
FirstStopped ==
  /\ main \in {"select", "stopping"} /\ running # command
  /\ Exit("returned")
  /\ UNCHANGED configVars

\* Every goroutine has ended, so wgch is closed: Run returns, signal or not.
AllStopped ==
  /\ main \in {"select", "stopping"} /\ running = {}
  /\ Exit("returned")
  /\ UNCHANGED configVars

\* Run takes the signal and cancels the context.  It receives no further one.
Receive ==
  /\ main = "select" /\ mailbox
  /\ mailbox' = FALSE
  /\ cancelled' = TRUE
  /\ main' = "stopping"
  /\ UNCHANGED <<command, running, signals, voterVars, apiVars, configVars>>

-----------------------------------------------------------------------------
(***************************************************************************)
(* The services                                                            *)
(***************************************************************************)
\* Routine r is where it asks for sections.
Asking(r) ==
  CASE r = "run" -> main = "setup"
    [] r = "voter" -> r \in running /\ voter = "setup"
    [] r = "voter-catchup" -> "voter" \in running /\ voter = "catchup"
    [] r \in Subscribers -> r \in subs
    [] OTHER -> r \in running

\* A section is read.  A panic ends the process: the recover of Run sees only
\* those of its own goroutine.  But running.UntilSuccess recovers those of the
\* catch-up, and calls it again.
Load(r) ==
  /\ ~Gone /\ Asking(r)
  /\ \E s \in Wanted(r) :
       \/ Asked(s, "read") /\ UNCHANGED <<main, mainVars, voterVars, apiVars>>
       \/ /\ Asked(s, "broken")
          /\ CASE r = "run" -> Exit("failed")
               [] r = "voter-catchup" -> UNCHANGED <<main, mainVars, voterVars, apiVars>>
               [] OTHER -> Exit("crashed")

\* Service s returns.
Ends(s) ==
  /\ running' = running \ {s}
  /\ UNCHANGED <<main, command, mailbox, signals, cancelled, configVars>>

\* RunStateChangeListener returns when it sees the context.
StopListener ==
  /\ ~Gone /\ cancelled
  /\ "state-change-listener" \in running /\ Ready("state-change-listener")
  /\ Ends("state-change-listener")
  /\ UNCHANGED <<voterVars, apiVars>>

\* RunVoter has its verifiers and begins to catch up.
CatchUp ==
  /\ ~Gone /\ "voter" \in running
  /\ voter = "setup" /\ Ready("voter")
  /\ voter' = "catchup"
  /\ UNCHANGED <<main, mainVars, subs, apiVars, configVars>>

\* RunVoter starts its subscribers, whatever the context says.
Subscribe ==
  /\ ~Gone /\ "voter" \in running
  /\ voter = "catchup"
  /\ voter' = "subscribed" /\ subs' = Subscribers
  /\ UNCHANGED <<main, mainVars, apiVars, configVars>>

\* The catch-up has succeeded.
CaughtUp == Ready("voter-catchup") /\ Subscribe

\* (mutation: the catch-up is tried again until it succeeds)
GiveUpNever == FALSE

\* running.UntilSuccess gives the catch-up up when the context is cancelled.
GiveUp == cancelled /\ Subscribe

\* A subscriber returns when it sees the context.
SubscriberEnds(r) ==
  /\ ~Gone /\ cancelled
  /\ r \in subs /\ Ready(r)
  /\ subs' = subs \ {r}
  /\ UNCHANGED <<main, mainVars, voter, apiVars, configVars>>

\* RunVoter waits for both subscribers.
StopVoter ==
  /\ ~Gone /\ "voter" \in running
  /\ voter = "subscribed" /\ subs = {}
  /\ Ends("voter")
  /\ UNCHANGED <<voterVars, apiVars>>

\* serve: the goroutine that accepts connections, and the end of Serve by an
\* error of the listener.
Serve ==
  /\ ~Gone /\ "grpc-api" \in running /\ Ready("grpc-api")
  /\ \/ server = "new" /\ server' = "serving"
     \/ server = "serving" /\ server' = "died"
  /\ UNCHANGED <<main, mainVars, voterVars, calls, configVars>>

\* (mutation: serve waits for the context only)
ServerDiedUnseen ==
  /\ ~Gone /\ "grpc-api" \in running /\ cancelled
  /\ server = "died"
  /\ Ends("grpc-api")
  /\ UNCHANGED <<voterVars, apiVars>>

\* serve returns because Serve has; the handlers under way are left alone.
ServerDied ==
  /\ ~Gone /\ "grpc-api" \in running
  /\ server = "died"
  /\ Ends("grpc-api")
  /\ UNCHANGED <<voterVars, apiVars>>

\* serve sees the context first and calls GracefulStop.
Shutdown ==
  /\ ~Gone /\ "grpc-api" \in running /\ Ready("grpc-api")
  /\ cancelled
  /\ server \in {"new", "serving", "died"}
  /\ server' = "draining"
  /\ UNCHANGED <<main, mainVars, voterVars, calls, configVars>>

\* (mutation: Stop instead of GracefulStop)
DrainedAtOnce ==
  /\ ~Gone /\ server = "draining"
  /\ server' = "stopped"
  /\ Ends("grpc-api")
  /\ UNCHANGED <<voterVars, calls>>

\* GracefulStop returns once no call is under way.
Drained ==
  /\ ~Gone /\ server = "draining"
  /\ Active = {}
  /\ server' = "stopped"
  /\ Ends("grpc-api")
  /\ UNCHANGED <<voterVars, calls>>

\* A client calls Revote; the handler answers, with an error or without.
Accept ==
  /\ ~Gone /\ server = "serving"
  /\ \E c \in Revotes : calls[c] = "none" /\ calls' = [calls EXCEPT ![c] = "active"]
  /\ UNCHANGED <<main, mainVars, voterVars, server, configVars>>

Answer ==
  /\ ~Gone
  /\ \E c \in Active : calls' = [calls EXCEPT ![c] = "answered"]
  /\ UNCHANGED <<main, mainVars, voterVars, server, configVars>>

-----------------------------------------------------------------------------
Run == Parse \/ Launch \/ Notify \/ AllStopped \/ Receive
RunVoter ==
  \/ CatchUp \/ CaughtUp \/ GiveUp \/ StopVoter
  \/ \E r \in Subscribers : SubscriberEnds(r)
RunAPI == Serve \/ ServerDied \/ Shutdown \/ Drained

Next ==
  \/ Run \/ RunVoter \/ RunAPI \/ StopListener
  \/ \E r \in Routines : Load(r)
  \/ Signal \/ Accept \/ Answer

Spec == Init /\ [][Next]_vars

\* Run goes on; a call for a section returns or panics; services look at the
\* context again and again; every call of a handler comes back.  A catch-up
\* need never succeed.
Fairness ==
  /\ WF_vars(Run)
  /\ \A r \in Routines : WF_vars(Load(r))
  /\ WF_vars(CatchUp) /\ WF_vars(GiveUp) /\ WF_vars(StopVoter)
  /\ \A r \in Subscribers : WF_vars(SubscriberEnds(r))
  /\ WF_vars(StopListener) /\ WF_vars(Answer)
  /\ WF_vars(ServerDied \/ Shutdown \/ Drained)

FairSpec == Spec /\ Fairness

-----------------------------------------------------------------------------
\* Type invariant.
TypeOK ==
  /\ command \in Commands
  /\ main \in {"setup", "launch", "notify", "select", "stopping",
              "returned", "failed", "killed", "crashed"}
  /\ running \subseteq command
  /\ mailbox \in BOOLEAN /\ cancelled \in BOOLEAN
  /\ signals \in 0 .. MaxSignals
  /\ voter \in {"setup", "catchup", "subscribed"} /\ subs \subseteq Subscribers
  /\ (voter # "setup" => "voter" \in command) /\ (subs # {} => voter = "subscribed")
  /\ server \in {"new", "serving", "draining", "died", "stopped"}
  /\ server # "new" => "grpc-api" \in command
  /\ calls \in [Revotes -> {"none", "active", "answered", "cut"}]
  /\ wrong \subseteq Sections
  /\ sections \in [Sections -> {"unread", "read", "broken"}]

\* A live process has no section that panics for ever: the catch-up, whose
\* panics are recovered and which would be called again and again, asks for
\* nothing that was not read before it began.
NoSectionBroken == ~Gone => \A s \in Sections : sections[s] # "broken"

\* When Run returns, every revote that was accepted has been answered, unless
\* the server had died by itself before: wg is not done until GracefulStop is.
RevotesAnswered ==
  main = "returned" /\ server # "died" => \A c \in Revotes : calls[c] # "cut"

\* A signal that Run will receive ends the process, also one that comes while
\* sections are read or while the voter catches up.
SignalStops == mailbox ~> Gone

\* A gRPC server that dies takes nothing else down: without a signal Run returns
\* only when the API was all it ran.  In the full mode voter and saver go on
\* without the API, for none of the services returns by itself.
DiesAlone ==
  main = "returned" /\ ~cancelled => command = {"grpc-api"} /\ server = "died"

\* When the API is all the process runs and its server dies, the process ends,
\* so that the deployment can restart it: serve has to see that Serve returned,
\* and Run that nothing is left, with a signal racing both and revotes that the
\* dead server left under way.
DeadServerEndsAPI == (command = {"grpc-api"} /\ server = "died") ~> Gone
=============================================================================
