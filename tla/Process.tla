------------------------------- MODULE Process -------------------------------
(***************************************************************************)
(* The process: main of cmd/server/app.go from its start to its end, with  *)
(* the goroutines that run the metrics server, the healthcheck and the     *)
(* server, the channel `shutdown` on which they report, the signals and    *)
(* the deferred calls that close what was opened.                          *)
(*                                                                         *)
(* main and the goroutine of the metrics server share the variable err     *)
(* (app.go:59 assigns the one declared at app.go:34): whoever assigns it   *)
(* and tests it may test what the other assigned in between.               *)
(***************************************************************************)
EXTENDS Naturals, Sequences

CONSTANT Call   \* requests served at once (bound on concurrent requests)

VARIABLES
  status,    \* "running", "exited" (main returned) or "killed"
  main,      \* where main stands
  result,    \* what the constructor main has just called returned
  err,       \* the shared variable, "nil" or "error"
  held,      \* what is open: the tracer, the stores, the Kafka writers
  deferred,  \* the deferred calls of main, the next to run first
  bg,        \* the goroutines of main
  shutdown,  \* messages in the channel of that name
  notified,  \* whether signal.Notify was called
  quit,      \* whether a signal waits in the channel of that name
  serving    \* the requests in service

vars == <<status, main, result, err, held, deferred, bg, shutdown, notified,
          quit, serving>>

Store == {"registration", "sessions", "db"}
Resource == Store \cup {"tracer", "events", "tokens"}
Background == {"metrics", "healthcheck", "server"}

Steps == {"config", "tracer", "metrics"} \cup Store
         \cup {"events", "tokens", "healthcheck", "server", "notify", "select",
               "drain", "return"}

(* "failed": the error was assigned and is still to be tested. "sending":  *)
(* it goes to shutdown. "unnoticed": the test saw nil.                     *)
BgState == {"off", "running", "failed", "sending", "sent", "unnoticed"}

Defer(r) == deferred' = <<r>> \o deferred

Run(g) == bg' = [bg EXCEPT ![g] = "running"]

-----------------------------------------------------------------------------
(* Starting.                                                               *)

(* logger.Fatal for a configuration that cannot be read or names no level. *)
GetConfig == /\ main = "config"
             /\ \/ main' = "tracer" /\ UNCHANGED status
                \/ status' = "killed" /\ UNCHANGED main
             /\ UNCHANGED <<result, err, held, deferred, bg, shutdown, notified,
                            quit, serving>>

(* Mutant: nobody closes the tracer.                                       *)
InitJaegerNotDeferred ==
  /\ main = "tracer"
  /\ \/ main' = "metrics" /\ held' = held \cup {"tracer"} /\ UNCHANGED deferred
     \/ main' = "return" /\ UNCHANGED <<held, deferred>>
  /\ UNCHANGED <<status, result, err, bg, shutdown, notified, quit, serving>>

InitJaeger ==
  /\ main = "tracer"
  /\ \/ main' = "metrics" /\ held' = held \cup {"tracer"} /\ Defer("tracer")
     \/ main' = "return" /\ UNCHANGED <<held, deferred>>
  /\ UNCHANGED <<status, result, err, bg, shutdown, notified, quit, serving>>

(* A collector that cannot be registered, for its name, ends the start.    *)
CreateMetrics == /\ main = "metrics"
                 /\ \/ main' = "registration" /\ Run("metrics")
                    \/ main' = "return" /\ UNCHANGED bg
                 /\ UNCHANGED <<status, result, err, held, deferred, shutdown,
                                notified, quit, serving>>

(* The constructor of a store connects; its error goes to err. A client    *)
(* whose first PING fails is dropped unclosed and is not held.             *)
Connect(s) ==
  /\ main = s /\ result = "none"
  /\ result' \in {"nil", "error"}
  /\ err' = result'
  /\ held' = IF result' = "nil" THEN held \cup {s} ELSE held
  /\ UNCHANGED <<status, main, deferred, bg, shutdown, notified, quit, serving>>

After == [registration |-> "sessions", sessions |-> "db", db |-> "events"]

(* `if err != nil`: the build may keep err in a register or load it again. *)
TestErr(s) ==
  /\ main = s /\ result # "none"
  /\ result' = "none"
  /\ \E seen \in {result, err} :
       \/ seen = "nil" /\ main' = After[s] /\ Defer(s)
       \/ seen = "error" /\ main' = "return" /\ UNCHANGED deferred
  /\ UNCHANGED <<status, err, held, bg, shutdown, notified, quit, serving>>

NewAccountsEvents ==
  /\ main = "events" /\ main' = "tokens"
  /\ held' = held \cup {"events"}
  /\ Defer("events")
  /\ UNCHANGED <<status, result, err, bg, shutdown, notified, quit, serving>>

(* The call deferred here is accountsEventsMQ.Shutdown once more.          *)
NewTokensDeliveryMQ ==
  /\ main = "tokens" /\ main' = "healthcheck"
  /\ held' = held \cup {"tokens"}
  /\ Defer("events")
  /\ UNCHANGED <<status, result, err, bg, shutdown, notified, quit, serving>>

RunHealthcheck == /\ main = "healthcheck" /\ main' = "server"
                  /\ Run("healthcheck")
                  /\ UNCHANGED <<status, result, err, held, deferred, shutdown,
                                 notified, quit, serving>>

RunServer == /\ main = "server" /\ main' = "notify"
             /\ Run("server")
             /\ UNCHANGED <<status, result, err, held, deferred, shutdown,
                            notified, quit, serving>>

(* Mutant: SIGTERM is not among the signals asked for.                     *)
NotifyNothing == /\ main = "notify" /\ main' = "select"
                 /\ UNCHANGED <<status, result, err, held, deferred, bg,
                                shutdown, notified, quit, serving>>

Notify == /\ main = "notify" /\ main' = "select"
          /\ notified' = TRUE
          /\ UNCHANGED <<status, result, err, held, deferred, bg, shutdown,
                         quit, serving>>

-----------------------------------------------------------------------------
(* The goroutines of main.                                                 *)

(* Mutant: http.ErrServerClosed is taken for no error.                     *)
RunMetricServerClosed ==
  /\ bg["metrics"] = "running"
  /\ bg' = [bg EXCEPT !["metrics"] = "failed"]
  /\ err' \in {"nil", "error"}
  /\ UNCHANGED <<status, main, result, held, deferred, shutdown, notified, quit,
                 serving>>

(* net.Listen fails, or Serve returns, which it does only with an error.   *)
RunMetricServer ==
  /\ bg["metrics"] = "running"
  /\ bg' = [bg EXCEPT !["metrics"] = "failed"]
  /\ err' = "error"
  /\ UNCHANGED <<status, main, result, held, deferred, shutdown, notified, quit,
                 serving>>

TestMetricsErr ==
  /\ bg["metrics"] = "failed"
  /\ \E seen \in {"error", err} :
       bg' = [bg EXCEPT !["metrics"] = IF seen = "nil" THEN "unnoticed" ELSE "sending"]
  /\ UNCHANGED <<status, main, result, err, held, deferred, shutdown, notified,
                 quit, serving>>

(* These two have an err of their own.                                     *)
EndpointFails == /\ \E g \in {"healthcheck", "server"} :
                      /\ bg[g] = "running"
                      /\ bg' = [bg EXCEPT ![g] = "sending"]
                 /\ UNCHANGED <<status, main, result, err, held, deferred,
                                shutdown, notified, quit, serving>>

(* Mutant: a channel that never blocks.                                    *)
SendUnbounded(g) ==
  /\ bg[g] = "sending"
  /\ bg' = [bg EXCEPT ![g] = "sent"] /\ shutdown' = shutdown + 1
  /\ UNCHANGED <<status, main, result, err, held, deferred, notified, quit, serving>>

(* make(chan error, 1): a second message waits.                            *)
Send(g) ==
  /\ bg[g] = "sending" /\ shutdown < 1
  /\ bg' = [bg EXCEPT ![g] = "sent"] /\ shutdown' = shutdown + 1
  /\ UNCHANGED <<status, main, result, err, held, deferred, notified, quit, serving>>

(* SIGHUP or SIGTERM; before Notify it has its default effect.             *)
Signal == /\ IF notified THEN quit' = TRUE /\ UNCHANGED status
                         ELSE status' = "killed" /\ UNCHANGED quit
          /\ UNCHANGED <<main, result, err, held, deferred, bg, shutdown,
                         notified, serving>>

-----------------------------------------------------------------------------
(* Requests. The server accepts them until its Shutdown is called.         *)

Accept(c) == /\ bg["server"] # "off" /\ main \in {"notify", "select"}
             /\ c \notin serving
             /\ serving' = serving \cup {c}
             /\ UNCHANGED <<status, main, result, err, held, deferred, bg,
                            shutdown, notified, quit>>

Answer(c) == /\ c \in serving
             /\ serving' = serving \ {c}
             /\ UNCHANGED <<status, main, result, err, held, deferred, bg,
                            shutdown, notified, quit>>

-----------------------------------------------------------------------------
(* Stopping.                                                               *)

(* Mutant: main listens to signals only.                                   *)
SelectQuit == /\ main = "select"
              /\ quit /\ quit' = FALSE /\ main' = "drain"
              /\ UNCHANGED <<status, result, err, held, deferred, bg, shutdown,
                             notified, serving>>

Select ==
  /\ main = "select" /\ main' = "drain"
  /\ \/ quit /\ quit' = FALSE /\ UNCHANGED shutdown
     \/ shutdown > 0 /\ shutdown' = shutdown - 1 /\ UNCHANGED quit
  /\ UNCHANGED <<status, result, err, held, deferred, bg, notified, serving>>

(* serv.Shutdown returns once the requests in service are answered.        *)
Drain == /\ main = "drain" /\ serving = {}
         /\ main' = "return"
         /\ UNCHANGED <<status, result, err, held, deferred, bg, shutdown,
                        notified, quit, serving>>

(* main returns: the deferred calls run, and after them the process ends.  *)
Unwind ==
  /\ main = "return"
  /\ IF deferred = <<>>
     THEN status' = "exited" /\ UNCHANGED <<held, deferred>>
     ELSE /\ held' = held \ {Head(deferred)} /\ deferred' = Tail(deferred)
          /\ UNCHANGED status
  /\ UNCHANGED <<main, result, err, bg, shutdown, notified, quit, serving>>

Init ==
  /\ status = "running" /\ main = "config" /\ result = "none" /\ err = "nil"
  /\ held = {} /\ deferred = <<>>
  /\ bg = [g \in Background |-> "off"]
  /\ shutdown = 0 /\ notified = FALSE /\ quit = FALSE /\ serving = {}

Main == \/ GetConfig \/ InitJaeger \/ CreateMetrics
        \/ \E s \in Store : Connect(s) \/ TestErr(s)
        \/ NewAccountsEvents \/ NewTokensDeliveryMQ
        \/ RunHealthcheck \/ RunServer \/ Notify
        \/ Select \/ Drain \/ Unwind

Report(g) == (g = "metrics" /\ TestMetricsErr) \/ Send(g)

Next == /\ status = "running"
        /\ \/ Main
           \/ \E g \in Background : Report(g)
           \/ RunMetricServer \/ EndpointFails \/ Signal
           \/ \E c \in Call : Accept(c) \/ Answer(c)

Spec == Init /\ [][Next]_vars

(* Goroutines that can run do, and a request that was accepted is answered *)
(* (Answered of Sessions, Registration and Accounts). Nothing has to fail, *)
(* no signal has to come, and no client has to call.                       *)
FairSpec == /\ Spec
            /\ WF_vars(status = "running" /\ Main)
            /\ \A g \in Background : WF_vars(status = "running" /\ Report(g))
            /\ \A c \in Call : WF_vars(status = "running" /\ Answer(c))

-----------------------------------------------------------------------------
(* Properties.                                                             *)

(* Every variable has its type, and the channel keeps to its buffer.       *)
TypeOK ==
  /\ status \in {"running", "exited", "killed"}
  /\ main \in Steps
  /\ result \in {"none", "nil", "error"}
  /\ err \in {"nil", "error"}
  /\ held \in SUBSET Resource
  /\ deferred \in Seq(Resource)
  /\ bg \in [Background -> BgState]
  /\ shutdown \in 0..1
  /\ notified \in BOOLEAN
  /\ quit \in BOOLEAN
  /\ serving \in SUBSET Call

(* Whatever the two goroutines read from err, main never goes on without a *)
(* store it failed to connect to, and none is closed under a request.      *)
RequestsHaveStores ==
  /\ main \in {"healthcheck", "server", "notify", "select", "drain"}
       => held = Resource
  /\ serving # {} => held = Resource

(* After an orderly end only the writer of tokens is open, which no call   *)
(* closes; if the metrics server failed while main connected to a store,   *)
(* that one store may be open too, as its Shutdown was not deferred yet.   *)
OpenedAreClosed ==
  status = "exited" =>
    \/ held \subseteq {"tokens"}
    \/ bg["metrics"] \notin {"off", "running"} /\ \E s \in Store : held = {s}

(* A SIGHUP or SIGTERM cuts requests off only in the window between the    *)
(* start of the server and signal.Notify.                                  *)
CutOnlyBeforeNotify ==
  [][(status' = "killed" /\ serving # {}) => main = "notify"]_vars

(* A signal that was received, an endpoint that failed, and a metrics      *)
(* server that failed once all stores were connected take the process down *)
(* in an orderly way or are overtaken by a signal; no main, no goroutine   *)
(* that waits to report and no request in service keeps it up.             *)
Stops ==
  /\ quit ~> status # "running"
  /\ \A g \in Background : bg[g] = "sending" ~> status # "running"
  /\ (bg["metrics"] = "failed" /\ main \notin Store /\ err = "error")
       ~> status # "running"
=============================================================================
