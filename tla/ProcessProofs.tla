--------------------------- MODULE ProcessProofs ---------------------------
(* Theorems about Process, for any number of requests in service and any   *)
(* order of the goroutines of main.                                        *)
EXTENDS Process, TLAPS

-----------------------------------------------------------------------------
(* The deferred calls.                                                     *)

(* What the calls deferred so far close.                                   *)
Pending(d) == {d[i] : i \in 1..Len(d)}

LEMMA PendingPushed ==
  ASSUME NEW d \in Seq(Resource), NEW r \in Resource
  PROVE  /\ <<r>> \o d \in Seq(Resource)
         /\ Pending(<<r>> \o d) = {r} \cup Pending(d)
<1> DEFINE e == <<r>> \o d
<1>1. /\ e \in Seq(Resource) /\ Len(e) = Len(d) + 1 /\ Len(d) \in Nat
      /\ e[1] = r /\ \A i \in 1..Len(d) : e[i + 1] = d[i]
  OBVIOUS
<1>2. ASSUME NEW x \in Pending(e) PROVE x \in {r} \cup Pending(d)
  <2>1. PICK i \in 1..Len(e) : x = e[i]
    BY DEF Pending
  <2>2. CASE i = 1
    BY <1>1, <2>1, <2>2
  <2>3. CASE i # 1
    <3>1. i - 1 \in 1..Len(d) /\ e[(i - 1) + 1] = d[i - 1] /\ (i - 1) + 1 = i
      BY <1>1, <2>1, <2>3
    <3>2. QED
      BY <2>1, <3>1 DEF Pending
  <2>4. QED
    BY <2>2, <2>3
<1>3. r \in Pending(e)
  BY <1>1 DEF Pending
<1>4. ASSUME NEW x \in Pending(d) PROVE x \in Pending(e)
  <2>1. PICK i \in 1..Len(d) : x = d[i]
    BY DEF Pending
  <2>2. i + 1 \in 1..Len(e) /\ e[i + 1] = x
    BY <1>1, <2>1
  <2>3. QED
    BY <2>2 DEF Pending
<1>5. QED
  BY <1>1, <1>2, <1>3, <1>4

LEMMA PendingPopped ==
  ASSUME NEW d \in Seq(Resource), d # <<>>
  PROVE  /\ Tail(d) \in Seq(Resource) /\ Head(d) \in Resource
         /\ Pending(d) = {Head(d)} \cup Pending(Tail(d))
<1>1. /\ Tail(d) \in Seq(Resource) /\ Head(d) \in Resource
      /\ d = <<Head(d)>> \o Tail(d)
  OBVIOUS
<1>2. QED
  BY <1>1, PendingPushed

LEMMA PendingNone == Pending(<<>>) = {}
BY DEF Pending

-----------------------------------------------------------------------------
(* The inductive invariant.                                                *)

(* What main has opened when it comes to step m.                           *)
Opened(m) == CASE m \in {"config", "tracer"} -> {}
               [] m \in {"metrics", "registration"} -> {"tracer"}
               [] m = "sessions" -> {"tracer", "registration"}
               [] m = "db" -> {"tracer", "registration", "sessions"}
               [] m = "events" -> {"tracer"} \cup Store
               [] m = "tokens" -> {"tracer", "events"} \cup Store
               [] OTHER -> Resource

MetricsFailed == bg["metrics"] \notin {"off", "running"}

(* err can differ from what the last constructor returned only by the hand *)
(* of the metrics server's goroutine.                                      *)
ErrInv ==
  /\ result # "none" => main \in Store
  /\ result = "error" => err = "error"
  /\ (result = "nil" /\ err = "error") => MetricsFailed

(* On its way main has opened what its place says, and all of that but the *)
(* writer of tokens is to be closed.                                       *)
GoingInv ==
  main # "return" => /\ held = Opened(main) \cup (IF result = "nil" THEN {main} ELSE {})
                     /\ Pending(deferred) = Opened(main) \ {"tokens"}

(* What is open and no deferred call will close any more.                  *)
Left == held \ Pending(deferred)

ReturnInv ==
  main = "return" => \/ Left \subseteq {"tokens"}
                     \/ MetricsFailed /\ \E s \in Store : Left = {s}

ServingInv == /\ serving # {} => main \in {"notify", "select", "drain"}
              /\ main \in {"select", "drain"} => notified
              /\ status = "exited" => main = "return" /\ deferred = <<>>

PInv == TypeOK /\ ErrInv /\ GoingInv /\ ReturnInv /\ ServingInv
LEMMA PInvInit == Init => PInv
<1> SUFFICES ASSUME Init PROVE PInv
  OBVIOUS
<1>1. TypeOK
  <2>1. deferred \in Seq(Resource) /\ held \in SUBSET Resource /\ serving \in SUBSET Call
    BY DEF Init
  <2>2. bg \in [Background -> BgState] /\ main \in Steps
    BY DEF Init, BgState, Steps
  <2>3. notified \in BOOLEAN /\ quit \in BOOLEAN
    BY Zenon DEF Init
  <2>4. /\ shutdown \in 0..1 /\ status = "running" /\ result = "none" /\ err = "nil"
    BY DEF Init
  <2>5. QED
    BY <2>1, <2>2, <2>3, <2>4, Zenon DEF TypeOK
<1>2. ErrInv /\ ReturnInv /\ ServingInv
  BY DEF Init, ErrInv, ReturnInv, ServingInv
<1>3. GoingInv
  BY PendingNone DEF Init, GoingInv, Opened
<1>4. QED
  BY <1>1, <1>2, <1>3 DEF PInv

(* A step that leaves main, its resources and its deferred calls alone.    *)
LEMMA PInvAside ==
  ASSUME PInv, TypeOK', UNCHANGED <<main, result, held, deferred>>,
         status' # "exited",
         err' = "error" => err = "error" \/ MetricsFailed',
         err = "error" => err' = "error",
         MetricsFailed => MetricsFailed',
         serving' # {} => serving # {} \/ main \in {"notify", "select"},
         notified' = notified
  PROVE  PInv'
<1>1. ErrInv'
  BY DEF PInv, ErrInv
<1>2. GoingInv' /\ ReturnInv'
  BY DEF PInv, GoingInv, ReturnInv, Left
<1>3. ServingInv'
  BY DEF PInv, ServingInv
<1>4. QED
  BY <1>1, <1>2, <1>3 DEF PInv

(* A step of main from one place to a later one, other than "return", that *)
(* leaves no result to be tested.                                          *)
LEMMA PInvGoing ==
  ASSUME PInv, TypeOK', status = "running", UNCHANGED <<status, result, serving>>,
         result = "none", main' # "return",
         held' = Opened(main'), Pending(deferred)' = Opened(main') \ {"tokens"},
         serving # {} => main' \in {"notify", "select", "drain"},
         main' \in {"select", "drain"} => notified'
  PROVE  PInv'
BY DEF PInv, ErrInv, GoingInv, ReturnInv, ServingInv

(* A step of main to its return that leaves open no more than was to be    *)
(* closed.                                                                 *)
LEMMA PInvReturn ==
  ASSUME PInv, TypeOK', status = "running", UNCHANGED <<status, serving, held, deferred>>,
         result' = "none", main' = "return", serving = {},
         Left \subseteq {"tokens"}
  PROVE  PInv'
BY DEF PInv, ErrInv, GoingInv, ReturnInv, ServingInv, Left

-----------------------------------------------------------------------------
(* Type correctness of every step.                                         *)

LEMMA TypeMain == ASSUME TypeOK, Main PROVE TypeOK'
<1>1. CASE GetConfig
  BY <1>1 DEF GetConfig, TypeOK, Steps
<1>2. CASE InitJaeger
  BY <1>2, PendingPushed DEF InitJaeger, Defer, TypeOK, Steps, Resource
<1>3. CASE CreateMetrics
  BY <1>3 DEF CreateMetrics, Run, TypeOK, Steps, Store, BgState
<1>4. ASSUME NEW s \in Store, Connect(s) PROVE TypeOK'
  BY <1>4 DEF Connect, TypeOK, Resource
<1>5. ASSUME NEW s \in Store, TestErr(s) PROVE TypeOK'
  <2>1. After[s] \in Steps /\ s \in Resource /\ "return" \in Steps
    BY DEF After, Store, Steps, Resource
  <2>2. main' \in Steps /\ deferred' \in Seq(Resource)
    BY <1>5, <2>1, PendingPushed DEF TestErr, Defer, TypeOK
  <2>3. QED
    BY <1>5, <2>2 DEF TestErr, TypeOK
<1>6. CASE NewAccountsEvents \/ NewTokensDeliveryMQ
  BY <1>6, PendingPushed DEF NewAccountsEvents, NewTokensDeliveryMQ, Defer, TypeOK, Steps,
     Resource
<1>7. CASE RunHealthcheck \/ RunServer
  BY <1>7 DEF RunHealthcheck, RunServer, Run, TypeOK, Steps, BgState
<1>8. CASE Notify \/ Select \/ Drain
  <2>1. CASE Notify
    BY <2>1 DEF Notify, TypeOK, Steps
  <2>2. CASE Select
    <3>1. shutdown' \in 0..1
      <4>1. shutdown' = shutdown \/ (shutdown > 0 /\ shutdown' = shutdown - 1)
        BY <2>2, Zenon DEF Select
      <4>2. QED
        BY <4>1 DEF TypeOK
    <3>2. quit' \in BOOLEAN
      BY <2>2, Zenon DEF Select, TypeOK
    <3>3. "drain" \in Steps
      BY DEF Steps
    <3>4. QED
      BY <2>2, <3>1, <3>2, <3>3, Zenon DEF Select, TypeOK
  <2>3. CASE Drain
    BY <2>3 DEF Drain, TypeOK, Steps
  <2>4. QED
    BY <1>8, <2>1, <2>2, <2>3
<1>9. CASE Unwind
  BY <1>9, PendingPopped DEF Unwind, TypeOK
<1>10. QED
  BY <1>1, <1>2, <1>3, <1>4, <1>5, <1>6, <1>7, <1>8, <1>9 DEF Main

LEMMA TypeAside ==
  ASSUME TypeOK,
         \/ \E g \in Background : Report(g)
         \/ RunMetricServer \/ EndpointFails \/ Signal
         \/ \E c \in Call : Accept(c) \/ Answer(c)
  PROVE  TypeOK'
<1>1. CASE TestMetricsErr
  BY <1>1 DEF TestMetricsErr, TypeOK, BgState
<1>2. ASSUME NEW g \in Background, Send(g) PROVE TypeOK'
  BY <1>2 DEF Send, TypeOK, BgState
<1>3. CASE RunMetricServer \/ EndpointFails
  BY <1>3 DEF RunMetricServer, EndpointFails, TypeOK, BgState
<1>4. CASE Signal
  BY <1>4 DEF Signal, TypeOK
<1>5. ASSUME NEW c \in Call, Accept(c) \/ Answer(c) PROVE TypeOK'
  BY <1>5 DEF Accept, Answer, TypeOK
<1>6. QED
  BY <1>1, <1>2, <1>3, <1>4, <1>5 DEF Report

-----------------------------------------------------------------------------
(* Every step keeps the invariant.                                         *)

LEMMA PInvStart ==
  ASSUME PInv, TypeOK', status = "running", GetConfig \/ InitJaeger \/ CreateMetrics
  PROVE  PInv'
<1>1. /\ main \in {"config", "tracer", "metrics"} /\ result = "none" /\ serving = {}
      /\ held = Opened(main) /\ Pending(deferred) = Opened(main) \ {"tokens"}
      /\ UNCHANGED <<result, serving, err>>
  BY DEF PInv, ErrInv, GoingInv, ServingInv, Store, GetConfig, InitJaeger, CreateMetrics
<1>2. CASE status' = status /\ main' # "return"
  <2>1. /\ main' \in {"tracer", "metrics", "registration"}
        /\ held' = Opened(main') /\ Pending(deferred)' = Opened(main') \ {"tokens"}
    <3>1. CASE GetConfig
      BY <1>1, <1>2, <3>1 DEF GetConfig, Opened
    <3>2. CASE InitJaeger
      <4>1. /\ main = "tracer" /\ main' = "metrics" /\ held' = held \cup {"tracer"}
            /\ deferred' = <<"tracer">> \o deferred
        BY <1>2, <3>2 DEF InitJaeger, Defer
      <4>2. Pending(deferred)' = {"tracer"} \cup Pending(deferred)
        BY <4>1, PendingPushed DEF PInv, TypeOK, Resource
      <4>3. QED
        BY <1>1, <4>1, <4>2 DEF Opened
    <3>3. CASE CreateMetrics
      BY <1>1, <1>2, <3>3 DEF CreateMetrics, Opened
    <3>4. QED
      BY <3>1, <3>2, <3>3
  <2>2. QED
    BY <1>1, <1>2, <2>1, PInvGoing
<1>3. CASE status' = status /\ main' = "return"
  <2>1. UNCHANGED <<held, deferred>>
    BY <1>1, <1>3 DEF GetConfig, InitJaeger, CreateMetrics
  <2>2. QED
    BY <1>1, <1>3, <2>1, PInvReturn DEF Left
<1>4. CASE status' = "killed" /\ GetConfig
  BY <1>1, <1>4, PInvAside DEF GetConfig, MetricsFailed
<1>5. QED
  BY <1>2, <1>3, <1>4 DEF GetConfig, InitJaeger, CreateMetrics

LEMMA PInvConnect ==
  ASSUME PInv, TypeOK', status = "running", NEW s \in Store, Connect(s)
  PROVE  PInv'
<1>1. main \notin {"return", "notify", "select", "drain"} /\ main = s /\ serving = {}
  BY DEF Connect, Store, PInv, ServingInv
<1>2. ErrInv'
  BY <1>1 DEF Connect, ErrInv
<1>3. GoingInv' /\ ReturnInv'
  BY <1>1 DEF Connect, PInv, GoingInv, ReturnInv
<1>4. ServingInv'
  BY <1>1 DEF Connect, ServingInv
<1>5. QED
  BY <1>2, <1>3, <1>4 DEF PInv

(* The test either goes on, with the store to be closed and so connected   *)
(* to, or gives up: after a failure, or as it saw the error the metrics    *)
(* server left, and then this one store stays open.                        *)
LEMMA PInvTestErr ==
  ASSUME PInv, TypeOK', status = "running", NEW s \in Store, TestErr(s)
  PROVE  PInv'
<1>1. /\ main = s /\ main \notin {"return", "notify", "select", "drain"} /\ serving = {}
      /\ result \in {"nil", "error"} /\ result' = "none"
      /\ UNCHANGED <<status, err, held, bg, serving>>
  BY DEF TestErr, Store, PInv, ServingInv, TypeOK
<1>2. /\ held = Opened(s) \cup (IF result = "nil" THEN {s} ELSE {})
      /\ Pending(deferred) = Opened(s) \ {"tokens"}
      /\ "tokens" \notin Opened(s) /\ s \notin Opened(s)
  BY <1>1 DEF PInv, GoingInv, Opened, Store
<1>3. result = "error" => err = "error"
  BY DEF PInv, ErrInv
<1>4. CASE main' = After[s] /\ Defer(s) /\ result = "nil"
  <2>1. Pending(deferred)' = {s} \cup Pending(deferred)
    BY <1>4, PendingPushed DEF Defer, PInv, TypeOK, Resource
  <2>2. /\ Opened(main') = Opened(s) \cup {s}
        /\ main' \notin Store \cup {"return", "notify", "select", "drain"} \/ main' \in Store
        /\ main' \notin {"return", "notify", "select", "drain"}
    BY <1>4 DEF After, Store, Opened
  <2>3. ErrInv' /\ ReturnInv' /\ ServingInv'
    BY <1>1, <2>2 DEF ErrInv, ReturnInv, ServingInv
  <2>4. GoingInv'
    BY <1>1, <1>2, <1>4, <2>1, <2>2 DEF GoingInv, Store
  <2>5. QED
    BY <2>3, <2>4 DEF PInv
<1>5. CASE main' = "return" /\ UNCHANGED deferred /\ result = "error"
  <2>1. Left \subseteq {"tokens"}
    BY <1>2, <1>5 DEF Left
  <2>2. QED
    BY <1>1, <1>5, <2>1, PInvReturn
<1>6. CASE main' = "return" /\ UNCHANGED deferred /\ result = "nil" /\ err = "error"
  <2>1. MetricsFailed /\ Left = {s}
    BY <1>2, <1>6 DEF PInv, ErrInv, Left
  <2>2. ReturnInv'
    BY <1>1, <1>6, <2>1 DEF ReturnInv, Left, MetricsFailed
  <2>3. ErrInv' /\ GoingInv' /\ ServingInv'
    BY <1>1, <1>6 DEF ErrInv, GoingInv, ServingInv
  <2>4. QED
    BY <2>2, <2>3 DEF PInv
<1>7. QED
  BY <1>1, <1>3, <1>4, <1>5, <1>6 DEF TestErr

LEMMA PInvOpen ==
  ASSUME PInv, TypeOK', status = "running", NewAccountsEvents \/ NewTokensDeliveryMQ
  PROVE  PInv'
<1>1. /\ main \in {"events", "tokens"} /\ result = "none" /\ serving = {}
      /\ held = Opened(main) /\ Pending(deferred) = Opened(main) \ {"tokens"}
      /\ UNCHANGED <<status, result, serving>>
  BY DEF NewAccountsEvents, NewTokensDeliveryMQ, PInv, ErrInv, GoingInv, ServingInv, Store
<1>2. Pending(deferred)' = {"events"} \cup Pending(deferred)
  BY PendingPushed DEF NewAccountsEvents, NewTokensDeliveryMQ, Defer, PInv, TypeOK, Resource
<1>3. main' \in {"tokens", "healthcheck"}
  BY DEF NewAccountsEvents, NewTokensDeliveryMQ
<1>4. held' = Opened(main') /\ Pending(deferred)' = Opened(main') \ {"tokens"}
  BY <1>1, <1>2 DEF NewAccountsEvents, NewTokensDeliveryMQ, Opened, Resource, Store
<1>5. QED
  BY <1>1, <1>3, <1>4, PInvGoing

LEMMA PInvServe ==
  ASSUME PInv, TypeOK', status = "running",
         RunHealthcheck \/ RunServer \/ Notify \/ Select \/ Drain
  PROVE  PInv'
<1>1. /\ main \in {"healthcheck", "server", "notify", "select", "drain"}
      /\ result = "none" /\ held = Resource /\ Pending(deferred) = Resource \ {"tokens"}
      /\ UNCHANGED <<status, result, serving, held, deferred>>
  BY DEF RunHealthcheck, RunServer, Notify, Select, Drain, PInv, ErrInv, GoingInv, Store,
     Opened
<1>2. CASE Drain
  BY <1>1, <1>2, PInvReturn DEF Drain, Left
<1>3. CASE RunHealthcheck \/ RunServer \/ Notify \/ Select
  <2>1. /\ main' \in {"server", "notify", "select", "drain"}
        /\ serving # {} => main' \in {"notify", "select", "drain"}
        /\ main' \in {"select", "drain"} => notified'
    BY <1>3 DEF RunHealthcheck, RunServer, Notify, Select, PInv, ServingInv
  <2>2. Opened(main') = Resource /\ main' # "return"
    BY <2>1 DEF Opened
  <2>3. QED
    BY <1>1, <2>1, <2>2, PInvGoing
<1>4. QED
  BY <1>2, <1>3

(* A deferred call takes out of held what it takes out of Pending.         *)
LEMMA PInvUnwind == ASSUME PInv, TypeOK', status = "running", Unwind PROVE PInv'
<1>1. /\ main = "return" /\ serving = {} /\ UNCHANGED <<main, result, err, bg, serving>>
  BY DEF Unwind, PInv, ServingInv
<1>2. ErrInv' /\ GoingInv' /\ ServingInv'
  BY <1>1 DEF Unwind, PInv, ErrInv, GoingInv, ServingInv, MetricsFailed
<1>3. Left' = Left
  <2>1. CASE deferred = <<>>
    BY <2>1 DEF Unwind, Left
  <2>2. CASE deferred # <<>>
    BY <2>2, PendingPopped DEF Unwind, Left, PInv, TypeOK
  <2>3. QED
    BY <2>1, <2>2
<1>4. ReturnInv'
  BY <1>1, <1>3 DEF PInv, ReturnInv, MetricsFailed
<1>5. QED
  BY <1>2, <1>4 DEF PInv

(* Only the metrics server's goroutine writes err outside main, and once   *)
(* it has failed it does not run again.                                    *)
LEMMA MetricsAside ==
  ASSUME TypeOK,
         \/ \E g \in Background : Report(g)
         \/ RunMetricServer \/ EndpointFails \/ Signal
         \/ \E c \in Call : Accept(c) \/ Answer(c)
  PROVE  /\ MetricsFailed => MetricsFailed'
         /\ err' = "error" => err = "error" \/ MetricsFailed'
         /\ err = "error" => err' = "error"
<1> bg \in [Background -> BgState] /\ "metrics" \in Background
  BY DEF TypeOK, Background
<1>1. CASE RunMetricServer
  <2>1. bg'["metrics"] = "failed" /\ err' = "error"
    BY <1>1 DEF RunMetricServer
  <2>2. QED
    BY <2>1 DEF MetricsFailed
<1>2. CASE ~RunMetricServer
  <2>1. UNCHANGED err
    BY <1>2 DEF Report, TestMetricsErr, Send, EndpointFails, Signal, Accept, Answer
  <2>2. bg'["metrics"] \in {bg["metrics"], "unnoticed", "sending", "sent"}
    <3>1. CASE TestMetricsErr
      BY <3>1 DEF TestMetricsErr
    <3>2. ASSUME NEW g \in Background, Send(g)
          PROVE  bg'["metrics"] \in {bg["metrics"], "sent"}
      BY <3>2 DEF Send
    <3>3. CASE EndpointFails
      BY <3>3 DEF EndpointFails
    <3>4. CASE Signal \/ \E c \in Call : Accept(c) \/ Answer(c)
      BY <3>4 DEF Signal, Accept, Answer
    <3>5. QED
      BY <1>2, <3>1, <3>2, <3>3, <3>4 DEF Report
  <2>3. bg'["metrics"] \in {"off", "running"} => bg'["metrics"] = bg["metrics"]
    BY <2>2
  <2>4. QED
    BY <2>1, <2>3 DEF MetricsFailed
<1>3. QED
  BY <1>1, <1>2

LEMMA PInvNext == PInv /\ [Next]_vars => PInv'
<1> SUFFICES ASSUME PInv, [Next]_vars PROVE PInv'
  OBVIOUS
<1>1. CASE UNCHANGED vars
  BY <1>1 DEF vars, PInv, TypeOK, ErrInv, GoingInv, ReturnInv, ServingInv, Left, MetricsFailed
<1>2. CASE status = "running" /\ Main
  <2>1. TypeOK'
    BY <1>2, TypeMain DEF PInv
  <2>2. QED
    BY <1>2, <2>1, PInvStart, PInvConnect, PInvTestErr, PInvOpen, PInvServe, PInvUnwind
       DEF Main
<1>3. CASE /\ status = "running"
           /\ \/ \E g \in Background : Report(g)
              \/ RunMetricServer \/ EndpointFails \/ Signal
              \/ \E c \in Call : Accept(c) \/ Answer(c)
  <2>1. TypeOK'
    BY <1>3, TypeAside DEF PInv
  <2>2. /\ MetricsFailed => MetricsFailed'
        /\ err' = "error" => err = "error" \/ MetricsFailed'
        /\ err = "error" => err' = "error"
    BY <1>3, MetricsAside DEF PInv
  <2>3. /\ UNCHANGED <<main, result, held, deferred, notified>> /\ status' # "exited"
        /\ serving' # {} => serving # {} \/ main \in {"notify", "select"}
    BY <1>3 DEF Report, TestMetricsErr, Send, RunMetricServer, EndpointFails, Signal, Accept,
       Answer
  <2>4. QED
    BY <2>1, <2>2, <2>3, PInvAside
<1>4. QED
  BY <1>1, <1>2, <1>3 DEF Next

LEMMA PInvAlways == Spec => []PInv
BY PInvInit, PInvNext, PTL DEF Spec

-----------------------------------------------------------------------------
(* The theorems.                                                           *)

(* Every variable of the process keeps its type: the deferred calls close  *)
(* known resources, and the channel shutdown never holds more than the one *)
(* message it has room for, however many goroutines report a failure.      *)
THEOREM TypeCorrect == Spec => []TypeOK
<1>1. PInv => TypeOK
  BY DEF PInv
<1>2. QED
  BY <1>1, PInvAlways, PTL

(* However main and the goroutine of the metrics server interleave their   *)
(* assignments and tests of err, and whether or not the build loads it     *)
(* again, main starts to serve only with every store connected, and closes *)
(* none of them while a request is in service.                             *)
THEOREM StoresAreThere == Spec => []RequestsHaveStores
<1>1. PInv => RequestsHaveStores
  <2> SUFFICES ASSUME PInv PROVE RequestsHaveStores
    OBVIOUS
  <2>1. main \in {"healthcheck", "server", "notify", "select", "drain"} => held = Resource
    BY DEF PInv, ErrInv, GoingInv, Opened, Store, Resource
  <2>2. serving # {} => main \in {"notify", "select", "drain"}
    BY DEF PInv, ServingInv
  <2>3. QED
    BY <2>1, <2>2 DEF RequestsHaveStores
<1>2. QED
  BY <1>1, PInvAlways, PTL

(* When main has returned and its deferred calls have run, nothing but the *)
(* writer of tokens is open, or the one store whose connection main gave   *)
(* up for the error of the metrics server, whichever of the stores it is.  *)
THEOREM ExitCloses == Spec => []OpenedAreClosed
<1>1. PInv => OpenedAreClosed
  <2> SUFFICES ASSUME PInv, status = "exited" PROVE OpenedAreClosed
    BY DEF OpenedAreClosed
  <2>1. main = "return" /\ deferred = <<>>
    BY DEF PInv, ServingInv
  <2>2. Left = held
    BY <2>1, PendingNone DEF Left
  <2>3. QED
    BY <2>1, <2>2 DEF PInv, ReturnInv, OpenedAreClosed, MetricsFailed
<1>2. QED
  BY <1>1, PInvAlways, PTL

(* A signal that kills the process while it serves requests comes in the   *)
(* window between the start of the server and signal.Notify: before it     *)
(* nobody is served, and after it the signal goes to the channel quit.     *)
THEOREM CutsAreEarly == Spec => CutOnlyBeforeNotify
<1>1. PInv /\ [Next]_vars => [(status' = "killed" /\ serving # {}) => main = "notify"]_vars
  <2> SUFFICES ASSUME PInv, Next, status' = "killed", serving # {} PROVE main = "notify"
    BY DEF vars
  <2>1. status = "running" /\ main \in {"notify", "select", "drain"}
    BY DEF Next, PInv, ServingInv
  <2>2. Signal
    BY <2>1 DEF Next, Main, Report, GetConfig, InitJaeger, CreateMetrics, Connect, TestErr,
       NewAccountsEvents, NewTokensDeliveryMQ, RunHealthcheck, RunServer, Notify, Select,
       Drain, Unwind, TestMetricsErr, Send, RunMetricServer, EndpointFails, Accept, Answer
  <2>3. ~notified
    BY <2>1, <2>2 DEF Signal
  <2>4. QED
    BY <2>1, <2>3 DEF PInv, ServingInv
<1>2. QED
  BY <1>1, PInvAlways, PTL DEF Spec, CutOnlyBeforeNotify
=============================================================================
