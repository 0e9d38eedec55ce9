------------------------------- MODULE Lifecycle ------------------------------
(***************************************************************************)
(* The process of cmd/main.go between its start and its end: an errgroup   *)
(* of the outbox publisher, the gRPC server and the HTTP server, the       *)
(* goroutines that stop the servers when the group's context is done, and  *)
(* the requests that are being served meanwhile.                           *)
(*                                                                         *)
(* Time is counted in ticks, for the waits of the shutdown only.  A        *)
(* goroutine that can run does so within a tick.                           *)
(***************************************************************************)
EXTENDS Naturals

CONSTANTS
  HttpRequests,   \* requests that may reach the HTTP server
  Rpcs,           \* and the gRPC server
  MaxServe,       \* WriteTimeout of the HTTP server: no answer is written later
  PublisherWait   \* the 30 seconds Publisher.Shutdown waits

ASSUME RequestsApart == HttpRequests \intersect Rpcs = {}
ASSUME WaitsAreNat == MaxServe \in Nat /\ PublisherWait \in Nat
ASSUME WaitOutlastsServing == MaxServe < PublisherWait

VARIABLES
  ctxDone,   \* gCtx is done: SIGTERM, or a member of the group failed
  publisher, \* goroutine of outboxPublisher.Run
  waited,    \* ticks Publisher.Shutdown has waited
  grpc,      \* goroutine of grpcSrv.Serve
  http,      \* goroutine of restSrv.Run
  httpShut,  \* http.Server.Shutdown was called
  request,   \* what became of each request
  age,       \* ticks an HTTP request has been served for
  process    \* the process itself

vars == <<ctxDone, publisher, waited, grpc, http, httpShut, request, age, process>>

Requests == HttpRequests \union Rpcs

TypeOK ==
  /\ ctxDone \in BOOLEAN
  /\ publisher \in {"running", "waiting", "returned"}
  /\ waited \in 0..PublisherWait
  /\ grpc \in {"new", "serving", "stopping", "returned"}
  /\ http \in {"new", "spawned", "assigned", "listening", "returned"}
  /\ httpShut \in BOOLEAN
  /\ request \in [Requests -> {"new", "served", "answered", "cut"}]
  /\ age \in [HttpRequests -> 0..MaxServe]
  /\ process \in {"up", "exited", "panicked"}

Init ==
  /\ ctxDone = FALSE
  /\ publisher = "running"
  /\ waited = 0
  /\ grpc = "new"
  /\ http = "new"
  /\ httpShut = FALSE
  /\ request = [r \in Requests |-> "new"]
  /\ age = [r \in HttpRequests |-> 0]
  /\ process = "up"

-----------------------------------------------------------------------------
Up == process = "up"

\* The signal that cancels the context of signal.NotifyContext.
Signal ==
  /\ Up
  /\ ~ctxDone
  /\ ctxDone' = TRUE
  /\ UNCHANGED <<publisher, waited, grpc, http, httpShut, request, age, process>>

(***************************************************************************)
(* The publisher.  Its Run calls Shutdown, which waits for Run to return   *)
(* and so always for the whole timeout.                                    *)
(***************************************************************************)
StopPublisher ==
  /\ Up
  /\ ctxDone
  /\ publisher = "running"
  /\ publisher' = "waiting"
  /\ UNCHANGED <<ctxDone, waited, grpc, http, httpShut, request, age, process>>

\* Variants that the runs are tested with stand before what they vary.
SeesRunReturn == publisher = "waiting"
NeverTimesOut == FALSE

WaitIsOver == publisher = "waiting" /\ waited = PublisherWait

PublisherReturns ==
  /\ Up
  /\ WaitIsOver
  /\ publisher' = "returned"
  /\ UNCHANGED <<ctxDone, waited, grpc, http, httpShut, request, age, process>>

(***************************************************************************)
(* The gRPC server.  GracefulStop closes the listener and waits for the    *)
(* RPCs that are being served; Serve returns after it.                     *)
(***************************************************************************)
GrpcListens ==
  /\ Up
  /\ grpc = "new"
  /\ grpc' = "serving"
  /\ UNCHANGED <<ctxDone, publisher, waited, http, httpShut, request, age, process>>

\* net.Listen fails: the error of the goroutine cancels the group.
GrpcFails ==
  /\ Up
  /\ grpc = "new"
  /\ grpc' = "returned"
  /\ ctxDone' = TRUE
  /\ UNCHANGED <<publisher, waited, http, httpShut, request, age, process>>

GracefulStop ==
  /\ Up
  /\ ctxDone
  /\ grpc = "serving"
  /\ grpc' = "stopping"
  /\ UNCHANGED <<ctxDone, publisher, waited, http, httpShut, request, age, process>>

RpcsAnswered == grpc = "stopping" /\ \A r \in Rpcs : request[r] # "served"

GrpcReturns ==
  /\ Up
  /\ RpcsAnswered
  /\ grpc' = "returned"
  /\ UNCHANGED <<ctxDone, publisher, waited, http, httpShut, request, age, process>>

(***************************************************************************)
(* The HTTP server.  Its goroutine spawns the one that will stop it, then  *)
(* Run assigns s.server and ListenAndServe listens.                        *)
(***************************************************************************)
SpawnStopper ==
  /\ Up
  /\ http = "new"
  /\ http' = "spawned"
  /\ UNCHANGED <<ctxDone, publisher, waited, grpc, httpShut, request, age, process>>

Run ==
  /\ Up
  /\ http = "spawned"
  /\ http' = "assigned"
  /\ UNCHANGED <<ctxDone, publisher, waited, grpc, httpShut, request, age, process>>

\* ListenAndServe of a server that was shut down returns ErrServerClosed.
ListenAndServe ==
  /\ Up
  /\ http = "assigned"
  /\ http' = IF httpShut THEN "returned" ELSE "listening"
  /\ UNCHANGED <<ctxDone, publisher, waited, grpc, httpShut, request, age, process>>

HttpFails ==
  /\ Up
  /\ http = "assigned"
  /\ ~httpShut
  /\ http' = "returned"
  /\ ctxDone' = TRUE
  /\ UNCHANGED <<publisher, waited, grpc, httpShut, request, age, process>>

\* Server.Shutdown, by the goroutine of main or by handleShutdown: it closes the
\* listener and nobody waits for the call to return.  Before Run has assigned
\* s.server it is a call on a nil pointer.
Shutdown ==
  /\ Up
  /\ ctxDone
  /\ ~httpShut
  /\ http # "new"
  /\ IF http = "spawned"
     THEN /\ process' = "panicked"
          /\ request' = [r \in Requests |-> IF request[r] = "served" THEN "cut" ELSE request[r]]
          /\ UNCHANGED httpShut
     ELSE /\ httpShut' = TRUE
          /\ UNCHANGED <<process, request>>
  /\ UNCHANGED <<ctxDone, publisher, waited, grpc, http, age>>

\* ListenAndServe returns when Shutdown begins, requests being served or not.
HttpReturns ==
  /\ Up
  /\ http = "listening"
  /\ httpShut
  /\ http' = "returned"
  /\ UNCHANGED <<ctxDone, publisher, waited, grpc, httpShut, request, age, process>>

(***************************************************************************)
(* Requests, and the end of the process: main waits for the three          *)
(* goroutines of the group, for no other, and takes down what is left.     *)
(***************************************************************************)
Accepting(r) ==
  IF r \in Rpcs THEN grpc = "serving" ELSE http = "listening" /\ ~httpShut

Accept(r) ==
  /\ Up
  /\ request[r] = "new"
  /\ Accepting(r)
  /\ request' = [request EXCEPT ![r] = "served"]
  /\ UNCHANGED <<ctxDone, publisher, waited, grpc, http, httpShut, age, process>>

Answer(r) ==
  /\ Up
  /\ request[r] = "served"
  /\ request' = [request EXCEPT ![r] = "answered"]
  /\ UNCHANGED <<ctxDone, publisher, waited, grpc, http, httpShut, age, process>>

GroupDone == publisher = "returned" /\ grpc = "returned" /\ http = "returned"

Exit ==
  /\ Up
  /\ GroupDone
  /\ process' = "exited"
  /\ request' = [r \in Requests |-> IF request[r] = "served" THEN "cut" ELSE request[r]]
  /\ UNCHANGED <<ctxDone, publisher, waited, grpc, http, httpShut, age>>

\* Somebody is still counting: the publisher, or the WriteTimeout of a request.
Waits == publisher = "waiting" /\ waited < PublisherWait

ServesOn ==
  \/ grpc = "new"
  \/ http \in {"new", "spawned", "assigned"}
  \/ http = "listening" /\ httpShut
  \/ ctxDone /\ (publisher = "running" \/ grpc = "serving" \/ ~httpShut)
  \/ WaitIsOver \/ RpcsAnswered \/ GroupDone

\* A goroutine of the process can run, or a wait is over.
Ready ==
  \/ grpc = "new"
  \/ http \in {"new", "spawned", "assigned"}
  \/ http = "listening" /\ httpShut
  \/ ctxDone /\ (publisher = "running" \/ grpc = "serving" \/ ~httpShut)
  \/ WaitIsOver \/ RpcsAnswered \/ GroupDone
  \/ \E r \in HttpRequests : request[r] = "served" /\ age[r] = MaxServe

Tick ==
  /\ Up
  /\ ~Ready
  /\ Waits \/ \E r \in HttpRequests : request[r] = "served"
  /\ waited' = IF Waits THEN waited + 1 ELSE waited
  /\ age' = [r \in HttpRequests |-> IF request[r] = "served" THEN age[r] + 1 ELSE age[r]]
  /\ UNCHANGED <<ctxDone, publisher, grpc, http, httpShut, request, process>>

Ended == ~Up /\ UNCHANGED vars

Proceed ==
  \/ StopPublisher \/ PublisherReturns
  \/ GrpcListens \/ GracefulStop \/ GrpcReturns
  \/ SpawnStopper \/ Run \/ ListenAndServe \/ Shutdown \/ HttpReturns
  \/ Exit \/ Tick

Next ==
  \/ Signal \/ GrpcFails \/ HttpFails
  \/ Proceed
  \/ \E r \in Requests : Accept(r) \/ Answer(r)
  \/ Ended

Spec == Init /\ [][Next]_vars

\* Goroutines run, time passes and handlers return; no signal and no request
\* has to come.
Fairness == WF_vars(Proceed) /\ \A r \in Requests : WF_vars(Answer(r))
FairSpec == Spec /\ Fairness

-----------------------------------------------------------------------------
(***************************************************************************)
(* Properties.                                                             *)
(***************************************************************************)

\* A request that was accepted is answered before the process ends.  Nothing
\* awaits the HTTP ones: they are saved by the wait of the publisher, which is
\* longer than any of them.  Only a signal that overtakes Run, and panics, cuts
\* requests off, and then RPCs only.
AcceptedIsAnswered ==
  \A r \in Requests : request[r] = "cut" => process = "panicked" /\ r \in Rpcs

\* When the context is done, be it by a signal or because one server could not
\* listen, the process ends: GracefulStop, the publisher's wait for itself and
\* the errgroup never wait for each other.
ProcessEnds == ctxDone ~> ~Up
=============================================================================
