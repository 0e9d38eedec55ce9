---------------------------- MODULE LifecycleProofs ----------------------------
(***************************************************************************)
(* Type correctness of Lifecycle, and the proof that the end of the        *)
(* process cuts no accepted request off.                                   *)
(*                                                                         *)
(* Nobody waits for the HTTP requests, so the proof compares two clocks:   *)
(* since the publisher began to wait no HTTP request was accepted, so each *)
(* one still served is at least as old as that wait (NoneYounger), and a   *)
(* wait that is over is longer than a request can be served.               *)
(***************************************************************************)
EXTENDS Lifecycle, TLAPS

Served(r) == request[r] = "served"

\* A wait that was counted began after the listener was closed.
ListenerClosed ==
  /\ publisher = "running" => waited = 0
  /\ publisher # "running" => ctxDone
  /\ publisher = "returned" => waited = PublisherWait
  /\ waited > 0 => httpShut
  /\ httpShut => http \in {"assigned", "listening", "returned"}

NoneYounger == \A r \in HttpRequests : Served(r) /\ waited > 0 => age[r] >= waited

\* Requests are served between the start of their server and its return, the
\* HTTP ones also after it.
ServedWhere ==
  /\ \A r \in HttpRequests : Served(r) => http \in {"listening", "returned"}
  /\ \A r \in Rpcs : Served(r) => grpc \in {"serving", "stopping"}

CutAtEnd == Up => \A r \in Requests : request[r] # "cut"

Inv ==
  /\ TypeOK
  /\ ListenerClosed
  /\ NoneYounger
  /\ ServedWhere
  /\ CutAtEnd
  /\ AcceptedIsAnswered

LEMMA InitInv == Init => Inv
<1> SUFFICES ASSUME Init
             PROVE  Inv
  OBVIOUS
<1>1. \A r \in Requests : request[r] = "new"
  BY DEF Init
<1>2. TypeOK
  <2>1. 0 \in 0..PublisherWait /\ 0 \in 0..MaxServe
    BY WaitsAreNat
  <2>2. age \in [HttpRequests -> 0..MaxServe]
    BY <2>1 DEF Init
  <2>3. request \in [Requests -> {"new", "served", "answered", "cut"}]
    BY DEF Init
  <2> QED
    BY <2>1, <2>2, <2>3 DEF Init, TypeOK
<1>3. ListenerClosed
  BY DEF Init, ListenerClosed
<1>4. NoneYounger /\ ServedWhere /\ CutAtEnd /\ AcceptedIsAnswered
  BY <1>1 DEF NoneYounger, ServedWhere, CutAtEnd, AcceptedIsAnswered, Served, Requests
<1> QED
  BY <1>2, <1>3, <1>4 DEF Inv

\* The goroutines of the servers move, no request does.
LEMMA ServerSteps ==
  ASSUME Inv,
         \/ Signal \/ GrpcListens \/ GrpcFails \/ GracefulStop \/ GrpcReturns
         \/ SpawnStopper \/ Run \/ ListenAndServe \/ HttpFails \/ HttpReturns
  PROVE  Inv'
<1>1. UNCHANGED <<publisher, waited, httpShut, request, age, process>> /\ Up
  BY DEF Signal, GrpcListens, GrpcFails, GracefulStop, GrpcReturns, SpawnStopper, Run,
         ListenAndServe, HttpFails, HttpReturns
<1>2. TypeOK' /\ (ctxDone => ctxDone')
  BY <1>1 DEF Inv, TypeOK, Signal, GrpcListens, GrpcFails, GracefulStop, GrpcReturns,
         SpawnStopper, Run, ListenAndServe, HttpFails, HttpReturns
<1>3. ListenerClosed'
  BY <1>1, <1>2 DEF Inv, ListenerClosed, Signal, GrpcListens, GrpcFails, GracefulStop,
         GrpcReturns, SpawnStopper, Run, ListenAndServe, HttpFails, HttpReturns
<1>4. NoneYounger' /\ CutAtEnd' /\ AcceptedIsAnswered'
  BY <1>1 DEF Inv, NoneYounger, CutAtEnd, AcceptedIsAnswered, Served, Up
<1>5. ServedWhere'
  <2>1. http \in {"listening", "returned"} => http' \in {"listening", "returned"}
    BY DEF Signal, GrpcListens, GrpcFails, GracefulStop, GrpcReturns, SpawnStopper, Run,
           ListenAndServe, HttpFails, HttpReturns
  <2>2. \/ grpc \in {"serving", "stopping"} => grpc' \in {"serving", "stopping"}
        \/ RpcsAnswered
    BY DEF Signal, GrpcListens, GrpcFails, GracefulStop, GrpcReturns, SpawnStopper, Run,
           ListenAndServe, HttpFails, HttpReturns
  <2> QED
    BY <1>1, <2>1, <2>2 DEF Inv, ServedWhere, Served, RpcsAnswered
<1> QED
  BY <1>2, <1>3, <1>4, <1>5 DEF Inv

LEMMA PublisherSteps ==
  ASSUME Inv, StopPublisher \/ PublisherReturns
  PROVE  Inv'
<1>1. UNCHANGED <<ctxDone, waited, grpc, http, httpShut, request, age, process>>
  BY DEF StopPublisher, PublisherReturns
<1>2. TypeOK'
  BY <1>1 DEF Inv, TypeOK, StopPublisher, PublisherReturns
<1>3. ListenerClosed'
  BY <1>1 DEF Inv, ListenerClosed, StopPublisher, PublisherReturns, WaitIsOver
<1>4. NoneYounger' /\ ServedWhere' /\ CutAtEnd' /\ AcceptedIsAnswered'
  BY <1>1 DEF Inv, NoneYounger, ServedWhere, CutAtEnd, AcceptedIsAnswered, Served, Up
<1> QED
  BY <1>2, <1>3, <1>4 DEF Inv

\* A panic of Shutdown cuts RPCs off only: no HTTP request was accepted yet.
LEMMA ShutdownStep ==
  ASSUME Inv, Shutdown
  PROVE  Inv'
<1>1. CASE http = "spawned"
  <2>1. /\ process' = "panicked"
        /\ request' = [r \in Requests |-> IF Served(r) THEN "cut" ELSE request[r]]
        /\ UNCHANGED <<ctxDone, publisher, waited, grpc, http, httpShut, age>>
    BY <1>1 DEF Shutdown, Served
  <2>2. TypeOK'
    BY <2>1 DEF Inv, TypeOK
  <2>3. \A r \in Requests : request'[r] = IF Served(r) THEN "cut" ELSE request[r]
    BY <2>1
  <2>4. \A r \in Requests : ~Served(r)'
    BY <2>3 DEF Served
  <2>5. \A r \in HttpRequests : request'[r] # "cut"
    BY <1>1, <2>3 DEF Inv, ServedWhere, CutAtEnd, Shutdown, Requests
  <2>6. ListenerClosed' /\ NoneYounger' /\ ServedWhere' /\ CutAtEnd'
    BY <2>1, <2>4 DEF Inv, ListenerClosed, NoneYounger, ServedWhere, CutAtEnd, Up, Requests
  <2>7. AcceptedIsAnswered'
    BY <2>1, <2>5 DEF AcceptedIsAnswered, Requests
  <2> QED
    BY <2>2, <2>6, <2>7 DEF Inv
<1>2. CASE http # "spawned"
  <2>1. /\ httpShut' = TRUE
        /\ http \in {"assigned", "listening", "returned"}
        /\ UNCHANGED <<ctxDone, publisher, waited, grpc, http, request, age, process>>
    BY <1>2 DEF Inv, TypeOK, Shutdown
  <2> QED
    BY <2>1 DEF Inv, TypeOK, ListenerClosed, NoneYounger, ServedWhere, CutAtEnd,
                AcceptedIsAnswered, Served, Up
<1> QED
  BY <1>1, <1>2

\* No HTTP request is accepted once the wait is counted.
LEMMA AcceptStep ==
  ASSUME Inv, NEW r \in Requests, Accept(r)
  PROVE  Inv'
<1>1. /\ \A q \in Requests : request'[q] = IF q = r THEN "served" ELSE request[q]
      /\ UNCHANGED <<ctxDone, publisher, waited, grpc, http, httpShut, age, process>>
      /\ Accepting(r)
  BY DEF Accept, Inv, TypeOK
<1>2. TypeOK'
  BY <1>1 DEF Inv, TypeOK, Accept
<1>3. r \notin Rpcs => http = "listening" /\ ~httpShut
  BY <1>1 DEF Accepting
<1>4. r \in Rpcs => grpc = "serving" /\ r \notin HttpRequests
  BY <1>1, RequestsApart DEF Accepting
<1>5. NoneYounger'
  BY <1>1, <1>3, <1>4 DEF Inv, NoneYounger, ListenerClosed, Served, Requests
<1>6. ServedWhere'
  BY <1>1, <1>3, <1>4, RequestsApart DEF Inv, ServedWhere, Served, Requests
<1>7. ListenerClosed' /\ CutAtEnd' /\ AcceptedIsAnswered'
  BY <1>1 DEF Inv, ListenerClosed, CutAtEnd, AcceptedIsAnswered, Up
<1> QED
  BY <1>2, <1>5, <1>6, <1>7 DEF Inv

LEMMA AnswerStep ==
  ASSUME Inv, NEW r \in Requests, Answer(r)
  PROVE  Inv'
<1>1. /\ \A q \in Requests : request'[q] = IF q = r THEN "answered" ELSE request[q]
      /\ UNCHANGED <<ctxDone, publisher, waited, grpc, http, httpShut, age, process>>
  BY DEF Answer, Inv, TypeOK
<1>2. TypeOK'
  BY <1>1 DEF Inv, TypeOK, Answer
<1>3. NoneYounger' /\ ServedWhere'
  BY <1>1 DEF Inv, NoneYounger, ServedWhere, Served, Requests
<1>4. ListenerClosed' /\ CutAtEnd' /\ AcceptedIsAnswered'
  BY <1>1 DEF Inv, ListenerClosed, CutAtEnd, AcceptedIsAnswered, Up
<1> QED
  BY <1>2, <1>3, <1>4 DEF Inv

\* When the group is done, the wait is over and no request is left.
LEMMA ExitStep ==
  ASSUME Inv, Exit
  PROVE  Inv'
<1>1. \A r \in HttpRequests : ~Served(r)
  <2>1. waited = PublisherWait /\ waited > 0
    BY WaitsAreNat, WaitOutlastsServing DEF Exit, GroupDone, Inv, ListenerClosed
  <2>2. \A r \in HttpRequests : age[r] \in Nat /\ age[r] < PublisherWait
    BY WaitsAreNat, WaitOutlastsServing DEF Inv, TypeOK
  <2> SUFFICES ASSUME NEW r \in HttpRequests, Served(r)
               PROVE  FALSE
    OBVIOUS
  <2>3. age[r] >= PublisherWait
    BY <2>1 DEF Inv, NoneYounger
  <2> QED
    BY <2>2, <2>3, WaitsAreNat
<1>2. \A r \in Rpcs : ~Served(r)
  BY DEF Exit, GroupDone, Inv, ServedWhere
<1>3. /\ \A r \in Requests : request'[r] = request[r] /\ ~Served(r)
      /\ request' \in [Requests -> {"new", "served", "answered", "cut"}]
      /\ process' = "exited"
      /\ UNCHANGED <<ctxDone, publisher, waited, grpc, http, httpShut, age>>
  BY <1>1, <1>2 DEF Exit, Served, Requests, Inv, TypeOK
<1>4. TypeOK' /\ ListenerClosed'
  BY <1>3 DEF Inv, TypeOK, ListenerClosed
<1>5. NoneYounger' /\ ServedWhere' /\ CutAtEnd'
  BY <1>3 DEF NoneYounger, ServedWhere, CutAtEnd, Served, Requests, Up
<1>6. AcceptedIsAnswered'
  BY <1>3 DEF Inv, CutAtEnd, AcceptedIsAnswered, Exit
<1> QED
  BY <1>4, <1>5, <1>6 DEF Inv

\* A tick that counts the wait finds the listener closed, and makes the
\* requests older by as much.
LEMMA TickStep ==
  ASSUME Inv, Tick
  PROVE  Inv'
<1>1. /\ waited' = IF Waits THEN waited + 1 ELSE waited
      /\ \A r \in HttpRequests : age'[r] = IF Served(r) THEN age[r] + 1 ELSE age[r]
      /\ UNCHANGED <<ctxDone, publisher, grpc, http, httpShut, request, process>>
  BY DEF Tick, Served
<1>2. waited \in Nat /\ \A r \in HttpRequests : age[r] \in Nat
  BY WaitsAreNat DEF Inv, TypeOK
<1>3. TypeOK'
  <2>1. waited' \in 0..PublisherWait
    BY <1>1, WaitsAreNat DEF Inv, TypeOK, Waits
  <2>2. \A r \in HttpRequests : Served(r) => age[r] # MaxServe
    BY DEF Tick, Ready, Served
  <2>3. \A r \in HttpRequests : age'[r] \in 0..MaxServe
    BY <1>1, <2>2, WaitsAreNat DEF Inv, TypeOK
  <2>4. age' \in [HttpRequests -> 0..MaxServe]
    BY <2>3 DEF Tick
  <2> QED
    BY <1>1, <2>1, <2>4 DEF Inv, TypeOK
<1>4. Waits => httpShut
  BY DEF Waits, Tick, Ready, Inv, ListenerClosed
<1>5. ListenerClosed'
  BY <1>1, <1>2, <1>4 DEF Inv, ListenerClosed, Waits
<1>6. NoneYounger'
  <2> SUFFICES ASSUME NEW r \in HttpRequests, Served(r), waited' > 0
               PROVE  age'[r] >= waited'
    BY <1>1 DEF NoneYounger, Served
  <2>1. waited > 0 => age[r] >= waited
    BY DEF Inv, NoneYounger
  <2> QED
    BY <1>1, <1>2, <2>1
<1>7. ServedWhere' /\ CutAtEnd' /\ AcceptedIsAnswered'
  BY <1>1 DEF Inv, ServedWhere, CutAtEnd, AcceptedIsAnswered, Served, Up
<1> QED
  BY <1>3, <1>5, <1>6, <1>7 DEF Inv

LEMMA StepInv == Inv /\ [Next]_vars => Inv'
<1> SUFFICES ASSUME Inv, [Next]_vars
             PROVE  Inv'
  OBVIOUS
<1>1. CASE UNCHANGED vars
  BY <1>1 DEF vars, Inv, TypeOK, ListenerClosed, NoneYounger, ServedWhere, CutAtEnd,
              AcceptedIsAnswered, Served, Up
<1>2. CASE Signal \/ GrpcFails \/ HttpFails
  BY <1>2, ServerSteps
<1>3. CASE Proceed
  BY <1>3, ServerSteps, PublisherSteps, ShutdownStep, ExitStep, TickStep DEF Proceed
<1>4. CASE \E r \in Requests : Accept(r) \/ Answer(r)
  BY <1>4, AcceptStep, AnswerStep
<1>5. CASE Ended
  BY <1>1, <1>5 DEF Ended
<1> QED
  BY <1>1, <1>2, <1>3, <1>4, <1>5 DEF Next

LEMMA InvHolds == Spec => []Inv
BY InitInv, StepInv, PTL DEF Spec

\* The variables keep their types: no wait and no request is counted past its
\* limit, whatever fails and whenever the signal comes.
THEOREM LifecycleTypes == Spec => []TypeOK
<1>1. Inv => TypeOK
  BY DEF Inv
<1> QED
  BY <1>1, InvHolds, PTL

\* Whenever the signal comes or a server fails, the process takes down no
\* request it has accepted, but for the RPCs that a panic of Shutdown cuts off.
THEOREM NoneCutOff == Spec => []AcceptedIsAnswered
<1>1. Inv => AcceptedIsAnswered
  BY DEF Inv
<1> QED
  BY <1>1, InvHolds, PTL
=============================================================================
