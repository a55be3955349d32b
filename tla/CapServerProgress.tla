-------------------------- MODULE CapServerProgress -------------------------
(***************************************************************************)
(* Proofs that the server gets on: nobody waits in vain or is overtaken,   *)
(* and, under the fairness of FairSpec, requests are answered.  What is    *)
(* beyond the prover in them is when an action is enabled; a theorem that  *)
(* needs it has the invariant ReadyCanGoOn as its hypothesis.              *)
(***************************************************************************)
EXTENDS CapServerProofs, WellFoundedInduction

-----------------------------------------------------------------------------
(* The line. *)

(* Whoever waits, somebody is first: the caller itself or one ahead of it.  *)
LEMMA SomebodyIsFirst ==
    ASSUME TypeOK, LineIsOrdered, NEW c \in line
    PROVE  \E f \in line : ahead[f] = {} /\ f \in ahead[c] \cup {c}
<1> USE DEF TypeOK, PoolTypeOK
<1> DEFINE Front == ahead[c] \cup {c}
           Places == {Cardinality(ahead[d]) : d \in Front}
<1>1. \A d \in Front : d \in line /\ ahead[d] \subseteq ahead[c]
  BY DEF LineIsOrdered
<1>2. \A d \in Callers : IsFiniteSet(ahead[d])
  BY CallersAssumption, FS_Subset
<1>3. Places \subseteq Nat /\ Places # {}
  BY <1>1, <1>2, FS_CardinalityType
<1>4. PICK x \in Places : \A y \in Places : ~(<<y, x>> \in OpToRel(<, Nat))
  <2> HIDE DEF Places
  <2> QED
    BY ONLY <1>3, NatLessThanWellFounded, WFMin
<1>5. PICK f \in Front : x = Cardinality(ahead[f])
  OBVIOUS
<1>6. ASSUME NEW d \in ahead[f] PROVE FALSE
  <2>1. d \in Front /\ d \in line /\ f \in line
    BY <1>1
  <2>2. ahead[d] \subseteq ahead[f] /\ d \notin ahead[d]
    BY <2>1 DEF LineIsOrdered
  <2>3. /\ Cardinality(ahead[d]) \in Nat /\ Cardinality(ahead[f]) \in Nat
        /\ Cardinality(ahead[d]) < Cardinality(ahead[f])
    <3>1. /\ Cardinality(ahead[d]) <= Cardinality(ahead[f])
          /\ Cardinality(ahead[d]) = Cardinality(ahead[f]) => ahead[d] = ahead[f]
      BY <1>2, <2>1, <2>2, FS_Subset
    <3>2. Cardinality(ahead[d]) \in Nat /\ Cardinality(ahead[f]) \in Nat
      BY <1>2, <2>1, FS_CardinalityType
    <3>3. QED
      BY <2>2, <3>1, <3>2
  <2>4. Cardinality(ahead[d]) \in Places /\ x \in Places
    BY <2>1
  <2>5. QED
    BY <1>4, <1>5, <2>3, <2>4 DEF OpToRel
<1>7. QED
  BY <1>1, <1>6

(* As long as the upstream has fewer calls than the pool allows, somebody   *)
(* who waits can take a connection, for every pool and any number of calls. *)
THEOREM NobodyWaits == Spec => []NobodyWaitsInVain
<1>1. IInv => NobodyWaitsInVain
  <2> SUFFICES ASSUME IInv, NEW c \in InPhase("pooling"),
                      ~(Cardinality(InPhase("sent")) >= MaxConnections)
               PROVE  \E f \in InPhase("pooling") :
                         f \in line /\ ahead[f] = {} /\ Cardinality(held) < MaxConnections
    BY DEF NobodyWaitsInVain
  <2>1. c \in line /\ line = InPhase("pooling") /\ held = InPhase("sent")
    BY DEF IInv, LineIsOrdered, ConnectionsAccounted
  <2>2. PICK f \in line : ahead[f] = {}
    BY <2>1, SomebodyIsFirst DEF IInv
  <2>3. Cardinality(held) \in Nat
    BY CallersAssumption, FS_Subset, FS_CardinalityType DEF IInv, TypeOK, PoolTypeOK
  <2>4. QED
    BY <2>1, <2>2, <2>3, MaxConnectionsAssumption
<1>2. QED
  BY <1>1, InvariantHolds, PTL

(* Whoever does not rest is ready: the pool's books never keep a call that  *)
(* the upstream and the line do not.                                        *)
LEMMA RestingOrReady ==
    ASSUME IInv, NEW c \in Busy
    PROVE  Resting(c) \/ Ready(c)
<1>1. /\ phase[c] \in {"received", "pooling", "sent", "returning"}
      /\ line = InPhase("pooling") /\ ahead[c] \subseteq line
      /\ held = InPhase("sent")
  BY DEF IInv, TypeOK, PoolTypeOK, Phases, Busy, LineIsOrdered, ConnectionsAccounted
<1>2. Cardinality(held) \in Nat
  BY CallersAssumption, FS_Subset, FS_CardinalityType DEF IInv, TypeOK, PoolTypeOK
<1>3. QED
  BY <1>1, <1>2, MaxConnectionsAssumption DEF Resting, Ready

(* Nothing but the upstream blocks a request in progress, for any number of *)
(* callers and connections, if only no handler keeps one that is ready.     *)
THEOREM UpstreamAloneBlocks == Spec /\ []ReadyCanGoOn => []OnlyTheUpstreamBlocks
<1>1. IInv /\ ReadyCanGoOn => OnlyTheUpstreamBlocks
  BY RestingOrReady DEF ReadyCanGoOn, OnlyTheUpstreamBlocks, Busy
<1>2. QED
  BY <1>1, InvariantHolds, PTL

-----------------------------------------------------------------------------
(* Steps. *)

(* An answer of the upstream is something.                                  *)
LEMMA AnswerIsSomething ==
    ASSUME NEW e \in UpstreamEndings
    PROVE  e # NoEnding
<1>1. e \in Endings
  BY DEF Endings
<1>2. NoEnding.raised \notin {"nothing", "HTTPStatusError", "TransportError", "JSONDecodeError",
                              "TimeoutException", "RuntimeError"}
  BY DEF NoEnding, Ending
<1>3. QED
  BY <1>1, <1>2, EndingClass

(* A step that is not a request's own leaves the request where it is; at    *)
(* most the upstream answers its call.                                      *)
LEMMA StepOfOthers ==
    ASSUME TypeOK, [Next]_vars, NEW c \in Busy, ~Work(c)
    PROVE  /\ phase'[c] = phase[c] /\ request'[c] = request[c]
           /\ wire'[c] # wire[c] => phase[c] = "sent" /\ wire'[c] # NoEnding
<1> USE DEF TypeOK
<1>1. CASE \E d \in Callers : Work(d)
  <2>1. PICK d \in Callers : Work(d)
    BY <1>1
  <2>2. d # c
    BY <2>1
  <2>3. QED
    BY <2>1, <2>2 DEF Work, Reject, AnswerLocally, PlaceCall, FailToCall, SendCall, ReadAnswer,
                      DeadlineExpires, Conclude, Answer, EndCall, callVars, Busy
<1>2. CASE \E d \in Callers, e \in UpstreamEndings : UpstreamAnswers(d, e)
  <2>1. PICK d \in Callers, e \in UpstreamEndings : UpstreamAnswers(d, e)
    BY <1>2
  <2>2. e # NoEnding
    BY AnswerIsSomething
  <2>3. QED
    BY <2>1, <2>2 DEF UpstreamAnswers, Busy
<1>3. CASE \E d \in Callers, q \in Workload : Receive(d, q)
  BY <1>3 DEF Receive, Busy
<1>4. CASE (\E k \in GatewayKeys : Start(k)) \/ BeginShutdown \/ CloseClient \/ UNCHANGED vars
  BY <1>4 DEF Start, BeginShutdown, CloseClient, vars, callVars
<1>5. QED
  BY <1>1, <1>2, <1>3, <1>4 DEF Next, Environment

(* A request's own step takes it on, never back.                            *)
LEMMA OwnStep ==
    ASSUME TypeOK, NEW c \in Callers, Work(c)
    PROVE  /\ request'[c] = request[c]
           /\ phase[c] = "received" =>
                 \/ phase'[c] \in {"returning", "replied"}
                 \/ phase'[c] = "pooling" /\ Forwarded(request[c])
           /\ phase[c] = "pooling" => phase'[c] \in {"sent", "returning"}
           /\ phase[c] = "sent" => phase'[c] = "returning"
           /\ phase[c] = "returning" => phase'[c] = "replied"
  BY DEF TypeOK, Work, Reject, AnswerLocally, PlaceCall, FailToCall, SendCall, ReadAnswer,
         DeadlineExpires, Conclude, Answer, EndCall

(* While a call waits, those ahead of it only get fewer.                    *)
LEMMA StaysBehind ==
    ASSUME IInv, [Next]_vars, NEW c \in Callers, phase[c] = "pooling", phase'[c] = "pooling"
    PROVE  ahead'[c] \subseteq ahead[c]
<1> USE DEF IInv, TypeOK, PoolTypeOK
<1>1. ASSUME NEW d \in Callers, Work(d) PROVE ahead'[c] \subseteq ahead[c]
  <2>1. CASE PlaceCall(d)
    BY <2>1 DEF PlaceCall, JoinLine
  <2>2. CASE SendCall(d) \/ ReadAnswer(d) \/ DeadlineExpires(d)
    BY <2>2 DEF SendCall, TakeConnection, ReadAnswer, DeadlineExpires, EndCall, GiveUpPlace, Behind
  <2>3. CASE Reject(d) \/ AnswerLocally(d) \/ FailToCall(d) \/ Conclude(d)
    BY <2>3 DEF Reject, AnswerLocally, FailToCall, Conclude, Answer, poolVars
  <2>4. QED
    BY <1>1, <2>1, <2>2, <2>3 DEF Work
<1>2. CASE Environment \/ CloseClient \/ UNCHANGED vars
  BY <1>2 DEF Environment, Start, BeginShutdown, Receive, UpstreamAnswers, CloseClient, vars, poolVars
<1>3. QED
  BY <1>1, <1>2 DEF Next

-----------------------------------------------------------------------------
(* Requests are answered.                                                   *)

\* What the argument uses of the specification: its steps, the invariant, the
\* event loop's fairness to one request, and that it is blocked by nothing else.
Lively(c) == /\ [][Next]_vars /\ []IInv
             /\ []ReadyCanGoOn
             /\ TaskFairness(c)

(* A call that is over is reported.                                         *)
LEMMA ReturningReplies ==
    ASSUME NEW c \in Callers
    PROVE  Lively(c) => (phase[c] = "returning" ~> phase[c] = "replied")
<1> DEFINE P == phase[c] = "returning"
           Q == phase[c] = "replied"
<1>1. P /\ IInv /\ [Next]_vars => P' \/ Q'
  <2> SUFFICES ASSUME P, IInv, [Next]_vars PROVE P' \/ Q'
    OBVIOUS
  <2>1. TypeOK /\ c \in Busy
    BY DEF IInv, Busy
  <2>2. CASE Work(c)
    BY <2>1, <2>2, OwnStep
  <2>3. CASE ~Work(c)
    BY <2>1, <2>3, StepOfOthers
  <2>4. QED
    BY <2>2, <2>3
<1>2. P /\ IInv /\ <<Work(c)>>_vars => Q'
  BY OwnStep DEF IInv
<1>3. P /\ ReadyCanGoOn => ENABLED <<Work(c)>>_vars
  BY DEF ReadyCanGoOn, Ready
<1> HIDE DEF P, Q
<1>4. Lively(c) => (P ~> Q)
  BY <1>1, <1>2, <1>3, PTL DEF Lively, TaskFairness
<1>5. QED
  BY <1>4 DEF P, Q

(* Waiting at this point, with a deadline.                                  *)
Timed(c, p) == phase[c] = p /\ HasDeadline(request[c])

(* A call with a deadline that is with the upstream comes back.             *)
LEMMA TimedSentReturns ==
    ASSUME NEW c \in Callers
    PROVE  Lively(c) => (Timed(c, "sent") ~> phase[c] = "returning")
<1> DEFINE P == Timed(c, "sent")
           Q == phase[c] = "returning"
<1>1. P /\ IInv /\ [Next]_vars => P' \/ Q'
  <2> SUFFICES ASSUME P, IInv, [Next]_vars PROVE P' \/ Q'
    OBVIOUS
  <2>1. TypeOK /\ c \in Busy
    BY DEF IInv, Busy, Timed
  <2>2. CASE Work(c)
    BY <2>1, <2>2, OwnStep DEF Timed
  <2>3. CASE ~Work(c)
    BY <2>1, <2>3, StepOfOthers DEF Timed, HasDeadline
  <2>4. QED
    BY <2>2, <2>3
<1>2. P /\ IInv /\ <<Work(c)>>_vars => Q'
  BY OwnStep DEF IInv, Timed
<1>3. P /\ ReadyCanGoOn => ENABLED <<Work(c)>>_vars
  BY DEF ReadyCanGoOn, Ready, Timed
<1> HIDE DEF P, Q
<1>4. Lively(c) => (P ~> Q)
  BY <1>1, <1>2, <1>3, PTL DEF Lively, TaskFairness
<1>5. QED
  BY <1>4 DEF P, Q

(* A call with a deadline leaves the line.                                  *)
LEMMA TimedPoolingLeaves ==
    ASSUME NEW c \in Callers
    PROVE  Lively(c) => (Timed(c, "pooling") ~> (Timed(c, "sent") \/ phase[c] = "returning"))
<1> DEFINE P == Timed(c, "pooling")
           Q == Timed(c, "sent") \/ phase[c] = "returning"
<1>1. P /\ IInv /\ [Next]_vars => P' \/ Q'
  <2> SUFFICES ASSUME P, IInv, [Next]_vars PROVE P' \/ Q'
    OBVIOUS
  <2>1. TypeOK /\ c \in Busy
    BY DEF IInv, Busy, Timed
  <2>2. CASE Work(c)
    BY <2>1, <2>2, OwnStep DEF Timed, HasDeadline
  <2>3. CASE ~Work(c)
    BY <2>1, <2>3, StepOfOthers DEF Timed, HasDeadline
  <2>4. QED
    BY <2>2, <2>3
<1>2. P /\ IInv /\ <<Work(c)>>_vars => Q'
  BY OwnStep DEF IInv, Timed, HasDeadline
<1>3. P /\ ReadyCanGoOn => ENABLED <<Work(c)>>_vars
  BY DEF ReadyCanGoOn, Ready, Timed
<1> HIDE DEF P, Q
<1>4. Lively(c) => (P ~> Q)
  BY <1>1, <1>2, <1>3, PTL DEF Lively, TaskFairness
<1>5. QED
  BY <1>4 DEF P, Q

(* The dispatcher gets round to every request: it answers it, or a call is  *)
(* placed for it, or cannot be.                                             *)
LEMMA ReceivedGoesOn ==
    ASSUME NEW c \in Callers
    PROVE  Lively(c) => (phase[c] = "received"
                         ~> (phase[c] = "pooling" \/ phase[c] \in {"returning", "replied"}))
<1> DEFINE P == phase[c] = "received"
           Q == phase[c] = "pooling" \/ phase[c] \in {"returning", "replied"}
<1>1. P /\ IInv /\ [Next]_vars => P' \/ Q'
  <2> SUFFICES ASSUME P, IInv, [Next]_vars PROVE P' \/ Q'
    OBVIOUS
  <2>1. TypeOK /\ c \in Busy
    BY DEF IInv, Busy
  <2>2. CASE Work(c)
    BY <2>1, <2>2, OwnStep
  <2>3. CASE ~Work(c)
    BY <2>1, <2>3, StepOfOthers
  <2>4. QED
    BY <2>2, <2>3
<1>2. P /\ IInv /\ <<Work(c)>>_vars => Q'
  BY OwnStep DEF IInv
<1>3. P /\ ReadyCanGoOn => ENABLED <<Work(c)>>_vars
  BY DEF ReadyCanGoOn, Ready
<1> HIDE DEF P, Q
<1>4. Lively(c) => (P ~> Q)
  BY <1>1, <1>2, <1>3, PTL DEF Lively, TaskFairness
<1>5. QED
  BY <1>4 DEF P, Q

(* While a request is in progress, it stays the one that was received.      *)
LEMMA BusyBoundedStays ==
    ASSUME IInv, [Next]_vars, NEW c \in Busy, Bounded(c)
    PROVE  (c \in Busy /\ Bounded(c))' \/ phase'[c] = "replied"
<1> TypeOK /\ c \in Callers
  BY DEF IInv, Busy
<1>1. CASE Work(c)
  BY <1>1, OwnStep DEF Busy, Bounded, HasDeadline, TypeOK, Phases
<1>2. CASE ~Work(c)
  BY <1>2, StepOfOthers DEF Busy, Bounded, HasDeadline
<1>3. QED
  BY <1>1, <1>2

(* A request in progress that does not depend on the upstream is answered.  *)
LEMMA BusyBoundedReplies ==
    ASSUME NEW c \in Callers
    PROVE  Lively(c) => (c \in Busy /\ Bounded(c) ~> phase[c] = "replied")
<1> DEFINE R == c \in Busy /\ Bounded(c)
           Q == phase[c] = "replied"
           Received  == phase[c] = "received"
           Pooling   == phase[c] = "pooling"
           TPooling  == Timed(c, "pooling")
           TSent     == Timed(c, "sent")
           Returning == phase[c] = "returning"
           Left      == phase[c] \in {"returning", "replied"}
<1>1. IInv /\ R => Received \/ TPooling \/ TSent \/ Returning
  BY DEF IInv, TypeOK, Phases, Busy, Bounded, CallHistory, HistoryOf, Timed
<1>2. IInv /\ R /\ Pooling => TPooling
  BY DEF IInv, Bounded, CallHistory, HistoryOf, Timed
<1>3. IInv /\ [Next]_vars /\ R => R' \/ Q'
  BY BusyBoundedStays
<1>4. Left => Returning \/ Q
  OBVIOUS
<1>5. /\ Lively(c) => (Received ~> Pooling \/ Left)
      /\ Lively(c) => (TPooling ~> TSent \/ Returning)
      /\ Lively(c) => (TSent ~> Returning)
      /\ Lively(c) => (Returning ~> Q)
  BY ReceivedGoesOn, TimedPoolingLeaves, TimedSentReturns, ReturningReplies
<1> HIDE DEF R, Q, Received, Pooling, TPooling, TSent, Returning, Left
<1>6. Lively(c) => (R ~> Q)
  BY <1>1, <1>2, <1>3, <1>4, <1>5, PTL DEF Lively
<1>7. QED
  BY <1>6 DEF R, Q

(* What a specification with a fair event loop gives.                       *)
LEMMA FairIsLively ==
    ASSUME NEW c \in Callers
    PROVE  FairSpec /\ []ReadyCanGoOn => Lively(c)
<1>1. FairSpec => Spec /\ TaskFairness(c)
  BY DEF FairSpec
<1>2. QED
  BY <1>1, InvariantHolds, PTL DEF Lively, Spec

(* A request with a deadline, and one that needs no upstream, is answered,  *)
(* for any number of callers and connections and whatever the upstream      *)
(* does, by the event loop's fairness alone.                                *)
THEOREM BoundedRequestsAreAnswered ==
    FairSpec /\ []ReadyCanGoOn => BoundedRequestsAnswered
<1> SUFFICES ASSUME NEW c \in Callers
             PROVE  FairSpec /\ []ReadyCanGoOn
                    => (phase[c] = "received" /\ Bounded(c) ~> phase[c] = "replied")
  BY DEF BoundedRequestsAnswered
<1>1. phase[c] = "received" /\ Bounded(c) => c \in Busy /\ Bounded(c)
  BY DEF Busy
<1>2. QED
  BY <1>1, FairIsLively, BusyBoundedReplies, PTL

-----------------------------------------------------------------------------
(* Counting down. *)

(* A family that has a set of callers as soon as it has all those with one  *)
(* of them left out has every set of callers.                               *)
LEMMA CountingDown ==
    ASSUME NEW G,
           \A A \in SUBSET Callers : (\A c \in A : A \ {c} \in G) => A \in G
    PROVE  \A A \in SUBSET Callers : A \in G
<1> DEFINE Missing == {A \in SUBSET Callers : A \notin G}
<1>1. IsWellFoundedOn(StrictSubsetOrdering(Callers), SUBSET Callers)
  BY CallersAssumption, FS_StrictSubsetOrderingWellFounded, FS_FiniteSubsetsOfFinite
<1>2. CASE Missing # {}
  <2>1. PICK A \in Missing : \A B \in Missing : <<B, A>> \notin StrictSubsetOrdering(Callers)
    <3> HIDE DEF Missing
    <3>1. Missing \subseteq SUBSET Callers
      BY DEF Missing
    <3>2. QED
      BY ONLY <1>1, <1>2, <3>1, WFMin
  <2>2. ASSUME NEW c \in A PROVE A \ {c} \in G
    <3>1. <<A \ {c}, A>> \in StrictSubsetOrdering(Callers)
      BY DEF StrictSubsetOrdering
    <3>2. QED
      BY <2>1, <3>1
  <2>3. QED
    BY <2>2
<1>3. QED
  BY <1>2

\* Every function is a family; the truth values of one temporal formula for
\* each set of callers, at one behaviour, are no exception.
Family(g) == TRUE

(* The sets at which a family is true are a set.                            *)
LEMMA FamilyIsSet ==
    \A g : Family(g) => \E G : \A A \in SUBSET Callers : A \in G <=> g[A]
<1> TAKE g
<1> DEFINE G == {A \in SUBSET Callers : g[A]}
<1>1. \A A \in SUBSET Callers : A \in G <=> g[A]
  OBVIOUS
<1> HIDE DEF G
<1>2. QED
  BY <1>1

-----------------------------------------------------------------------------
(* A shutdown ends. *)

\* A drain with no request left to work on but these, none of which depends
\* on the upstream.
Draining(left) ==
    lifecycle = "draining" /\ Busy \subseteq left /\ \A c \in Busy : Bounded(c)

(* While the server drains nothing is added to what it has to do.           *)
LEMMA DrainOnlyShrinks ==
    ASSUME IInv, [Next]_vars, NEW left \in SUBSET Callers, Draining(left)
    PROVE  Draining(left)' \/ lifecycle' = "stopped"
<1> USE DEF IInv, TypeOK
<1>1. CASE lifecycle' = "stopped"
  BY <1>1
<1>2. CASE lifecycle' # "stopped"
  <2>1. lifecycle' = "draining"
    <3>1. CASE \E c \in Callers : Work(c)
      BY <3>1 DEF Draining, Work, Reject, AnswerLocally, PlaceCall, FailToCall, SendCall, ReadAnswer,
                  DeadlineExpires, Conclude, Answer, EndCall, serverVars
    <3>2. CASE Environment \/ CloseClient \/ UNCHANGED vars
      BY <1>2, <3>2 DEF Draining, Environment, Start, BeginShutdown, Receive, UpstreamAnswers,
                        CloseClient, vars, serverVars
    <3>3. QED
      BY <3>1, <3>2 DEF Next
  <2>2. ASSUME NEW c \in Busy' PROVE c \in Busy
    <3>1. CASE \E d \in Callers : Work(d)
      BY <3>1, <2>2 DEF Busy, Work, Reject, AnswerLocally, PlaceCall, FailToCall, SendCall, ReadAnswer,
                  DeadlineExpires, Conclude, Answer, EndCall
    <3>2. CASE Environment \/ CloseClient \/ UNCHANGED vars
      BY <3>2, <2>2 DEF Draining, Busy, Environment, Start, BeginShutdown, Receive,
                        UpstreamAnswers, CloseClient, vars
    <3>3. QED
      BY <3>1, <3>2 DEF Next
  <2>3. ASSUME NEW c \in Busy' PROVE Bounded(c)'
    <3>1. c \in Busy /\ Bounded(c) /\ c \in Callers
      BY <2>2, <2>3 DEF Draining, Busy
    <3>2. phase'[c] # "replied"
      BY <2>3 DEF Busy
    <3>3. QED
      BY <3>1, <3>2, BusyBoundedStays
  <2>4. QED
    BY <2>1, <2>2, <2>3 DEF Draining
<1>3. QED
  BY <1>1, <1>2

\* The drain that has at most these requests left ends.
DrainOf(left) == Draining(left) ~> lifecycle = "stopped"

(* A drain with no request left ends.                                       *)
LEMMA LastDrainEnds == FairSpec /\ []ReadyCanGoOn => DrainOf({})
<1> DEFINE P == Draining({})
           Stopped == lifecycle = "stopped"
<1>1. IInv /\ [Next]_vars /\ P => P' \/ Stopped'
  BY DrainOnlyShrinks
<1>2. P /\ <<CloseClient>>_vars => Stopped'
  BY DEF CloseClient
<1>3. P /\ ReadyCanGoOn => ENABLED <<CloseClient>>_vars
  BY DEF Draining, ReadyCanGoOn
<1>4. FairSpec => Spec /\ DrainFairness
  BY DEF FairSpec
<1> HIDE DEF P, Stopped
<1>5. FairSpec /\ []ReadyCanGoOn => (P ~> Stopped)
  BY <1>1, <1>2, <1>3, <1>4, InvariantHolds, PTL DEF Spec, DrainFairness
<1>6. QED
  BY <1>5 DEF P, Stopped, DrainOf

(* Of the requests a draining server has left, each is seen to.             *)
LEMMA DrainGoesOn ==
    ASSUME NEW left \in SUBSET Callers, NEW c \in left
    PROVE  FairSpec /\ []ReadyCanGoOn /\ DrainOf(left \ {c}) => DrainOf(left)
<1> DEFINE P == Draining(left)
           Q == Draining(left \ {c})
           R == c \in Busy /\ Bounded(c)
           Replied == phase[c] = "replied"
           Stopped == lifecycle = "stopped"
<1>1. IInv /\ [Next]_vars /\ P => P' \/ Stopped'
  BY DrainOnlyShrinks
<1>2. P /\ ~Q => R
  BY DEF Draining
<1>3. P /\ Replied => Q
  BY DEF Draining, Busy
<1>4. Lively(c) => (R ~> Replied)
  BY BusyBoundedReplies
<1>5. FairSpec /\ []ReadyCanGoOn => Lively(c)
  BY FairIsLively
<1>6. DrainOf(left \ {c}) => (Q ~> Stopped)
  BY DEF DrainOf
<1> HIDE DEF P, Q, R, Replied, Stopped
<1>7. FairSpec /\ []ReadyCanGoOn /\ DrainOf(left \ {c}) => (P ~> Stopped)
  BY <1>1, <1>2, <1>3, <1>4, <1>5, <1>6, PTL DEF Lively
<1>8. QED
  BY <1>7 DEF P, Stopped, DrainOf

(* The drains that end are a set.                                           *)
LEMMA DrainsAreSet == \E G : \A A \in SUBSET Callers : A \in G <=> DrainOf(A)
<1>1. Family([A \in SUBSET Callers |-> DrainOf(A)])
  BY DEF Family
<1>2. QED
  BY <1>1, FamilyIsSet

(* A shutdown ends, whatever the upstream does, as soon as no request in    *)
(* progress waits for it without a deadline, for any number of callers: by  *)
(* the event loop's fairness they are answered one after the other, and     *)
(* nobody comes in.                                                         *)
THEOREM ShutdownEnds == FairSpec /\ []ReadyCanGoOn => DrainEnds
<1> DEFINE Fair == FairSpec /\ []ReadyCanGoOn
<1>1. PICK G : \A A \in SUBSET Callers : A \in G <=> DrainOf(A)
  BY DrainsAreSet
<1>2. ASSUME Fair, NEW A \in SUBSET Callers, \A c \in A : A \ {c} \in G
      PROVE  A \in G
  <2>1. CASE A = {}
    BY <1>1, <1>2, <2>1, LastDrainEnds
  <2>2. ASSUME NEW c \in A PROVE A \in G
    <3>1. DrainOf(A \ {c})
      BY <1>1, <1>2, <2>2
    <3>2. DrainOf(A)
      BY <1>2, <3>1, DrainGoesOn
    <3>3. QED
      BY <1>1, <3>2
  <2>3. QED
    BY <2>1, <2>2
<1>3. Fair => DrainOf(Callers)
  BY <1>1, <1>2, CountingDown
<1>4. lifecycle = "draining" /\ (\A c \in Busy : Bounded(c)) => Draining(Callers)
  BY DEF Draining, Busy
<1>5. QED
  BY <1>3, <1>4, PTL DEF DrainOf, DrainEnds

-----------------------------------------------------------------------------
(* An upstream that answers keeps the line moving. *)

(* Nobody but a request's own task or the upstream touches its call.        *)
LEMMA SentStays ==
    ASSUME IInv, [Next]_vars, NEW c \in Callers, phase[c] = "sent"
    PROVE  /\ phase'[c] \in {"sent", "returning"}
           /\ wire[c] # NoEnding /\ phase'[c] = "sent" => wire'[c] # NoEnding
<1>1. TypeOK /\ c \in Busy
  BY DEF IInv, Busy
<1>2. CASE Work(c)
  BY <1>1, <1>2, OwnStep
<1>3. CASE ~Work(c)
  BY <1>1, <1>3, StepOfOthers
<1>4. QED
  BY <1>2, <1>3

(* What the upstream has answered comes back.                               *)
LEMMA AnsweredReturns ==
    ASSUME NEW c \in Callers
    PROVE  Lively(c) => (phase[c] = "sent" /\ wire[c] # NoEnding ~> phase[c] = "returning")
<1> DEFINE P == phase[c] = "sent" /\ wire[c] # NoEnding
           Q == phase[c] = "returning"
<1>1. P /\ IInv /\ [Next]_vars => P' \/ Q'
  BY SentStays
<1>2. P /\ IInv /\ <<Work(c)>>_vars => Q'
  BY OwnStep DEF IInv
<1>3. P /\ ReadyCanGoOn => ENABLED <<Work(c)>>_vars
  BY DEF ReadyCanGoOn, Ready
<1> HIDE DEF P, Q
<1>4. Lively(c) => (P ~> Q)
  BY <1>1, <1>2, <1>3, PTL DEF Lively, TaskFairness
<1>5. QED
  BY <1>4 DEF P, Q

\* The same with an upstream that answers this call.
Served(c) == Lively(c) /\ UpstreamFairness(c)

ComesBack(c) == phase[c] = "sent" ~> phase[c] = "returning"

(* Every call an answering upstream was sent comes back.                    *)
LEMMA SentReturns ==
    ASSUME NEW c \in Callers
    PROVE  Served(c) => ComesBack(c)
<1> DEFINE P == phase[c] = "sent" /\ wire[c] = NoEnding
           A == phase[c] = "sent" /\ wire[c] # NoEnding
           S == phase[c] = "sent"
           Q == phase[c] = "returning"
<1>1. P /\ IInv /\ [Next]_vars => P' \/ A' \/ Q'
  BY SentStays
<1>2. P /\ IInv /\ <<Answering(c)>>_vars => A'
  <2> SUFFICES ASSUME P, IInv, Answering(c) PROVE A'
    OBVIOUS
  <2>1. PICK e \in UpstreamEndings : UpstreamAnswers(c, e)
    BY DEF Answering
  <2>2. e # NoEnding
    BY AnswerIsSomething
  <2>3. QED
    BY <2>1, <2>2 DEF UpstreamAnswers, IInv, TypeOK
<1>3. P /\ ReadyCanGoOn => ENABLED <<Answering(c)>>_vars
  BY DEF ReadyCanGoOn, InPhase
<1>4. Lively(c) => (A ~> Q)
  BY AnsweredReturns
<1>5. S <=> P \/ A
  OBVIOUS
<1> HIDE DEF P, Q, A, S
<1>6. Served(c) => (S ~> Q)
  BY <1>1, <1>2, <1>3, <1>4, <1>5, PTL DEF Served, Lively, UpstreamFairness
<1>7. QED
  BY <1>6 DEF S, Q, ComesBack

\* First in line for a connection.
First(f) == phase[f] = "pooling" /\ ahead[f] = {}

(* As long as the first in line waits, it stays first, and connections are  *)
(* only given back.                                                         *)
LEMMA FirstStays ==
    ASSUME IInv, [Next]_vars, NEW f \in Callers, First(f)
    PROVE  \/ phase'[f] \in {"sent", "returning"}
           \/ First(f)' /\ held' \subseteq held
<1> USE DEF IInv, TypeOK, PoolTypeOK, First
<1>1. CASE Work(f)
  BY <1>1, OwnStep
<1>2. ASSUME NEW d \in Callers, Work(d), d # f
      PROVE  First(f)' /\ held' \subseteq held
  <2>1. CASE PlaceCall(d)
    BY <1>2, <2>1 DEF PlaceCall, JoinLine
  <2>2. CASE SendCall(d)
    <3>1. f \in line /\ d \in line /\ ahead[d] = {} /\ ahead[f] = {}
      BY <2>2 DEF SendCall, TakeConnection, LineIsOrdered, InPhase
    <3>2. FALSE
      BY <1>2, <3>1 DEF LineIsOrdered
    <3>3. QED
      BY <3>2
  <2>3. CASE ReadAnswer(d) \/ DeadlineExpires(d)
    BY <1>2, <2>3 DEF ReadAnswer, DeadlineExpires, EndCall, GiveUpPlace, Behind
  <2>4. CASE Reject(d) \/ AnswerLocally(d) \/ FailToCall(d) \/ Conclude(d)
    BY <1>2, <2>4 DEF Reject, AnswerLocally, FailToCall, Conclude, Answer, poolVars
  <2>5. QED
    BY <1>2, <2>1, <2>2, <2>3, <2>4 DEF Work
<1>3. CASE Environment \/ CloseClient \/ UNCHANGED vars
  BY <1>3 DEF Environment, Start, BeginShutdown, Receive, UpstreamAnswers, CloseClient, Busy,
              vars, poolVars
<1>4. QED
  BY <1>1, <1>2, <1>3 DEF Next

(* The pool has a free connection.                                          *)
Vacancy == Cardinality(held) < MaxConnections

(* With a free connection the first in line gets it, or gives up.           *)
LEMMA FirstTakesVacancy ==
    ASSUME NEW c \in Callers
    PROVE  Lively(c) => (First(c) /\ Vacancy ~> phase[c] # "pooling")
<1> DEFINE P == First(c) /\ Vacancy
           Q == phase[c] # "pooling"
<1>1. P /\ IInv /\ [Next]_vars => P' \/ Q'
  <2> SUFFICES ASSUME P, IInv, [Next]_vars, ~Q' PROVE P'
    OBVIOUS
  <2>1. First(c)' /\ held' \subseteq held
    BY FirstStays
  <2>2. IsFiniteSet(held)
    BY CallersAssumption, FS_Subset DEF IInv, TypeOK, PoolTypeOK
  <2>3. /\ Cardinality(held') \in Nat /\ Cardinality(held) \in Nat
        /\ Cardinality(held') <= Cardinality(held)
    BY <2>1, <2>2, FS_Subset, FS_CardinalityType
  <2>4. QED
    BY <2>1, <2>3, MaxConnectionsAssumption DEF Vacancy
<1>2. P /\ IInv /\ <<Work(c)>>_vars => Q'
  BY OwnStep DEF IInv, First
<1>3. P /\ ReadyCanGoOn => ENABLED <<Work(c)>>_vars
  BY DEF ReadyCanGoOn, Ready, First, Vacancy
<1> HIDE DEF P, Q
<1>4. Lively(c) => (P ~> Q)
  BY <1>1, <1>2, <1>3, PTL DEF Lively, TaskFairness
<1>5. QED
  BY <1>4 DEF P, Q

\* The same for everybody, from now on.
Patience == \A c \in Callers : Served(c)

LEMMA PatientIsPatience == PatientSpec /\ []ReadyCanGoOn => []Patience
<1> DEFINE Patient == PatientSpec /\ []ReadyCanGoOn
<1>1. ASSUME NEW c \in Callers PROVE Patient => []Served(c)
  <2>1. Patient => (FairSpec /\ []ReadyCanGoOn) /\ UpstreamFairness(c)
    BY DEF PatientSpec
  <2> HIDE DEF Patient
  <2>2. QED
    BY <2>1, FairIsLively, PTL DEF Served, Lively, TaskFairness, UpstreamFairness
<1>2. Patient => \A c \in Callers : []Served(c)
  BY <1>1
<1>3. (\A c \in Callers : []Served(c)) => [](\A c \in Callers : Served(c))
  OBVIOUS
<1>4. QED
  BY <1>2, <1>3 DEF Patience

NeedNotWait(c) == First(c) ~> phase[c] # "pooling"

(* Whoever is first in line gets a connection, or gives up: if the upstream *)
(* has all of them, a call it answers gives its connection back.            *)
LEMMA FirstIsServed ==
    ASSUME NEW c \in Callers
    PROVE  []Patience => NeedNotWait(c)
<1> DEFINE P == First(c)
           V == First(c) /\ Vacancy
           Q == phase[c] # "pooling"
           K(H) == First(c) /\ held \subseteq H /\ Cardinality(H) <= MaxConnections
           Lost(H, h) == K(H) /\ phase[h] = "sent"
           Full == \E H \in SUBSET Callers : \E h \in H : Lost(H, h)
<1>1. ASSUME NEW H \in SUBSET Callers, NEW h \in H
      PROVE  []Patience => (Lost(H, h) ~> (V \/ Q))
  <2> DEFINE L == Lost(H, h)
             KH == K(H)
             Sent == phase[h] = "sent"
             Back == phase[h] = "returning"
  <2>1. IInv /\ [Next]_vars /\ KH => KH' \/ Q'
    BY FirstStays
  <2>2. IInv /\ KH /\ Back => V
    <3> SUFFICES ASSUME IInv, KH, Back PROVE Vacancy
      OBVIOUS
    <3>1. held \subseteq H \ {h}
      BY DEF IInv, ConnectionsAccounted, InPhase
    <3>2. IsFiniteSet(H) /\ IsFiniteSet(H \ {h})
      BY CallersAssumption, FS_Subset
    <3>3. Cardinality(H \ {h}) = Cardinality(H) - 1 /\ Cardinality(H) \in Nat
      BY <3>2, FS_RemoveElement, FS_CardinalityType
    <3>4. Cardinality(held) \in Nat /\ Cardinality(held) <= Cardinality(H \ {h})
      BY <3>1, <3>2, FS_Subset, FS_CardinalityType
    <3>5. QED
      BY <3>3, <3>4, MaxConnectionsAssumption DEF Vacancy
  <2>3. Patience => Served(h)
    BY DEF Patience
  <2>4. Served(h) => ComesBack(h)
    BY SentReturns
  <2>5. ComesBack(h) => (Sent ~> Back)
    BY DEF ComesBack
  <2>6. L <=> KH /\ Sent
    OBVIOUS
  <2> HIDE DEF L, KH, Sent, Back, V, Q
  <2>7. []Patience => (L ~> (V \/ Q))
    BY <2>1, <2>2, <2>3, <2>4, <2>5, <2>6, PTL DEF Served, Lively
  <2>8. QED
    BY <2>7 DEF L
<1>2. IInv /\ P => V \/ Full
  <2> SUFFICES ASSUME IInv, P, ~Vacancy PROVE Full
    OBVIOUS
  <2>1. /\ held \in SUBSET Callers /\ held = InPhase("sent")
        /\ Cardinality(held) <= MaxConnections
    BY DEF IInv, TypeOK, PoolTypeOK, ConnectionsAccounted
  <2>2. held # {}
    BY FS_EmptySet, MaxConnectionsAssumption DEF Vacancy
  <2>3. PICK h \in held : phase[h] = "sent"
    BY <2>1, <2>2 DEF InPhase
  <2>4. Lost(held, h)
    BY <2>1, <2>3
  <2>5. QED
    BY <2>1, <2>3, <2>4
<1>3. []Patience /\ Full => <>(V \/ Q)
  <2> SUFFICES ASSUME []Patience, NEW H \in SUBSET Callers, NEW h \in H, Lost(H, h)
               PROVE  <>(V \/ Q)
    OBVIOUS
  <2> DEFINE L == Lost(H, h)
  <2>1. L
    OBVIOUS
  <2>2. []Patience => (L ~> (V \/ Q))
    BY <1>1
  <2> HIDE DEF L, V, Q
  <2>3. QED
    BY <2>1, <2>2, PTL
<1>4. Served(c) => (V ~> Q)
  BY FirstTakesVacancy DEF Served
<1>5. Patience => Served(c)
  BY DEF Patience
<1> HIDE DEF P, V, Q, Full
<1>6. []Patience => (P ~> Q)
  BY <1>2, <1>3, <1>4, <1>5, PTL DEF Served, Lively
<1>7. QED
  BY <1>6 DEF P, Q, NeedNotWait

\* Waiting for a connection with nobody ahead but these, or one fewer of them.
Waiting(c, A) == phase[c] = "pooling" /\ ahead[c] \subseteq A
OneFewer(c, A) == \E f \in A : Waiting(c, A \ {f})

(* Whoever waits either waits no longer at some time or has one fewer ahead. *)
LEMMA LineMovesUp ==
    ASSUME NEW c \in Callers, NEW A \in SUBSET Callers
    PROVE  []Patience => (Waiting(c, A) ~> (phase[c] # "pooling" \/ OneFewer(c, A)))
<1> DEFINE W == Waiting(c, A)
           Q == phase[c] # "pooling"
           Up == OneFewer(c, A)
           Leads(f) == W /\ First(f)
           Some == \E f \in A : Leads(f)
           Mine == First(c)
<1>1. IInv /\ [Next]_vars /\ W => W' \/ Q'
  <2> SUFFICES ASSUME IInv, [Next]_vars, W, ~Q' PROVE ahead'[c] \subseteq ahead[c]
    BY DEF Waiting
  <2>1. QED
    BY StaysBehind DEF Waiting
<1>2. ASSUME NEW f \in A PROVE []Patience => (Leads(f) ~> (Q \/ Up))
  <2> DEFINE L == Leads(f)
             Fst == First(f)
             Gone == phase[f] # "pooling"
  <2>1. []Patience => NeedNotWait(f)
    BY FirstIsServed
  <2>2. NeedNotWait(f) => (Fst ~> Gone)
    BY DEF NeedNotWait
  <2>3. IInv /\ W /\ Gone => Up
    <3> SUFFICES ASSUME IInv, W, Gone PROVE Waiting(c, A \ {f})
      BY DEF OneFewer
    <3>1. QED
      BY DEF IInv, LineIsOrdered, InPhase, Waiting
  <2>4. Patience => Served(c)
    BY DEF Patience
  <2>5. L <=> W /\ Fst
    OBVIOUS
  <2> HIDE DEF W, Q, Up, L, Fst, Gone
  <2>6. []Patience => (L ~> (Q \/ Up))
    BY <1>1, <2>1, <2>2, <2>3, <2>4, <2>5, PTL DEF Served, Lively
  <2>7. QED
    BY <2>6 DEF L
<1>3. []Patience /\ Some => <>(Q \/ Up)
  <2> SUFFICES ASSUME []Patience, NEW f \in A, Leads(f)
               PROVE  <>(Q \/ Up)
    OBVIOUS
  <2> DEFINE L == Leads(f)
  <2>1. L
    OBVIOUS
  <2>2. []Patience => (L ~> (Q \/ Up))
    BY <1>2
  <2> HIDE DEF L, Q, Up
  <2>3. QED
    BY <2>1, <2>2, PTL
<1>4. IInv /\ W => Mine \/ Some
  <2> SUFFICES ASSUME IInv, W PROVE Mine \/ Some
    OBVIOUS
  <2>1. c \in line /\ line = InPhase("pooling")
    BY DEF IInv, LineIsOrdered, InPhase, Waiting
  <2>2. PICK f \in line : ahead[f] = {} /\ f \in ahead[c] \cup {c}
    BY <2>1, SomebodyIsFirst DEF IInv
  <2>3. First(f)
    BY <2>1, <2>2 DEF First, InPhase
  <2>4. QED
    BY <2>2, <2>3 DEF Waiting
<1>5. []Patience => (Mine ~> Q)
  BY FirstIsServed DEF NeedNotWait
<1>6. Patience => Served(c)
  BY DEF Patience
<1> HIDE DEF W, Q, Up, Some, Mine
<1>7. []Patience => (W ~> (Q \/ Up))
  BY <1>3, <1>4, <1>5, <1>6, PTL DEF Served, Lively
<1>8. QED
  BY <1>7 DEF W, Q, Up

\* A wait with at most these ahead ends.
WaitEnds(c, A) == Waiting(c, A) ~> phase[c] # "pooling"

\* So does every wait with one fewer.
ShorterWaitsEnd(c, A) == \A f \in A : WaitEnds(c, A \ {f})

(* If every wait behind one caller fewer ends, so does this one.            *)
LEMMA WaitGoesOn ==
    ASSUME NEW c \in Callers, NEW A \in SUBSET Callers
    PROVE  []Patience /\ ShorterWaitsEnd(c, A) => WaitEnds(c, A)
<1> DEFINE W == Waiting(c, A)
           Q == phase[c] # "pooling"
           Up == OneFewer(c, A)
           Shorter == ShorterWaitsEnd(c, A)
<1>1. Shorter => []Shorter
  <2>1. ASSUME NEW f \in A PROVE WaitEnds(c, A \ {f}) => []WaitEnds(c, A \ {f})
    BY PTL DEF WaitEnds
  <2>2. Shorter => \A f \in A : []WaitEnds(c, A \ {f})
    BY <2>1 DEF ShorterWaitsEnd
  <2>3. (\A f \in A : []WaitEnds(c, A \ {f})) => [](\A f \in A : WaitEnds(c, A \ {f}))
    OBVIOUS
  <2>4. QED
    BY <2>2, <2>3 DEF ShorterWaitsEnd
<1>2. Shorter /\ Up => <>Q
  <2> SUFFICES ASSUME Shorter, NEW f \in A, Waiting(c, A \ {f})
               PROVE  <>Q
    BY DEF OneFewer
  <2> DEFINE V == Waiting(c, A \ {f})
  <2>1. V
    OBVIOUS
  <2>2. WaitEnds(c, A \ {f})
    BY DEF ShorterWaitsEnd
  <2>3. V ~> Q
    BY <2>2 DEF WaitEnds
  <2> HIDE DEF V, Q
  <2>4. QED
    BY <2>1, <2>3, PTL
<1>3. []Patience => (W ~> (Q \/ Up))
  BY LineMovesUp
<1> HIDE DEF W, Q, Up, Shorter
<1>4. []Patience /\ Shorter => (W ~> Q)
  BY <1>1, <1>2, <1>3, PTL
<1>5. QED
  BY <1>4 DEF W, Q, Shorter, WaitEnds

(* The waits of a caller that end are a set.                                *)
LEMMA WaitsAreSet ==
    ASSUME NEW c \in Callers
    PROVE  \E G : \A A \in SUBSET Callers : A \in G <=> WaitEnds(c, A)
<1>1. Family([A \in SUBSET Callers |-> WaitEnds(c, A)])
  BY DEF Family
<1>2. QED
  BY <1>1, FamilyIsSet

(* Every wait for a connection ends.                                        *)
LEMMA EveryWaitEnds ==
    ASSUME NEW c \in Callers
    PROVE  []Patience => WaitEnds(c, Callers)
<1>1. PICK G : \A A \in SUBSET Callers : A \in G <=> WaitEnds(c, A)
  BY WaitsAreSet
<1>2. ASSUME []Patience, NEW A \in SUBSET Callers, \A f \in A : A \ {f} \in G
      PROVE  A \in G
  <2>1. ShorterWaitsEnd(c, A)
    BY <1>1, <1>2 DEF ShorterWaitsEnd
  <2>2. WaitEnds(c, A)
    BY <1>2, <2>1, WaitGoesOn
  <2>3. QED
    BY <1>1, <2>2
<1>3. QED
  BY <1>1, <1>2, CountingDown

(* Whatever a request in progress is at, its reply comes.                   *)
LEMMA BusyIsReplied ==
    ASSUME NEW c \in Callers
    PROVE  PatientSpec /\ []ReadyCanGoOn => (c \in Busy ~> phase[c] = "replied")
<1> DEFINE Patient == PatientSpec /\ []ReadyCanGoOn
           InProgress == c \in Busy
           Received  == phase[c] = "received"
           Pooling   == phase[c] = "pooling"
           Sent      == phase[c] = "sent"
           Returning == phase[c] = "returning"
           Replied   == phase[c] = "replied"
           Left      == phase[c] \in {"returning", "replied"}
           Elsewhere == phase[c] # "pooling"
           W         == Waiting(c, Callers)
<1>1. IInv /\ Pooling => W
  BY DEF IInv, TypeOK, PoolTypeOK, Waiting
<1>2. IInv /\ [Next]_vars /\ Pooling => Pooling' \/ Sent' \/ Returning'
  <2> SUFFICES ASSUME IInv, [Next]_vars, Pooling PROVE Pooling' \/ Sent' \/ Returning'
    OBVIOUS
  <2>1. TypeOK /\ c \in Busy
    BY DEF IInv, Busy
  <2>2. CASE Work(c)
    BY <2>1, <2>2, OwnStep
  <2>3. CASE ~Work(c)
    BY <2>1, <2>3, StepOfOthers
  <2>4. QED
    BY <2>2, <2>3
<1>3. (Elsewhere <=> ~Pooling) /\ (Left <=> Returning \/ Replied)
  OBVIOUS
<1>4. []Patience => (W ~> Elsewhere)
  BY EveryWaitEnds DEF WaitEnds
<1>5. Patience => Served(c)
  BY DEF Patience
<1>6. Served(c) => Lively(c) /\ (Received ~> (Pooling \/ Left)) /\ (Sent ~> Returning)
                  /\ (Returning ~> Replied)
  BY ReceivedGoesOn, SentReturns, ReturningReplies DEF Served, ComesBack
<1>7. Patient => []Patience
  BY PatientIsPatience
<1>8. IInv /\ InProgress => Received \/ Pooling \/ Sent \/ Returning
  BY DEF IInv, TypeOK, Phases, Busy
<1> HIDE DEF Patient, InProgress, Received, Pooling, Sent, Returning, Replied, Left, Elsewhere, W
<1>9. Patient => (InProgress ~> Replied)
  BY <1>1, <1>2, <1>3, <1>4, <1>5, <1>6, <1>7, <1>8, PTL DEF Lively
<1>10. QED
  BY <1>9 DEF Patient, InProgress, Replied

(* Under an upstream that answers what it is sent, every request is         *)
(* answered, for any number of callers and connections: the line moves up,  *)
(* every connection comes back, and nothing else is waited for.             *)
THEOREM EveryRequestIsAnswered == FairSpec /\ []ReadyCanGoOn => EveryRequestAnswered
<1> SUFFICES ASSUME NEW c \in Callers
             PROVE  PatientSpec /\ []ReadyCanGoOn
                    => (phase[c] = "received" ~> phase[c] = "replied")
  BY DEF EveryRequestAnswered, PatientSpec
<1>1. phase[c] = "received" => c \in Busy
  BY DEF Busy
<1>2. QED
  BY <1>1, BusyIsReplied, PTL
=============================================================================
