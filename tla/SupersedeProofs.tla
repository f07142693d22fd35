--------------------------- MODULE SupersedeProofs ---------------------------
(***************************************************************************)
(* Proofs about the supersede protocol, for every bound on the generations *)
(* that stays below the counter's ceiling and for any behaviour of the     *)
(* builds.                                                                 *)
(***************************************************************************)
EXTENDS Supersede, SequenceTheorems, TLAPS

(***************************************************************************)
(* The type invariant.  It needs no assumption about the ceiling.          *)
(***************************************************************************)

(* A generation minted from a generation is one: the counter saturates     *)
(* instead of overflowing.                                                 *)
LEMMA SaturatingStaysInRange ==
  ASSUME NEW g \in 0 .. U64Max
  PROVE  SaturatingNext(g) \in 0 .. U64Max
  BY CounterAssumption DEF SaturatingNext

(* The empty request and result have the type of a request and a result.   *)
LEMMA SentinelsTyped == NoRequest \in Request /\ NoResult \in Result
  BY CounterAssumption DEF NoRequest, NoResult, Request, Result, Serials

(* A generation is minted within the types.                                *)
LEMMA MintTyped ==
  ASSUME TypeOK, NextGeneration
  PROVE  /\ minted' \in Serials
         /\ latest_dispatched' \in 0 .. U64Max
         /\ [generation |-> latest_dispatched', serial |-> minted'] \in Request
<1>1. minted' \in Serials
  BY CounterAssumption DEF NextGeneration, TypeOK, Serials
<1>2. latest_dispatched' \in 0 .. U64Max
  BY SaturatingStaysInRange DEF NextGeneration, TypeOK
<1> QED
  BY <1>1, <1>2 DEF Request

(* What the worker answers has the type of a result.                       *)
LEMMA AnswerTyped ==
  ASSUME TypeOK, NEW built \in BOOLEAN
  PROVE  /\ held.serial \in Serials
         /\ [generation |-> held.generation, serial |-> held.serial, built |-> built] \in Result
  BY DEF TypeOK, Request, Result

(* Every queued request carries a serial.                                  *)
LEMMA QueuedSerials ==
  ASSUME NEW q \in Seq(Request)
  PROVE  \A i \in DOMAIN q : q[i].serial \in Serials
<1>1. \A i \in DOMAIN q : q[i] \in Request
  OBVIOUS
<1>2. \A r \in Request : r.serial \in Serials
  BY DEF Request
<1> QED
  BY <1>1, <1>2

(* Every variable keeps its type (TypeOK) in every state of the protocol.  *)
THEOREM TypeCorrect == Spec => []TypeOK
<1>1. Init => TypeOK
  <2> SUFFICES ASSUME Init PROVE TypeOK
    OBVIOUS
  <2>1. 0 \in Serials /\ 0 \in 0 .. U64Max
    BY CounterAssumption DEF Serials
  <2>2. requests \in Seq(Request) /\ results \in Seq(Result)
    BY DEF Init
  <2>3. held \in Request /\ latest \in Result
    BY SentinelsTyped DEF Init
  <2> QED
    BY <2>1, <2>2, <2>3 DEF Init, TypeOK
<1>2. TypeOK /\ [Next]_vars => TypeOK'
  <2> SUFFICES ASSUME TypeOK, [Next]_vars
               PROVE  TypeOK'
    OBVIOUS
  <2>1. CASE Dispatch
    <3>1. minted' \in Serials /\ latest_dispatched' \in 0 .. U64Max
      BY <2>1, MintTyped DEF Dispatch
    <3>2. requests' \in Seq(Request)
      <4> DEFINE asked == [generation |-> latest_dispatched', serial |-> minted']
      <4>1. asked \in Request
        BY <2>1, MintTyped DEF Dispatch
      <4>2. requests \in Seq(Request)
        BY DEF TypeOK
      <4>3. requests' = requests \/ requests' = Append(requests, asked)
        BY <2>1 DEF Dispatch
      <4> HIDE DEF asked
      <4> QED
        BY <4>1, <4>2, <4>3
    <3>3. lost' \subseteq Serials
      BY <2>1, <3>1 DEF Dispatch, TypeOK
    <3> QED
      BY <2>1, <3>1, <3>2, <3>3 DEF Dispatch, TypeOK
  <2>2. CASE SettleInline
    BY <2>2, MintTyped DEF SettleInline, TypeOK
  <2>3. CASE PollTake
    BY <2>3 DEF PollTake, TypeOK
  <2>4. CASE PollDecide
    <3>1. latest.serial \in Serials
      BY DEF TypeOK, Result
    <3> QED
      BY <2>4, <3>1, SentinelsTyped DEF PollDecide, TypeOK
  <2>5. CASE DropHandle
    BY <2>5 DEF DropHandle, TypeOK
  <2>6. CASE Recv \/ DrainNewer
    <3>1. TakeRequest
      BY <2>6 DEF Recv, DrainNewer
    <3>2. held' \in Request /\ requests' \in Seq(Request)
      BY <3>1 DEF TakeRequest, TypeOK
    <3> QED
      BY <3>1, <3>2 DEF TakeRequest, caller, TypeOK
  <2>7. CASE DrainDone
    BY <2>7 DEF DrainDone, caller, TypeOK
  <2>8. CASE Build \/ BuildPanicCaught
    <3> PICK built \in BOOLEAN : Respond(built)
      BY <2>8 DEF Build, BuildPanicCaught
    <3>1. results' \in Seq(Result) /\ requests' \in Seq(Request)
      <4> DEFINE answer == [generation |-> held.generation, serial |-> held.serial,
                            built |-> built]
      <4>1. answer \in Result
        BY AnswerTyped
      <4>2. requests \in Seq(Request) /\ results \in Seq(Result)
        BY DEF TypeOK
      <4>3. /\ results' = results \/ results' = Append(results, answer)
            /\ requests' = requests \/ requests' = <<>>
        BY DEF Respond
      <4> HIDE DEF answer
      <4>4. Append(results, answer) \in Seq(Result)
        BY <4>1, <4>2
      <4>5. <<>> \in Seq(Request)
        OBVIOUS
      <4> QED
        BY <4>2, <4>3, <4>4, <4>5
    <3>2. lost' \subseteq Serials
      BY AnswerTyped DEF Respond, TypeOK
    <3>3. worker' \in {"recv", "gone"} /\ held' = NoRequest /\ UNCHANGED caller
      BY DEF Respond
    <3> QED
      BY <3>1, <3>2, <3>3, SentinelsTyped DEF caller, TypeOK
  <2>9. CASE BuildPanicKills
    <3>1. \A i \in DOMAIN requests : requests[i].serial \in Serials
      BY QueuedSerials DEF TypeOK
    <3>2. lost' \subseteq Serials
      BY <2>9, <3>1, AnswerTyped DEF BuildPanicKills, TypeOK
    <3> QED
      BY <2>9, <3>2, SentinelsTyped DEF BuildPanicKills, caller, TypeOK
  <2>10. CASE WorkerExit
    BY <2>10 DEF WorkerExit, caller, TypeOK
  <2>11. CASE UNCHANGED vars
    BY <2>11 DEF vars, TypeOK
  <2> QED
    BY <2>1, <2>2, <2>3, <2>4, <2>5, <2>6, <2>7, <2>8, <2>9, <2>10, <2>11
       DEF Next, Poll, WorkerStep
<1> QED
  BY <1>1, <1>2, PTL DEF Spec

(***************************************************************************)
(* The accept side: a swap shows the newest value.                         *)
(***************************************************************************)

(* Taking the head of a queue, or appending to it, keeps what holds of all *)
(* its elements.                                                           *)
LEMMA QueueSteps ==
  ASSUME NEW T, NEW q \in Seq(T), q # <<>>
  PROVE  /\ Head(q) = q[1]
         /\ 1 \in DOMAIN q
         /\ Tail(q) \in Seq(T)
         /\ \A i \in DOMAIN Tail(q) : i + 1 \in DOMAIN q /\ Tail(q)[i] = q[i + 1]
  OBVIOUS

(* Sending puts a message last and moves no other.                         *)
LEMMA QueueAppend ==
  ASSUME NEW T, NEW q \in Seq(T), NEW e \in T
  PROVE  /\ Append(q, e) # <<>>
         /\ Append(q, e)[Len(Append(q, e))] = e
         /\ \A i \in DOMAIN Append(q, e) :
              Append(q, e)[i] = e \/ (i \in DOMAIN q /\ Append(q, e)[i] = q[i])
  OBVIOUS

(* Minting below the ceiling keeps the counter equal to the serial.        *)
LEMMA MintTagged ==
  ASSUME BelowCeiling, TypeOK, latest_dispatched = minted, NextGeneration
  PROVE  latest_dispatched' = minted'
  BY CounterAssumption DEF BelowCeiling, NextGeneration, SaturatingNext, TypeOK, Serials

(* Below the ceiling every generation in the pipeline is a serial.         *)
LEMMA GenerationInductive ==
  ASSUME BelowCeiling, TypeOK, GenerationIsSerial, [Next]_vars
  PROVE  GenerationIsSerial'
<1>1. CASE Dispatch
  <2> DEFINE asked == [generation |-> latest_dispatched', serial |-> minted']
  <2>1. latest_dispatched' = minted' /\ asked \in Request
    BY <1>1, MintTagged, MintTyped DEF Dispatch, GenerationIsSerial
  <2>2. asked.generation = asked.serial
    BY <2>1
  <2>3. requests' = requests \/ requests' = Append(requests, asked)
    BY <1>1 DEF Dispatch
  <2> HIDE DEF asked
  <2>4. \A i \in DOMAIN requests' : Tagged(requests'[i])
    BY <2>1, <2>2, <2>3, QueueAppend DEF TypeOK, GenerationIsSerial, Tagged
  <2> QED
    BY <1>1, <2>1, <2>4 DEF Dispatch, GenerationIsSerial, Tagged
<1>2. CASE SettleInline
  BY <1>2, MintTagged DEF SettleInline, GenerationIsSerial, Tagged
<1>3. CASE PollTake
  BY <1>3, QueueSteps DEF PollTake, TypeOK, GenerationIsSerial, Tagged
<1>4. CASE PollDecide
  BY <1>4 DEF PollDecide, GenerationIsSerial, Tagged, NoResult
<1>5. CASE DropHandle
  BY <1>5 DEF DropHandle, GenerationIsSerial, Tagged
<1>6. CASE Recv \/ DrainNewer
  <2>1. TakeRequest
    BY <1>6 DEF Recv, DrainNewer
  <2>2. /\ requests \in Seq(Request) /\ requests # <<>>
        /\ held' = Head(requests) /\ requests' = Tail(requests)
    BY <2>1 DEF TakeRequest, TypeOK
  <2>3. Tagged(held')
    BY <2>2, QueueSteps DEF GenerationIsSerial
  <2>4. \A i \in DOMAIN requests' : Tagged(requests'[i])
    BY <2>2, QueueSteps DEF GenerationIsSerial
  <2> QED
    BY <2>1, <2>3, <2>4 DEF TakeRequest, caller, GenerationIsSerial, Tagged
<1>7. CASE DrainDone
  BY <1>7 DEF DrainDone, caller, GenerationIsSerial, Tagged
<1>8. CASE Build \/ BuildPanicCaught
  <2> PICK built \in BOOLEAN : Respond(built)
    BY <1>8 DEF Build, BuildPanicCaught
  <2> DEFINE answer == [generation |-> held.generation, serial |-> held.serial,
                        built |-> built]
  <2>1. answer \in Result /\ answer.generation = answer.serial
    BY AnswerTyped DEF GenerationIsSerial, Tagged
  <2>2. /\ results' = results \/ results' = Append(results, answer)
        /\ requests' = requests \/ requests' = <<>>
        /\ held' = NoRequest /\ UNCHANGED caller
    BY DEF Respond
  <2> HIDE DEF answer
  <2>3. \A i \in DOMAIN results' : Tagged(results'[i])
    BY <2>1, <2>2, QueueAppend DEF TypeOK, GenerationIsSerial, Tagged
  <2>4. \A i \in DOMAIN requests' : Tagged(requests'[i])
    BY <2>2 DEF GenerationIsSerial, Tagged
  <2> QED
    BY <2>2, <2>3, <2>4 DEF caller, GenerationIsSerial, Tagged, NoRequest
<1>9. CASE BuildPanicKills
  BY <1>9 DEF BuildPanicKills, caller, GenerationIsSerial, Tagged, NoRequest
<1>10. CASE WorkerExit
  BY <1>10 DEF WorkerExit, caller, GenerationIsSerial, Tagged
<1>11. CASE UNCHANGED vars
  BY <1>11 DEF vars, GenerationIsSerial, Tagged
<1> QED
  BY <1>1, <1>2, <1>3, <1>4, <1>5, <1>6, <1>7, <1>8, <1>9, <1>10, <1>11
     DEF Next, Poll, WorkerStep

(* Below the ceiling GenerationIsSerial always holds.                      *)
THEOREM GenerationsAreSerials ==
  ASSUME BelowCeiling
  PROVE  Spec => []GenerationIsSerial
<1>1. Init => GenerationIsSerial
  BY DEF Init, GenerationIsSerial, Tagged, NoRequest, NoResult
<1> QED
  BY <1>1, TypeCorrect, GenerationInductive, PTL DEF Spec

(* A step that changes the value in use makes it the newest one.           *)
LEMMA SwapStep ==
  ASSUME TypeOK, GenerationIsSerial, [Next]_vars
  PROVE  /\ shown' # shown => shown' = minted'
         /\ minted' = minted \/ minted' = minted + 1
<1>1. CASE Dispatch \/ SettleInline
  BY <1>1 DEF Dispatch, SettleInline, NextGeneration
<1>2. CASE PollDecide
  BY <1>2 DEF PollDecide, Accepts, GenerationIsSerial, Tagged
<1>3. CASE PollTake \/ DropHandle
  BY <1>3 DEF PollTake, DropHandle
<1>4. CASE WorkerStep
  BY <1>4 DEF WorkerStep, Recv, DrainNewer, TakeRequest, DrainDone, Build, BuildPanicCaught,
              Respond, BuildPanicKills, WorkerExit, caller
<1>5. CASE UNCHANGED vars
  BY <1>5 DEF vars
<1> QED
  BY <1>1, <1>2, <1>3, <1>4, <1>5 DEF Next, Poll

(* A superseded build never replaces the value in use (SwapsOnlyTheNewest),*)
(* however the two threads interleave, whether or not builds panic, as     *)
(* long as the counter stays below its ceiling.                            *)
THEOREM NewestOnly ==
  ASSUME BelowCeiling
  PROVE  Spec => SwapsOnlyTheNewest
<1>1. TypeOK /\ GenerationIsSerial /\ [Next]_vars => [shown' # shown => shown' = minted']_shown
  BY SwapStep
<1> QED
  BY <1>1, TypeCorrect, GenerationsAreSerials, PTL DEF Spec, SwapsOnlyTheNewest

(***************************************************************************)
(* The drain side: the newest request is never lost to a drain.            *)
(***************************************************************************)

(* The inductive strengthening: where the newest request can be, and that  *)
(* only a panicked build answers without a value.                          *)
DrainInv == NewestAtTheTail /\ ValuelessIsLost /\ WorkerHolds /\ shown <= minted

(* The last element after taking the head, or after appending.             *)
LEMMA LastSteps ==
  ASSUME NEW T, NEW q \in Seq(T), q # <<>>
  PROVE  \/ Tail(q) = <<>> /\ Len(q) = 1 /\ Head(q) = q[Len(q)]
         \/ Tail(q) # <<>> /\ Tail(q)[Len(Tail(q))] = q[Len(q)]
<1>1. Len(q) \in Nat \ {0} /\ Tail(q) \in Seq(T) /\ Len(Tail(q)) = Len(q) - 1
  OBVIOUS
<1> DEFINE t == Tail(q)
<1>4. t \in Seq(T) /\ Len(t) = Len(q) - 1
  BY <1>1
<1> HIDE DEF t
<1>2. CASE Len(q) = 1
  <2>1. t = <<>>
    BY <1>2, <1>4, EmptySeq
  <2> QED
    BY <1>2, <2>1 DEF t
<1>3. CASE Len(q) > 1
  <2>1. t # <<>>
    BY <1>1, <1>3, <1>4, EmptySeq
  <2>2. Len(q) - 1 \in DOMAIN Tail(q)
    BY <1>1, <1>3
  <2>3. Tail(q)[Len(q) - 1] = q[Len(q)]
    BY <1>1, <2>2, QueueSteps
  <2> QED
    BY <1>1, <2>1, <2>3 DEF t
<1> QED
  BY <1>1, <1>2, <1>3

(* ValuelessIsLost and WorkerHolds are inductive.                          *)
LEMMA ValuelessInductive ==
  ASSUME TypeOK, ValuelessIsLost, [Next]_vars
  PROVE  ValuelessIsLost'
<1>1. CASE Dispatch
  BY <1>1 DEF Dispatch, ValuelessIsLost
<1>2. CASE SettleInline \/ PollDecide \/ DropHandle
  BY <1>2 DEF SettleInline, PollDecide, DropHandle, ValuelessIsLost
<1>3. CASE PollTake
  <2>1. /\ results \in Seq(Result) /\ results # <<>>
        /\ latest' = Head(results) /\ results' = Tail(results) /\ lost' = lost
    BY <1>3 DEF PollTake, TypeOK
  <2>2. \A i \in DOMAIN results' : results'[i].built \/ results'[i].serial \in lost
    BY <2>1, QueueSteps DEF ValuelessIsLost
  <2>3. latest'.built \/ latest'.serial \in lost
    BY <2>1, QueueSteps DEF ValuelessIsLost
  <2> QED
    BY <2>1, <2>2, <2>3 DEF ValuelessIsLost
<1>4. CASE Build \/ BuildPanicCaught
  <2> PICK built \in BOOLEAN : Respond(built)
    BY <1>4 DEF Build, BuildPanicCaught
  <2> DEFINE answer == [generation |-> held.generation, serial |-> held.serial,
                        built |-> built]
  <2>1. /\ results' = results \/ results' = Append(results, answer)
        /\ lost \subseteq lost' /\ (~built => held.serial \in lost')
        /\ UNCHANGED caller
    BY DEF Respond
  <2>2. answer \in Result /\ answer.built = built /\ answer.serial = held.serial
    BY AnswerTyped
  <2> HIDE DEF answer
  <2>3. \A i \in DOMAIN results' : results'[i].built \/ results'[i].serial \in lost'
    BY <2>1, <2>2, QueueAppend DEF TypeOK, ValuelessIsLost
  <2> QED
    BY <2>1, <2>3 DEF caller, ValuelessIsLost
<1>5. CASE Recv \/ DrainNewer \/ DrainDone \/ BuildPanicKills \/ WorkerExit
  BY <1>5 DEF Recv, DrainNewer, TakeRequest, DrainDone, BuildPanicKills, WorkerExit, caller,
              ValuelessIsLost
<1>6. CASE UNCHANGED vars
  BY <1>6 DEF vars, ValuelessIsLost
<1> QED
  BY <1>1, <1>2, <1>3, <1>4, <1>5, <1>6 DEF Next, Poll, WorkerStep

(* The worker holds no request while it waits or is gone.                  *)
LEMMA HoldsInductive ==
  ASSUME WorkerHolds, [Next]_vars
  PROVE  WorkerHolds'
<1>1. CASE Dispatch \/ SettleInline \/ Poll \/ DropHandle
  BY <1>1 DEF Dispatch, SettleInline, Poll, PollTake, PollDecide, DropHandle, WorkerHolds, NoRequest
<1>2. CASE WorkerStep
  BY <1>2 DEF WorkerStep, Recv, DrainNewer, TakeRequest, DrainDone, Build, BuildPanicCaught,
              Respond, BuildPanicKills, WorkerExit, WorkerHolds, NoRequest
<1>3. CASE UNCHANGED vars
  BY <1>3 DEF vars, WorkerHolds, NoRequest
<1> QED
  BY <1>1, <1>2, <1>3 DEF Next

(* NewestAtTheTail is inductive together with the other two.               *)
LEMMA TailInductive ==
  ASSUME BelowCeiling, TypeOK, GenerationIsSerial, DrainInv, [Next]_vars
  PROVE  NewestAtTheTail'
<1> DEFINE mine(q) == q # <<>> /\ q[Len(q)].serial = minted
<1>1. CASE Dispatch
  <2> DEFINE asked == [generation |-> latest_dispatched', serial |-> minted']
  <2>1. asked \in Request
    BY <1>1, MintTyped DEF Dispatch
  <2>2. asked.serial = minted'
    OBVIOUS
  <2>3. minted' \in lost' \/ requests' = Append(requests, asked)
    BY <1>1 DEF Dispatch
  <2> HIDE DEF asked
  <2> QED
    BY <2>1, <2>2, <2>3, QueueAppend DEF TypeOK, NewestAtTheTail
<1>2. CASE SettleInline
  BY <1>2 DEF SettleInline, NewestAtTheTail
<1>3. CASE PollTake
  <2>1. /\ results \in Seq(Result) /\ results # <<>>
        /\ latest' = Head(results) /\ results' = Tail(results) /\ polling'
        /\ UNCHANGED <<minted, requests, worker, held, shown, lost, dropped>>
    BY <1>3 DEF PollTake, TypeOK
  <2>2. CASE requests = <<>> /\ worker = "recv" /\ mine(results)
    <3>1. CASE Tail(results) = <<>> /\ Head(results) = results[Len(results)]
      BY <2>1, <2>2, <3>1 DEF NewestAtTheTail
    <3>2. CASE Tail(results) # <<>> /\ Tail(results)[Len(Tail(results))] = results[Len(results)]
      BY <2>1, <2>2, <3>2 DEF NewestAtTheTail
    <3> QED
      BY <2>1, <3>1, <3>2, LastSteps
  <2> QED
    BY <2>1, <2>2 DEF DrainInv, NewestAtTheTail
<1>4. CASE PollDecide
  <2>1. CASE /\ requests = <<>> /\ worker = "recv" /\ results = <<>>
             /\ polling /\ latest.serial = minted
    <3>1. latest.built \/ minted \in lost
      BY <2>1 DEF DrainInv, ValuelessIsLost
    <3>2. minted = 0 \/ Accepts(latest.generation)
      BY <2>1 DEF Accepts, GenerationIsSerial, Tagged
    <3>3. minted = 0 => shown = minted
      BY CounterAssumption DEF DrainInv, TypeOK, Serials
    <3>4. minted = 0 => shown' = minted
      BY <1>4, <2>1, <3>3 DEF PollDecide
    <3> QED
      BY <1>4, <2>1, <3>1, <3>2, <3>4 DEF PollDecide, NewestAtTheTail
  <2>2. CASE shown = minted
    BY <1>4, <2>2, SwapStep DEF PollDecide, NewestAtTheTail
  <2> QED
    BY <1>4, <2>1, <2>2 DEF PollDecide, DrainInv, NewestAtTheTail
<1>5. CASE DropHandle
  BY <1>5 DEF DropHandle, NewestAtTheTail
<1>6. CASE Recv \/ DrainNewer
  <2>1. /\ requests \in Seq(Request) /\ requests # <<>>
        /\ held' = Head(requests) /\ requests' = Tail(requests)
        /\ UNCHANGED <<minted, shown, lost, dropped>>
    BY <1>6 DEF Recv, DrainNewer, TakeRequest, caller, TypeOK
  <2>2. CASE mine(requests)
    <3>1. CASE Tail(requests) = <<>> /\ Head(requests) = requests[Len(requests)]
      BY <2>1, <2>2, <3>1 DEF NewestAtTheTail
    <3>2. CASE Tail(requests) # <<>> /\ Tail(requests)[Len(Tail(requests))] = requests[Len(requests)]
      BY <2>1, <2>2, <3>2 DEF NewestAtTheTail
    <3> QED
      BY <2>1, <3>1, <3>2, LastSteps
  <2> QED
    BY <2>1, <2>2 DEF DrainInv, NewestAtTheTail
<1>7. CASE DrainDone
  <2>1. worker = "drain" /\ UNCHANGED <<minted, requests, held, shown, lost, dropped>>
    BY <1>7 DEF DrainDone, caller
  <2> QED
    BY <2>1 DEF DrainInv, NewestAtTheTail
<1>8. CASE Build \/ BuildPanicCaught
  <2> PICK built \in BOOLEAN : Respond(built)
    BY <1>8 DEF Build, BuildPanicCaught
  <2> DEFINE answer == [generation |-> held.generation, serial |-> held.serial,
                        built |-> built]
  <2>1. CASE dropped
    BY <2>1 DEF Respond, caller, NewestAtTheTail
  <2>2. CASE ~dropped
    <3>1. /\ results' = Append(results, answer) /\ worker' = "recv" /\ worker = "build"
          /\ UNCHANGED <<minted, requests, shown, dropped>> /\ lost \subseteq lost'
      BY <2>2 DEF Respond, caller
    <3>2. answer \in Result /\ answer.serial = held.serial
      BY AnswerTyped
    <3> HIDE DEF answer
    <3>3. results' # <<>> /\ results'[Len(results')].serial = held.serial
      BY <3>1, <3>2, QueueAppend DEF TypeOK
    <3> QED
      BY <3>1, <3>3 DEF DrainInv, NewestAtTheTail
  <2> QED
    BY <2>1, <2>2
<1>9. CASE BuildPanicKills
  <2>1. /\ held.serial \in lost' /\ lost \subseteq lost'
        /\ \A i \in DOMAIN requests : requests[i].serial \in lost'
        /\ worker = "build" /\ UNCHANGED <<minted, shown, dropped>>
    BY <1>9 DEF BuildPanicKills, caller
  <2>2. requests # <<>> => Len(requests) \in DOMAIN requests
    BY EmptySeq DEF TypeOK
  <2> QED
    BY <2>1, <2>2 DEF DrainInv, NewestAtTheTail
<1>10. CASE WorkerExit
  BY <1>10 DEF WorkerExit, caller, NewestAtTheTail
<1>11. CASE UNCHANGED vars
  BY <1>11 DEF vars, DrainInv, NewestAtTheTail
<1> QED
  BY <1>1, <1>2, <1>3, <1>4, <1>5, <1>6, <1>7, <1>8, <1>9, <1>10, <1>11
     DEF Next, Poll, WorkerStep

(* The newest request always has an element of the pipeline, or is in use. *)
LEMMA TailMeansKept ==
  ASSUME TypeOK, NewestAtTheTail
  PROVE  NewestIsNeverDropped
<1>1. \A q : q \in Seq(Request) \cup Seq(Result) /\ q # <<>> => Len(q) \in DOMAIN q
  BY EmptySeq
<1> QED
  BY <1>1 DEF TypeOK, NewestAtTheTail, NewestIsNeverDropped, InFlight, Holds

(* Draining to the latest on both sides never drops the newest request     *)
(* (NewestIsNeverDropped): the value in use is behind only because a build *)
(* is on its way, or was lost to a panic.                                  *)
THEOREM NewestKept ==
  ASSUME BelowCeiling
  PROVE  Spec => []NewestIsNeverDropped
<1>1. Init => DrainInv
  BY DEF Init, DrainInv, NewestAtTheTail, ValuelessIsLost, WorkerHolds
<1>2. TypeOK /\ GenerationIsSerial /\ DrainInv /\ [Next]_vars => DrainInv'
  <2> SUFFICES ASSUME TypeOK, GenerationIsSerial, DrainInv, [Next]_vars
               PROVE  DrainInv'
    OBVIOUS
  <2>1. shown' <= minted'
    BY SwapStep, CounterAssumption DEF DrainInv, TypeOK, Serials
  <2> QED
    BY <2>1, TailInductive, ValuelessInductive, HoldsInductive DEF DrainInv
<1>3. TypeOK /\ DrainInv => NewestIsNeverDropped
  BY TailMeansKept DEF DrainInv
<1> QED
  BY <1>1, <1>2, <1>3, TypeCorrect, GenerationsAreSerials, PTL DEF Spec

(***************************************************************************)
(* A contained panic leaves the worker thread running: only a dropped      *)
(* handle ends it (PanicDoesNotKill), whatever the ceiling.                *)
(***************************************************************************)
THEOREM ContainedWorkerSurvives == Spec => []PanicDoesNotKill
<1>1. Init => PanicDoesNotKill
  BY DEF Init, PanicDoesNotKill
<1>2. PanicDoesNotKill /\ [Next]_vars => PanicDoesNotKill'
  <2> SUFFICES ASSUME PanicDoesNotKill, [Next]_vars
               PROVE  PanicDoesNotKill'
    OBVIOUS
  <2>1. CASE Dispatch \/ SettleInline \/ PollTake \/ PollDecide
    BY <2>1 DEF Dispatch, SettleInline, PollTake, PollDecide, PanicDoesNotKill
  <2>2. CASE DropHandle
    BY <2>2 DEF DropHandle, PanicDoesNotKill
  <2>3. CASE Recv \/ DrainNewer \/ DrainDone
    BY <2>3 DEF Recv, DrainNewer, DrainDone, TakeRequest, caller, PanicDoesNotKill
  <2>4. CASE Build \/ BuildPanicCaught
    <3> PICK built \in BOOLEAN : Respond(built)
      BY <2>4 DEF Build, BuildPanicCaught
    <3> QED
      BY DEF Respond, caller, PanicDoesNotKill
  <2>5. CASE BuildPanicKills
    BY <2>5 DEF BuildPanicKills, caller, PanicDoesNotKill
  <2>6. CASE WorkerExit
    BY <2>6 DEF WorkerExit, caller, PanicDoesNotKill
  <2>7. CASE UNCHANGED vars
    BY <2>7 DEF vars, PanicDoesNotKill
  <2> QED
    BY <2>1, <2>2, <2>3, <2>4, <2>5, <2>6, <2>7 DEF Next, Poll, WorkerStep
<1> QED
  BY <1>1, <1>2, PTL DEF Spec

(***************************************************************************)
(* Dispatch order (InDispatchOrder): a channel is first in first out, and  *)
(* the serial a dispatch mints is past every one in the pipeline           *)
(* (NoneIsAhead), so each stage stays older than the stages behind it.     *)
(***************************************************************************)

(* Taking from a queue shifts it by one.                                   *)
LEMMA TakenQueue ==
  ASSUME NEW S, NEW q \in Seq(S), q # <<>>
  PROVE  /\ Head(q) = q[1] /\ 1 \in DOMAIN q
         /\ Tail(q) \in Seq(S)
         /\ \A i \in DOMAIN Tail(q) : i + 1 \in DOMAIN q /\ Tail(q)[i] = q[i + 1]
         /\ DOMAIN Tail(q) \subseteq Nat \ {0} /\ DOMAIN q \subseteq Nat \ {0}
  OBVIOUS

(* Adding to a queue leaves what it held where it was.                     *)
LEMMA GrownQueue ==
  ASSUME NEW S, NEW q \in Seq(S), NEW x \in S
  PROVE  /\ Append(q, x) \in Seq(S)
         /\ \A i \in DOMAIN Append(q, x) :
              \/ i \in DOMAIN q /\ Append(q, x)[i] = q[i]
              \/ i = Len(q) + 1 /\ Append(q, x)[i] = x
         /\ \A i \in DOMAIN q : i < Len(q) + 1 /\ i \in Nat
         /\ Len(q) + 1 \in DOMAIN Append(q, x)
  OBVIOUS

OrderInv == InDispatchOrder /\ NoneIsAhead /\ WorkerHasWork

(* The serials in the pipeline are numbers.                                *)
LEMMA SerialsAreNumbers ==
  ASSUME TypeOK
  PROVE  /\ \A i \in DOMAIN requests : requests[i].serial \in Nat
         /\ \A i \in DOMAIN results : results[i].serial \in Nat
         /\ held.serial \in Nat /\ latest.serial \in Nat /\ minted \in Nat
<1>1. Serials \subseteq Nat
  BY CounterAssumption DEF Serials
<1>2. \A r \in Request : r.serial \in Nat
  BY <1>1 DEF Request
<1>3. \A r \in Result : r.serial \in Nat
  BY <1>1 DEF Result
<1>4. /\ \A i \in DOMAIN requests : requests[i] \in Request
      /\ \A i \in DOMAIN results : results[i] \in Result
  BY DEF TypeOK
<1> QED
  BY <1>1, <1>2, <1>3, <1>4 DEF TypeOK

(* A dispatch keeps the order.                                             *)
LEMMA DispatchKeepsOrder ==
  ASSUME TypeOK, OrderInv, Dispatch
  PROVE  OrderInv'
<1>1. /\ minted' = minted + 1
      /\ UNCHANGED <<results, worker, held, latest>>
  BY DEF Dispatch, NextGeneration
<1>2. CASE UNCHANGED requests
  BY <1>1, <1>2, SerialsAreNumbers
     DEF OrderInv, InDispatchOrder, NoneIsAhead, WorkerHasWork, Ascending, Ahead
<1>3. CASE ~UNCHANGED requests
  <2> DEFINE r == [generation |-> latest_dispatched', serial |-> minted']
  <2>1. requests' = Append(requests, r)
    BY <1>3 DEF Dispatch
  <2>2. r \in Request /\ r.serial = minted + 1
    BY <1>1, MintTyped DEF Dispatch
  <2> HIDE DEF r
  <2>3. requests \in Seq(Request)
    BY DEF TypeOK
  <2>4. \A i \in DOMAIN requests' :
          \/ i \in DOMAIN requests /\ requests'[i] = requests[i]
          \/ i = Len(requests) + 1 /\ requests'[i] = r
    BY <2>1, <2>2, <2>3, GrownQueue
  <2>5. \A i \in DOMAIN requests : i < Len(requests) + 1 /\ i \in Nat
    BY <2>2, <2>3, GrownQueue
  <2>6. Len(requests) \in Nat
    BY <2>3
  <2>7. Ascending(requests')
    BY <2>2, <2>4, <2>5, <2>6, SerialsAreNumbers
       DEF OrderInv, InDispatchOrder, NoneIsAhead, Ascending
  <2>8. \A s \in Nat : s <= minted /\ Ahead(s, requests) => Ahead(s, requests')
    BY <2>2, <2>4, SerialsAreNumbers DEF Ahead
  <2>9. /\ Ahead(held.serial, requests') /\ Ahead(latest.serial, requests')
        /\ \A i \in DOMAIN results : Ahead(results[i].serial, requests')
    BY <2>8, SerialsAreNumbers DEF OrderInv, InDispatchOrder, NoneIsAhead
  <2>10. InDispatchOrder'
    BY <1>1, <2>7, <2>9 DEF OrderInv, InDispatchOrder, Ascending, Ahead
  <2>11. NoneIsAhead'
    BY <1>1, <2>2, <2>4, SerialsAreNumbers DEF OrderInv, NoneIsAhead
  <2> QED
    BY <1>1, <2>10, <2>11 DEF OrderInv, WorkerHasWork
<1> QED
  BY <1>2, <1>3

(* Taking the next request keeps the order.                                *)
LEMMA TakeRequestKeepsOrder ==
  ASSUME TypeOK, OrderInv, TakeRequest
  PROVE  OrderInv'
<1>1. /\ UNCHANGED <<results, latest, minted>> /\ worker' = "drain"
      /\ requests \in Seq(Request) /\ requests # <<>>
      /\ held' = requests[1] /\ requests' = Tail(requests)
  BY TakenQueue DEF TakeRequest, caller, TypeOK
<1>2. /\ \A i \in DOMAIN requests' : i + 1 \in DOMAIN requests /\ requests'[i] = requests[i + 1]
      /\ 1 \in DOMAIN requests
      /\ DOMAIN requests' \subseteq Nat \ {0}
  BY <1>1, TakenQueue
<1>3. Ascending(requests')
  BY <1>2, SerialsAreNumbers DEF OrderInv, InDispatchOrder, Ascending
<1>4. Ahead(held'.serial, requests')
  BY <1>1, <1>2 DEF OrderInv, InDispatchOrder, Ascending, Ahead
<1>5. \A s : Ahead(s, requests) => Ahead(s, requests')
  BY <1>2 DEF Ahead
<1>6. \A s : Ahead(s, requests) => s < held'.serial
  BY <1>1, <1>2 DEF Ahead
<1>7. InDispatchOrder'
  BY <1>1, <1>3, <1>4, <1>5, <1>6 DEF OrderInv, InDispatchOrder, Ascending, Ahead
<1>8. held'.serial # 0
  BY <1>1, <1>2, <1>6, SerialsAreNumbers DEF OrderInv, InDispatchOrder
<1> QED
  BY <1>1, <1>2, <1>7, <1>8 DEF OrderInv, NoneIsAhead, WorkerHasWork

(* Answering a request keeps the order.                                    *)
LEMMA RespondKeepsOrder ==
  ASSUME TypeOK, OrderInv, NEW built \in BOOLEAN, Respond(built)
  PROVE  OrderInv'
<1>1. /\ UNCHANGED <<latest, minted>> /\ held' = NoRequest
      /\ worker = "build" /\ worker' \in {"recv", "gone"}
      /\ held.serial # 0
  BY DEF Respond, caller, OrderInv, WorkerHasWork
<1>2. held'.serial = 0
  BY <1>1 DEF NoRequest
<1>3. CASE dropped
  BY <1>1, <1>2, <1>3, SerialsAreNumbers
     DEF Respond, OrderInv, InDispatchOrder, NoneIsAhead, WorkerHasWork, Ascending, Ahead
<1>4. CASE ~dropped
  <2> DEFINE r == [generation |-> held.generation, serial |-> held.serial, built |-> built]
  <2>1. results' = Append(results, r) /\ UNCHANGED requests
    BY <1>4 DEF Respond
  <2>2. r \in Result /\ r.serial = held.serial
    BY AnswerTyped
  <2> HIDE DEF r
  <2>3. results \in Seq(Result) /\ Len(results) \in Nat
    BY DEF TypeOK
  <2>4. /\ \A i \in DOMAIN results' :
             \/ i \in DOMAIN results /\ results'[i] = results[i]
             \/ i = Len(results) + 1 /\ results'[i] = r
        /\ \A i \in DOMAIN results : i < Len(results) + 1 /\ i \in Nat
    BY <2>1, <2>2, <2>3, GrownQueue
  <2>5. Ascending(results')
    BY <1>1, <2>2, <2>3, <2>4, SerialsAreNumbers DEF OrderInv, InDispatchOrder, Ascending
  <2>6. Ahead(latest.serial, results')
    BY <1>1, <2>2, <2>4 DEF OrderInv, InDispatchOrder, Ahead
  <2>7. \A i \in DOMAIN results' : Ahead(results'[i].serial, requests)
    BY <1>1, <2>2, <2>4 DEF OrderInv, InDispatchOrder
  <2>8. Ahead(0, requests)
    BY <1>1, SerialsAreNumbers DEF OrderInv, InDispatchOrder, Ahead
  <2>9. InDispatchOrder'
    BY <1>1, <1>2, <2>1, <2>5, <2>6, <2>7, <2>8 DEF OrderInv, InDispatchOrder, Ascending, Ahead
  <2>10. NoneIsAhead'
    BY <1>1, <1>2, <2>1, <2>2, <2>4, SerialsAreNumbers DEF OrderInv, NoneIsAhead
  <2> QED
    BY <1>1, <2>9, <2>10 DEF OrderInv, WorkerHasWork
<1> QED
  BY <1>3, <1>4

(* Polling one result keeps the order.                                     *)
LEMMA PollTakeKeepsOrder ==
  ASSUME TypeOK, OrderInv, PollTake
  PROVE  OrderInv'
<1>1. /\ UNCHANGED <<requests, held, worker, minted>>
      /\ results \in Seq(Result) /\ results # <<>>
      /\ latest' = results[1] /\ results' = Tail(results)
  BY TakenQueue DEF PollTake, TypeOK
<1>2. /\ \A i \in DOMAIN results' : i + 1 \in DOMAIN results /\ results'[i] = results[i + 1]
      /\ 1 \in DOMAIN results
      /\ DOMAIN results' \subseteq Nat \ {0}
  BY <1>1, TakenQueue
<1>3. Ascending(results')
  BY <1>2 DEF OrderInv, InDispatchOrder, Ascending
<1>4. Ahead(latest'.serial, results')
  BY <1>1, <1>2 DEF OrderInv, InDispatchOrder, Ascending, Ahead
<1>5. InDispatchOrder'
  BY <1>1, <1>2, <1>3, <1>4 DEF OrderInv, InDispatchOrder, Ascending, Ahead
<1> QED
  BY <1>1, <1>2, <1>5 DEF OrderInv, NoneIsAhead, WorkerHasWork

(* The rest forgets stages or leaves them alone.                           *)
LEMMA OthersKeepOrder ==
  ASSUME TypeOK, OrderInv,
         SettleInline \/ PollDecide \/ DropHandle \/ DrainDone \/ BuildPanicKills
           \/ WorkerExit \/ UNCHANGED vars
  PROVE  OrderInv'
<1>1. CASE SettleInline
  BY <1>1, SerialsAreNumbers
     DEF SettleInline, NextGeneration, OrderInv, InDispatchOrder, NoneIsAhead, WorkerHasWork,
         Ascending, Ahead
<1>2. CASE PollDecide
  <2>1. latest'.serial = 0 /\ results = <<>> /\ UNCHANGED <<requests, results, held, worker, minted>>
    BY <1>2 DEF PollDecide, NoResult
  <2>2. Ahead(0, requests)
    BY SerialsAreNumbers DEF OrderInv, InDispatchOrder, Ahead
  <2>3. held.serial # 0 => 0 < held.serial
    BY SerialsAreNumbers
  <2>4. InDispatchOrder'
    BY <2>1, <2>2, <2>3 DEF OrderInv, InDispatchOrder, Ascending, Ahead
  <2> QED
    BY <2>1, <2>4, SerialsAreNumbers DEF OrderInv, NoneIsAhead, WorkerHasWork
<1>3. CASE DropHandle
  BY <1>3 DEF DropHandle, OrderInv, InDispatchOrder, NoneIsAhead, WorkerHasWork, Ascending, Ahead
<1>4. CASE DrainDone
  BY <1>4 DEF DrainDone, caller, OrderInv, InDispatchOrder, NoneIsAhead, WorkerHasWork,
              Ascending, Ahead
<1>5. CASE BuildPanicKills
  BY <1>5, SerialsAreNumbers
     DEF BuildPanicKills, caller, NoRequest, OrderInv, InDispatchOrder, NoneIsAhead,
         WorkerHasWork, Ascending, Ahead
<1>6. CASE WorkerExit
  BY <1>6 DEF WorkerExit, caller, OrderInv, InDispatchOrder, NoneIsAhead, WorkerHasWork,
              Ascending, Ahead
<1>7. CASE UNCHANGED vars
  BY <1>7 DEF vars, OrderInv, InDispatchOrder, NoneIsAhead, WorkerHasWork, Ascending, Ahead
<1> QED
  BY <1>1, <1>2, <1>3, <1>4, <1>5, <1>6, <1>7

(* In every state the pipeline is in dispatch order, ceiling or not.       *)
THEOREM PipelineOrdered == Spec => []InDispatchOrder
<1>1. Init => OrderInv
  BY CounterAssumption
     DEF Init, NoRequest, NoResult, OrderInv, InDispatchOrder, NoneIsAhead, WorkerHasWork,
         Ascending, Ahead
<1>2. TypeOK /\ OrderInv /\ [Next]_vars => OrderInv'
  <2> SUFFICES ASSUME TypeOK, OrderInv, [Next]_vars PROVE OrderInv'
    OBVIOUS
  <2>1. CASE Dispatch
    BY <2>1, DispatchKeepsOrder
  <2>2. CASE Recv \/ DrainNewer
    BY <2>2, TakeRequestKeepsOrder DEF Recv, DrainNewer
  <2>3. CASE Build \/ BuildPanicCaught
    BY <2>3, RespondKeepsOrder DEF Build, BuildPanicCaught
  <2>4. CASE PollTake
    BY <2>4, PollTakeKeepsOrder
  <2> QED
    BY <2>1, <2>2, <2>3, <2>4, OthersKeepOrder DEF Next, Poll, WorkerStep
<1>3. OrderInv => InDispatchOrder
  BY DEF OrderInv
<1> QED
  BY <1>1, <1>2, <1>3, TypeCorrect, PTL DEF Spec
=============================================================================
