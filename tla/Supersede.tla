------------------------------ MODULE Supersede ------------------------------
(***************************************************************************)
(* The latest-wins supersede protocol of crates/substrate/src/supersede.rs *)
(*                                                                         *)
(* One caller (the event-loop thread) stamps requests with generations of  *)
(* a GenerationTracker and sends them to one CoalescingWorker thread.  The *)
(* worker drains its queue to the newest request, builds it and sends the  *)
(* result back; the caller polls, drains the results to the newest one and *)
(* swaps it in only when the tracker accepts its generation.  A caller may *)
(* also produce a value itself and burn a generation so that whatever is   *)
(* in flight is superseded.                                                *)
(*                                                                         *)
(* The two threads meet only in the two channels, so a step here is one    *)
(* channel operation of one thread: the drains of both sides are loops of  *)
(* steps, and the other thread may act between any two of them.            *)
(*                                                                         *)
(* A request is the pair of its u64 generation and its serial, the number  *)
(* of generations minted so far.  The program has no serial: it is the     *)
(* unbounded count the saturating counter stands for, and the properties   *)
(* are stated over it.                                                     *)
(***************************************************************************)
EXTENDS Integers, Sequences

CONSTANTS
  U64Max,     \* the largest generation the counter holds
  MaxMints,   \* bound: how many generations the caller mints
  MayPanic    \* whether a build can panic at all

ASSUME CounterAssumption ==
  /\ U64Max \in Nat \ {0}
  /\ MaxMints \in Nat
ASSUME PanicAssumption == MayPanic \in BOOLEAN

(* The Verus proof's precondition: the counter never reaches its ceiling.  *)
BelowCeiling == MaxMints <= U64Max

VARIABLES
  latest_dispatched, \* GenerationTracker's counter
  minted,            \* serial of the newest generation
  requests,          \* the request channel
  results,           \* the result channel
  worker,            \* what the worker thread does: recv, drain, build, gone
  held,              \* the request the worker thread holds
  polling,           \* the caller is inside try_recv_result's drain
  latest,            \* the result that drain has taken so far
  shown,             \* serial of the value the caller now uses
  lost,              \* serials whose build panicked or met a dead worker
  dropped,           \* the caller has dropped the CoalescingWorker
  contained          \* whether the build closure runs under catch_unwind_or_log:
                     \* settled when the worker is spawned

caller == <<latest_dispatched, minted, polling, latest, shown, dropped, contained>>
vars == <<latest_dispatched, minted, requests, results, worker, held,
          polling, latest, shown, lost, dropped, contained>>

Serials == 0 .. MaxMints
Request == [generation : 0 .. U64Max, serial : Serials]
Result == [generation : 0 .. U64Max, serial : Serials, built : BOOLEAN]
NoRequest == [generation |-> 0, serial |-> 0]
NoResult == [generation |-> 0, serial |-> 0, built |-> FALSE]

(* Mutated form: the counter is bumped both by the caller and the tracker. *)
DoubleNext(g) == g + 2

(* u64::saturating_add(1). *)
SaturatingNext(g) == IF g < U64Max THEN g + 1 ELSE U64Max

(* Mutated forms: no generation gate; the gate off by one.                 *)
AcceptsAny(g) == g # 0
AcceptsPrevious(g) == g # 0 /\ g + 1 = latest_dispatched

Accepts(g) == g # 0 /\ g = latest_dispatched

Init ==
  /\ latest_dispatched = 0
  /\ minted = 0
  /\ requests = <<>>
  /\ results = <<>>
  /\ worker = "recv"
  /\ held = NoRequest
  /\ polling = FALSE
  /\ latest = NoResult
  /\ shown = 0
  /\ lost = {}
  /\ dropped = FALSE
  /\ contained \in BOOLEAN

-----------------------------------------------------------------------------
(* The caller.  It is one thread: it does nothing else while it polls.     *)

NextGeneration ==
  /\ minted < MaxMints
  /\ latest_dispatched' = SaturatingNext(latest_dispatched)
  /\ minted' = minted + 1

CallerIdle == ~polling /\ ~dropped

(* Mutated form: the newest request is served before older ones.           *)
DispatchLifo ==
  /\ CallerIdle
  /\ NextGeneration
  /\ requests' = <<[generation |-> latest_dispatched', serial |-> minted']>> \o requests
  /\ UNCHANGED <<results, worker, held, polling, latest, shown, lost, dropped, contained>>

(* Mint a generation and send the request.  The send fails, and the error  *)
(* is ignored, when the worker thread has died and dropped the receiver.   *)
Dispatch ==
  /\ CallerIdle
  /\ NextGeneration
  /\ IF worker = "gone"
       THEN /\ lost' = lost \cup {minted'}
            /\ UNCHANGED requests
       ELSE /\ requests' = Append(requests, [generation |-> latest_dispatched',
                                             serial |-> minted'])
            /\ UNCHANGED lost
  /\ UNCHANGED <<results, worker, held, polling, latest, shown, dropped, contained>>

(* A value produced on the caller's own thread: the generation it burns    *)
(* supersedes whatever is in flight.                                       *)
SettleInline ==
  /\ CallerIdle
  /\ NextGeneration
  /\ shown' = minted'
  /\ UNCHANGED <<requests, results, worker, held, polling, latest, lost, dropped, contained>>

(* One turn of the loop in try_recv_result.                                *)
PollTake ==
  /\ ~dropped
  /\ results # <<>>
  /\ polling' = TRUE
  /\ latest' = Head(results)
  /\ results' = Tail(results)
  /\ UNCHANGED <<latest_dispatched, minted, requests, worker, held, shown, lost, dropped, contained>>

(* The drain found the channel empty: swap the newest result in if the     *)
(* tracker accepts it and its build did not panic.                         *)
PollDecide ==
  /\ polling
  /\ results = <<>>
  /\ shown' = IF Accepts(latest.generation) /\ latest.built
                THEN latest.serial ELSE shown
  /\ polling' = FALSE
  /\ latest' = NoResult
  /\ UNCHANGED <<latest_dispatched, minted, requests, results, worker, held, lost, dropped, contained>>

(* Dropping the handle closes the request channel and the result receiver. *)
DropHandle ==
  /\ CallerIdle
  /\ dropped' = TRUE
  /\ results' = <<>>
  /\ UNCHANGED <<latest_dispatched, minted, requests, worker, held, polling, latest,
                 shown, lost, contained>>

-----------------------------------------------------------------------------
(* The worker thread.                                                      *)

TakeRequest ==
  /\ requests # <<>>
  /\ held' = Head(requests)
  /\ requests' = Tail(requests)
  /\ worker' = "drain"
  /\ UNCHANGED <<results, lost>>
  /\ UNCHANGED caller

Recv == worker = "recv" /\ TakeRequest

(* Mutated form: the drain keeps the first request of a burst.             *)
DrainKeepsFirst ==
  /\ worker = "drain"
  /\ requests # <<>>
  /\ requests' = Tail(requests)
  /\ UNCHANGED <<results, worker, held, lost>>
  /\ UNCHANGED caller

DrainNewer == worker = "drain" /\ TakeRequest

DrainDone ==
  /\ worker = "drain"
  /\ requests = <<>>
  /\ worker' = "build"
  /\ UNCHANGED <<requests, results, held, lost>>
  /\ UNCHANGED caller

(* Sending a response fails when the receiver is gone, and ends the loop.  *)
Respond(built) ==
  /\ worker = "build"
  /\ held' = NoRequest
  /\ IF dropped
       THEN /\ worker' = "gone"
            /\ requests' = <<>>
            /\ UNCHANGED results
       ELSE /\ worker' = "recv"
            /\ results' = Append(results, [generation |-> held.generation,
                                           serial |-> held.serial,
                                           built |-> built])
            /\ UNCHANGED requests
  /\ lost' = IF built THEN lost ELSE lost \cup {held.serial}
  /\ UNCHANGED caller

Build == Respond(TRUE)

(* A contained panic becomes a result that holds no value.                 *)
BuildPanicCaught == MayPanic /\ contained /\ Respond(FALSE)

(* An uncontained one unwinds out of the loop: the thread exits and the    *)
(* requests still queued go with the receiver.                             *)
BuildPanicKills ==
  /\ MayPanic
  /\ ~contained
  /\ worker = "build"
  /\ worker' = "gone"
  /\ held' = NoRequest
  /\ lost' = lost \cup {held.serial} \cup {requests[i].serial : i \in DOMAIN requests}
  /\ requests' = <<>>
  /\ UNCHANGED results
  /\ UNCHANGED caller

(* Mutated form: the loop polls a closed channel instead of ending.        *)
WorkerSpins == worker = "recv" /\ dropped /\ UNCHANGED vars

(* recv fails once the sender is gone and the queue is empty.              *)
WorkerExit ==
  /\ worker = "recv"
  /\ dropped
  /\ requests = <<>>
  /\ worker' = "gone"
  /\ UNCHANGED <<requests, results, held, lost>>
  /\ UNCHANGED caller

WorkerStep == Recv \/ DrainNewer \/ DrainDone \/ Build \/ BuildPanicCaught
              \/ BuildPanicKills \/ WorkerExit
Poll == PollTake \/ PollDecide

Next == Dispatch \/ SettleInline \/ Poll \/ DropHandle \/ WorkerStep

(* The worker is a thread of its own, and the caller polls every frame.    *)
Fairness == WF_vars(WorkerStep) /\ WF_vars(Poll)

Spec == Init /\ [][Next]_vars
FairSpec == Spec /\ Fairness

-----------------------------------------------------------------------------
(* Properties.                                                             *)

TypeOK ==
  /\ latest_dispatched \in 0 .. U64Max
  /\ minted \in Serials
  /\ requests \in Seq(Request)
  /\ results \in Seq(Result)
  /\ worker \in {"recv", "drain", "build", "gone"}
  /\ held \in Request
  /\ polling \in BOOLEAN
  /\ latest \in Result
  /\ shown \in Serials
  /\ lost \subseteq Serials
  /\ dropped \in BOOLEAN
  /\ contained \in BOOLEAN

(* Every swap, inline or of a polled result, shows the newest value ever   *)
(* asked for: a build that a later request or an inline value superseded   *)
(* never replaces what the caller uses, so the value in use never goes     *)
(* back to an older request's (the accept side of supersede.rs).           *)
SwapsOnlyTheNewest == [][shown' # shown => shown' = minted']_shown

Holds(q, s) == \E i \in DOMAIN q : q[i].serial = s
InFlight(s) ==
  \/ Holds(requests, s)
  \/ held.serial = s
  \/ Holds(results, s)
  \/ latest.serial = s

(* Draining to the latest on both sides loses only superseded work: the    *)
(* newest request is in use, still on its way, or its build was lost to a  *)
(* panic; it is never silently dropped while the handle lives.             *)
NewestIsNeverDropped ==
  dropped \/ shown = minted \/ minted \in lost \/ InFlight(minted)

(* Below the ceiling a generation is the serial it stands for, everywhere  *)
(* in the pipeline: what makes equality of generations a test of newness.  *)
Tagged(r) == r.generation = r.serial
GenerationIsSerial ==
  /\ latest_dispatched = minted
  /\ Tagged(held) /\ Tagged(latest)
  /\ \A i \in DOMAIN requests : Tagged(requests[i])
  /\ \A i \in DOMAIN results : Tagged(results[i])

(* Where the newest request can be, from the last sent to the first polled:*)
(* each stage holds it only when nothing is queued behind.  With it goes   *)
(* what a result without a value means.                                    *)
NewestAtTheTail ==
  LET mine(q) == q # <<>> /\ q[Len(q)].serial = minted
  IN  \/ dropped
      \/ shown = minted
      \/ minted \in lost
      \/ mine(requests)
      \/ requests = <<>> /\ held.serial = minted
      \/ requests = <<>> /\ worker = "recv" /\ mine(results)
      \/ /\ requests = <<>> /\ worker = "recv" /\ results = <<>>
         /\ polling /\ latest.serial = minted
ValuelessIsLost ==
  /\ \A i \in DOMAIN results : results[i].built \/ results[i].serial \in lost
  /\ polling => latest.built \/ latest.serial \in lost
WorkerHolds == worker \in {"recv", "gone"} => held = NoRequest

(* Requests and results travel in dispatch order, each older than all the  *)
(* generations still upstream of it, which is why taking the last of a     *)
(* drained batch takes the newest of it.  The stages, newest first: the    *)
(* request channel, the worker, the result channel, the caller's drain.    *)
Ascending(q) == \A i, j \in DOMAIN q : i < j => q[i].serial < q[j].serial
Ahead(s, q) == \A i \in DOMAIN q : s < q[i].serial
InDispatchOrder ==
  /\ Ascending(requests) /\ Ascending(results)
  /\ Ahead(held.serial, requests)
  /\ Ahead(latest.serial, results) /\ Ahead(latest.serial, requests)
  /\ \A i \in DOMAIN results : Ahead(results[i].serial, requests)
  /\ held.serial # 0 => /\ latest.serial < held.serial
                        /\ \A i \in DOMAIN results : results[i].serial < held.serial

(* What keeps it so: nothing is numbered past the last generation minted,  *)
(* and a working thread holds a request.                                   *)
NoneIsAhead ==
  /\ held.serial <= minted /\ latest.serial <= minted
  /\ \A i \in DOMAIN requests : requests[i].serial <= minted
  /\ \A i \in DOMAIN results : results[i].serial <= minted
WorkerHasWork == worker \in {"drain", "build"} => held.serial # 0

(* A contained panic does not end the worker thread: only dropping the     *)
(* handle does, so no later request is sent to a dead channel.             *)
PanicDoesNotKill == contained /\ worker = "gone" => dropped

(* Once the caller stops asking, the newest value comes into use unless    *)
(* its build panicked: the worker never wedges.                            *)
EventuallyFresh ==
  <>[](dropped \/ shown = minted \/ minted \in lost)

(* Dropping the handle ends the worker thread.                             *)
DropEndsWorker == dropped ~> worker = "gone"
=============================================================================
