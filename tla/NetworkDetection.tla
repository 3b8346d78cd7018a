--------------------------- MODULE NetworkDetection ---------------------------
(***************************************************************************)
(* KRdp::NetworkDetection (src/NetworkDetection.cpp): round trip           *)
(* measurements by the session thread, bandwidth measurements bracketed    *)
(* around a frame by the frame submission thread, answers to both handled  *)
(* by the session thread.                                                  *)
(*                                                                         *)
(* Sequence numbers are 32 bits wide in the class and 16 bits on the wire. *)
(* Requests are counted: the count stands for the time a request was made. *)
(***************************************************************************)
EXTENDS Integers, Sequences, FiniteSetsExt

CONSTANTS
  WireSize,     \* stands for 2^16, the sequence numbers there are on the wire
  MaxRequests,  \* bound: round trips measured; the 32 bits are never used up
  MaxFrames     \* bound: frames sent

ASSUME NetworkAssumption ==
  /\ WireSize \in Nat \ {0} /\ {MaxRequests, MaxFrames} \subseteq Nat

VARIABLES
  sequenceNumber,
  rttRequests,  \* records [sequence, time]
  rttMeasurements, \* whether there are any, none having gone out of date yet
  sent,         \* history: requests so far
  measured,     \* history: request last answered, and the one it was taken for
  state,        \* NetworkDetection::State
  frame,        \* frame thread: idle, begin, encoded, end
  frames,       \* history: frames so far
  requests,     \* external: requests on their way to the client
  responses,    \* external: and on the way back
  bandwidth     \* external: the measurement: none, started, stopped, answered

rttVars == <<sequenceNumber, rttRequests, rttMeasurements, sent, measured, requests, responses>>
bwVars  == <<state, frame, frames, bandwidth>>
vars    == <<rttVars, bwVars>>

Init ==
  /\ sequenceNumber = 0 /\ rttRequests = {} /\ rttMeasurements = FALSE /\ sent = 0
  /\ measured = [answered |-> 0, taken |-> 0]
  /\ state = "None" /\ frame = "idle" /\ frames = 0
  /\ requests = <<>> /\ responses = <<>> /\ bandwidth = "none"

-----------------------------------------------------------------------------
(* Round trips, session thread *)

NonZeroStart == IF sequenceNumber = 0 THEN 1 ELSE sequenceNumber

\* nextSequenceNumber: the next one that none of the pending requests has.
NextSequenceNumber(pending) ==
  Min((NonZeroStart .. NonZeroStart + Cardinality(pending)) \ {r.sequence : r \in pending})

\* Mutant: the request is stored under the number the counter has now.
StoredAfter(s) == s + 1
Stored(s) == s

\* update; that the interval has passed is left open.
Update ==
  /\ sent < MaxRequests /\ sent' = sent + 1
  /\ LET s == NextSequenceNumber(rttRequests)
     IN /\ sequenceNumber' = s + 1
        /\ rttRequests' = rttRequests \cup {[sequence |-> Stored(s), time |-> sent']}
        /\ requests' = Append(requests, [wire |-> s % WireSize, time |-> sent'])
  /\ UNCHANGED <<rttMeasurements, measured, responses, bwVars>>

\* updateAverageRtt, with a round trip just measured or none: older ones go out of
\* date.  About once a second the averages of the rest are sent to the client as a
\* result, which takes a sequence number too.  (That no bandwidth is known does not
\* prevent it: lastBandwithMeasurement is unsigned and so never less than 0.)
UpdateAverageRtt(measuredNow) ==
  /\ rttMeasurements' \in IF measuredNow THEN {TRUE} ELSE {rttMeasurements, FALSE}
  /\ \/ UNCHANGED sequenceNumber
     \/ rttMeasurements' /\ sequenceNumber' = NextSequenceNumber(rttRequests') + 1

\* onRttMeasureResponse; a round trip of no time does not count.
OnRttMeasureResponse ==
  /\ responses # <<>> /\ responses' = Tail(responses)
  /\ LET a == Head(responses)
         taken == {r \in rttRequests : r.sequence = a.wire}
     IN /\ rttRequests' = rttRequests \ taken
        /\ measured' = [answered |-> a.time, taken |-> IF taken = {} THEN 0 ELSE Max({r.time : r \in taken})]
        /\ \/ UNCHANGED <<sequenceNumber, rttMeasurements>>
           \/ taken # {} /\ UpdateAverageRtt(TRUE)
  /\ UNCHANGED <<sent, requests, bwVars>>

\* The client answers a request, or does not.
ClientAnswers ==
  /\ requests # <<>> /\ requests' = Tail(requests)
  /\ responses' \in {responses, Append(responses, Head(requests))}
  /\ UNCHANGED <<sequenceNumber, rttRequests, rttMeasurements, sent, measured, bwVars>>

-----------------------------------------------------------------------------
(* Bandwidth: frame thread in sendFrame, results on the session thread *)

\* Mutant: a measurement starts with every frame.
AnyState == TRUE
MayStart == state = "None"

\* startBandwidthMeasure, up to the assignment
StartMeasure ==
  /\ frame = "idle" /\ frames < MaxFrames /\ frames' = frames + 1
  /\ IF MayStart THEN state' = "PendingStop" /\ frame' = "begin"
                 ELSE frame' = "encoded" /\ UNCHANGED state
  /\ UNCHANGED <<bandwidth, rttVars>>

SendStart ==
  /\ frame = "begin" /\ frame' = "encoded"
  /\ bandwidth' = "started"
  /\ UNCHANGED <<state, frames, rttVars>>

\* Mutant: the client is told before the state says so.
Late  == FALSE
First == TRUE

Mark == state' = "PendingResults" /\ UNCHANGED bandwidth
Tell == bandwidth' = "stopped" /\ UNCHANGED state

\* stopBandwidthMeasure: mark, then tell the client
StopMeasure ==
  /\ frame = "encoded"
  /\ IF state = "PendingStop"
       THEN frame' = "end" /\ IF First THEN Mark ELSE Tell
       ELSE frame' = "idle" /\ UNCHANGED <<state, bandwidth>>
  /\ UNCHANGED <<frames, rttVars>>

SendStop ==
  /\ frame = "end" /\ frame' = "idle"
  /\ IF First THEN Tell ELSE Mark
  /\ UNCHANGED <<frames, rttVars>>

\* The client answers a measurement that has been stopped.
ClientResults ==
  /\ bandwidth = "stopped" /\ bandwidth' = "answered"
  /\ UNCHANGED <<state, frame, frames, rttVars>>

\* onBandwidthMeasureResults; a bandwidth of nothing does not count.  Round trips
\* measured before are averaged anew, and sent with it.
OnBandwidthMeasureResults ==
  /\ bandwidth = "answered" /\ bandwidth' = "none"
  /\ state' = IF state = "PendingResults" THEN "None" ELSE state
  /\ UNCHANGED <<rttRequests, sent, measured, requests, responses, frame, frames>>
  /\ \/ UNCHANGED <<rttMeasurements, sequenceNumber>>
     \/ state = "PendingResults" /\ UpdateAverageRtt(FALSE)

-----------------------------------------------------------------------------
FrameThread == StartMeasure \/ SendStart \/ StopMeasure \/ SendStop

Next ==
  \/ Update \/ OnRttMeasureResponse \/ ClientAnswers
  \/ FrameThread \/ ClientResults \/ OnBandwidthMeasureResults

Spec == Init /\ [][Next]_vars

\* The frame thread finishes a frame it has begun; the client answers a
\* measurement, and the session thread handles the answer.
Fairness ==
  /\ WF_vars(SendStart \/ StopMeasure \/ SendStop)
  /\ WF_vars(ClientResults) /\ WF_vars(OnBandwidthMeasureResults)

FairSpec == Spec /\ Fairness

-----------------------------------------------------------------------------
TypeOK ==
  /\ sequenceNumber \in 0 .. 2 * MaxRequests + MaxFrames + 1
  /\ \A r \in rttRequests : r.sequence \in 1 .. sequenceNumber /\ r.time \in 1 .. sent
  /\ rttMeasurements \in BOOLEAN
  /\ state \in {"None", "PendingStop", "PendingResults"}
  /\ frame \in {"idle", "begin", "encoded", "end"}
  /\ bandwidth \in {"none", "started", "stopped", "answered"}

\* An answer is taken for the request it answers, so that the round trip time
\* computed from it is one: until the numbers there are on the wire are used up.
\* From then on requests are stored under numbers no answer can have.  Every
\* request, and every result sent to the client, uses one up.
MeasuresItsOwn == sequenceNumber <= WireSize => measured.taken = measured.answered

\* What the run checks of the round trips and of the types.
NetworkInv == TypeOK /\ MeasuresItsOwn

\* A measurement that was stopped gives its result, and another one can start.
MeasuresAgain == state = "PendingResults" ~> state = "None"

\* No measurement starts before the one before has been answered.
OneMeasurement == [][bandwidth' = "started" => bandwidth \in {"none", "started"}]_vars
=============================================================================
