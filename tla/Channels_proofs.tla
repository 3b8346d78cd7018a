---------------------------- MODULE Channels_proofs ----------------------------
(***************************************************************************)
(* Proofs about the two channels of a session no other component follows:  *)
(* NetworkDetection first, then AudioStream, whose names differ from its.  *)
(*                                                                         *)
(* NetworkDetection, for any number of requests and frames and any width   *)
(* of the numbers on the wire.  The sequence number handed out             *)
(* is always the counter itself, since every pending request has a smaller *)
(* one (RttInv).  That an answer is taken for its own request needs that,  *)
(* until the numbers on the wire are used up, every message under way has  *)
(* its record and no two have the same number (WireInv).                   *)
(***************************************************************************)
EXTENDS NetworkDetection, AudioStream, FiniteSetTheorems, SequenceTheorems, TLAPS

Messages == [wire : Nat, time : Nat]

Records == [sequence : Nat \ {0}, time : Nat \ {0}]

\* How many numbers may be used up or still be by the requests so far: two for each
\* request, one for each frame unless its measurement has no result yet.
Results == frames - (IF state = "None" THEN 0 ELSE 1)
Allowed == 2 * sent + 1 + Results

RttInv ==
  /\ sequenceNumber \in Nat /\ sent \in 0 .. MaxRequests
  /\ frames \in 0 .. MaxFrames /\ (state # "None" => frames > 0)
  \* there is a round trip only of a request, which had a number
  /\ rttMeasurements \in BOOLEAN /\ (rttMeasurements => sequenceNumber > 0)
  /\ rttRequests \subseteq Records /\ IsFiniteSet(rttRequests)
  /\ \A r \in rttRequests : r.sequence < sequenceNumber /\ r.time <= sent
  \* a request costs a number, an answer that is taken may cost another
  /\ sequenceNumber + Cardinality(rttRequests) <= Allowed
  /\ requests \in Seq(Messages) /\ responses \in Seq(Messages)

\* The record a message under way, or its answer, belongs to.
Known(m, R) == \E r \in R : r.sequence = m.wire /\ r.time = m.time

Increasing(q) == \A i, j \in DOMAIN q : i < j => q[i].wire < q[j].wire

WireInv ==
  sequenceNumber <= WireSize =>
    /\ \A q, r \in rttRequests : q.sequence = r.sequence => q = r
    /\ \A i \in DOMAIN requests : Known(requests[i], rttRequests)
    /\ \A i \in DOMAIN responses : Known(responses[i], rttRequests)
    /\ Increasing(requests) /\ Increasing(responses)
    /\ \A i \in DOMAIN responses, j \in DOMAIN requests :
         responses[i].wire < requests[j].wire

\* What the client knows of a measurement in each state, and where the frame thread is.
BandwidthInv ==
  /\ state \in {"None", "PendingStop", "PendingResults"}
  /\ state = "None" => frame \in {"idle", "encoded"} /\ bandwidth = "none"
  /\ state = "PendingStop" =>
       \/ frame = "begin" /\ bandwidth = "none"
       \/ frame = "encoded" /\ bandwidth = "started"
  /\ state = "PendingResults" =>
       \/ frame = "end" /\ bandwidth = "started"
       \/ frame \in {"idle", "encoded"} /\ bandwidth \in {"stopped", "answered"}

IInv == RttInv /\ WireInv /\ MeasuresItsOwn /\ BandwidthInv

-----------------------------------------------------------------------------
\* The least number of an interval that none of a set of smaller ones takes is the
\* one it begins with.
LEMMA LeastFree ==
  ASSUME NEW n \in Nat, NEW c \in Nat, NEW S, \A x \in S : x < n
  PROVE  Min((n .. n + c) \ S) = n
<1> DEFINE F == (n .. n + c) \ S
<1>1. n \in F /\ \A y \in F : y \in Nat /\ n <= y
  OBVIOUS
<1> HIDE DEF F
<1>2. ASSUME NEW x \in F, \A y \in F : x <= y PROVE x = n
  BY <1>1, <1>2
<1>3. Min(F) = n
  BY <1>1, <1>2 DEF Min
<1> QED
  BY <1>3 DEF F

LEMMA SmallRemainder == ASSUME NEW s \in Nat, NEW w \in Nat, s < w PROVE s % w = s
  OBVIOUS

LEMMA MaxSingle == ASSUME NEW x \in Nat PROVE Max({x}) = x
<1>1. x >= x
  OBVIOUS
<1> QED
  BY <1>1 DEF Max

\* The type of the numbers that count.
LEMMA Counts ==
  ASSUME RttInv
  PROVE  /\ Cardinality(rttRequests) \in Nat /\ sent \in Nat /\ frames \in Nat
         /\ Results \in Nat /\ Allowed \in Nat
<1>1. sent \in Nat /\ frames \in Nat /\ (state # "None" => frames > 0)
  BY NetworkAssumption DEF RttInv
<1>2. Results \in Nat
  BY <1>1 DEF Results
<1> QED
  BY <1>1, <1>2, FS_CardinalityType DEF RttInv, Allowed

\* The number a request or a result gets, whichever requests are still pending.
LEMMA NextNumber ==
  ASSUME RttInv
  PROVE  /\ \A P \in SUBSET rttRequests : NextSequenceNumber(P) = NonZeroStart
         /\ NonZeroStart \in Nat \ {0} /\ NonZeroStart >= sequenceNumber
         /\ NonZeroStart + Cardinality(rttRequests) <= Allowed
         /\ \A r \in rttRequests : r.sequence < NonZeroStart
<1>1. /\ NonZeroStart \in Nat \ {0} /\ NonZeroStart >= sequenceNumber
      /\ \A r \in rttRequests : r.sequence < NonZeroStart /\ r.sequence \in Nat
  BY DEF RttInv, NonZeroStart, Records
<1>2. ASSUME NEW P \in SUBSET rttRequests PROVE NextSequenceNumber(P) = NonZeroStart
  <2>1. Cardinality(P) \in Nat
    BY FS_Subset, FS_CardinalityType DEF RttInv
  <2>2. \A x \in {r.sequence : r \in P} : x < NonZeroStart
    BY <1>1
  <2> QED
    BY <1>1, <2>1, <2>2, LeastFree DEF NextSequenceNumber
<1>3. NonZeroStart + Cardinality(rttRequests) <= Allowed
  <2>1. CASE sequenceNumber = 0
    <3>1. rttRequests = {}
      BY <2>1 DEF RttInv, Records
    <3>2. Allowed >= 1
      BY Counts DEF Allowed
    <3>3. Cardinality(rttRequests) = 0
      BY <3>1, FS_EmptySet
    <3> QED
      BY <2>1, <3>2, <3>3, Counts DEF NonZeroStart
  <2>2. CASE sequenceNumber # 0
    BY <2>2 DEF RttInv, NonZeroStart
  <2> QED
    BY <2>1, <2>2
<1> QED
  BY <1>1, <1>2, <1>3

\* What averaging does once a round trip has been measured or none: a number that is
\* taken comes after those handed out, and only when there was a request.
LEMMA AverageShape ==
  ASSUME RttInv, NEW m \in BOOLEAN, m => sequenceNumber > 0, rttRequests' \subseteq rttRequests,
         UpdateAverageRtt(m)
  PROVE  /\ sequenceNumber' \in {sequenceNumber, sequenceNumber + 1}
         /\ rttMeasurements' \in BOOLEAN /\ (rttMeasurements' => sequenceNumber' > 0)
<1>1. rttMeasurements' \in BOOLEAN /\ (rttMeasurements' => sequenceNumber > 0)
  BY DEF UpdateAverageRtt, RttInv
<1>2. NextSequenceNumber(rttRequests') = NonZeroStart /\ sequenceNumber \in Nat
  BY NextNumber DEF RttInv
<1>3. sequenceNumber' \in {sequenceNumber, sequenceNumber + 1}
  BY <1>1, <1>2 DEF UpdateAverageRtt, NonZeroStart
<1> QED
  BY <1>1, <1>2, <1>3

\* A queue of messages with one more, and with one less.
LEMMA Queues ==
  ASSUME NEW q \in Seq(Messages)
  PROVE  /\ DOMAIN q = 1 .. Len(q) /\ Len(q) \in Nat /\ \A i \in DOMAIN q : q[i] \in Messages
         /\ \A m \in Messages :
              /\ Append(q, m) \in Seq(Messages)
              /\ DOMAIN Append(q, m) = 1 .. (Len(q) + 1)
              /\ Append(q, m)[Len(q) + 1] = m
              /\ \A i \in DOMAIN q : Append(q, m)[i] = q[i]
         /\ q # <<>> =>
              /\ 1 \in DOMAIN q /\ Head(q) = q[1] /\ Head(q) \in Messages
              /\ Tail(q) \in Seq(Messages)
              /\ \A i \in DOMAIN Tail(q) : i + 1 \in DOMAIN q /\ i \in Nat \ {0} /\ Tail(q)[i] = q[i + 1]
<1> HIDE DEF Messages
<1>1. DOMAIN q = 1 .. Len(q) /\ Len(q) \in Nat /\ \A i \in DOMAIN q : q[i] \in Messages
  OBVIOUS
<1>2. ASSUME NEW m \in Messages
      PROVE  /\ Append(q, m) \in Seq(Messages)
             /\ DOMAIN Append(q, m) = 1 .. (Len(q) + 1)
             /\ Append(q, m)[Len(q) + 1] = m
             /\ \A i \in DOMAIN q : Append(q, m)[i] = q[i]
  <2>1. /\ Append(q, m) \in Seq(Messages) /\ Len(Append(q, m)) = Len(q) + 1
        /\ Append(q, m)[Len(q) + 1] = m
        /\ \A i \in 1 .. Len(q) : Append(q, m)[i] = q[i]
    BY AppendProperties
  <2> QED
    BY <1>1, <2>1
<1>3. ASSUME q # <<>>
      PROVE  /\ 1 \in DOMAIN q /\ Head(q) = q[1] /\ Head(q) \in Messages
             /\ Tail(q) \in Seq(Messages)
             /\ \A i \in DOMAIN Tail(q) :
                  i + 1 \in DOMAIN q /\ i \in Nat \ {0} /\ Tail(q)[i] = q[i + 1]
  <2>1. /\ Head(q) \in Messages /\ Tail(q) \in Seq(Messages) /\ Len(Tail(q)) = Len(q) - 1
        /\ \A i \in 1 .. Len(Tail(q)) : Tail(q)[i] = q[i + 1]
    BY <1>3, HeadTailProperties
  <2>2. Head(q) = q[1] /\ Len(q) >= 1
    BY <1>1, <1>3
  <2>3. DOMAIN Tail(q) = 1 .. (Len(q) - 1)
    BY <2>1
  <2> QED
    BY <1>1, <2>1, <2>2, <2>3
<1> QED
  BY <1>1, <1>2, <1>3

LEMMA InitInv == Init => IInv
<1> SUFFICES ASSUME Init PROVE IInv
  OBVIOUS
<1>1. RttInv
  <2>1. requests \in Seq(Messages) /\ responses \in Seq(Messages)
    BY DEF Init
  <2>2. IsFiniteSet(rttRequests) /\ Cardinality(rttRequests) = 0 /\ rttRequests = {}
    BY FS_EmptySet DEF Init
  <2>3. /\ sequenceNumber = 0 /\ sent = 0 /\ MaxRequests \in Nat /\ MaxFrames \in Nat
        /\ frames = 0 /\ state = "None" /\ rttMeasurements = FALSE
    BY NetworkAssumption DEF Init
  <2>4. sequenceNumber + Cardinality(rttRequests) <= Allowed
    BY <2>2, <2>3 DEF Allowed, Results
  <2>5. rttMeasurements \in BOOLEAN /\ (rttMeasurements => sequenceNumber > 0)
    BY Zenon DEF Init
  <2>6. sequenceNumber \in Nat /\ sent \in 0 .. MaxRequests /\ frames \in 0 .. MaxFrames
    BY <2>3
  <2> QED
    BY <2>1, <2>2, <2>3, <2>4, <2>5, <2>6 DEF RttInv
<1>2. WireInv
  BY DEF Init, WireInv, Increasing
<1>3. MeasuresItsOwn /\ BandwidthInv
  BY DEF Init, MeasuresItsOwn, BandwidthInv
<1> QED
  BY <1>1, <1>2, <1>3 DEF IInv

\* Steps that leave the round trips alone.
BandwidthStep == FrameThread \/ ClientResults

LEMMA BandwidthStepKeeps ==
  ASSUME BandwidthStep \/ UNCHANGED vars
  PROVE  UNCHANGED rttVars
  BY DEF BandwidthStep, FrameThread, StartMeasure, SendStart, StopMeasure, SendStop,
         ClientResults, vars

\* What a frame costs: no measurement gives a result without a frame of its own.
LEMMA BandwidthStepAllows ==
  ASSUME RttInv, BandwidthStep \/ UNCHANGED vars
  PROVE  /\ frames' \in 0 .. MaxFrames /\ (state' # "None" => frames' > 0)
         /\ Results' >= Results /\ Results' \in Nat
<1> USE DEF Results
<1>1. /\ frames \in Nat /\ frames <= MaxFrames /\ MaxFrames \in Nat
      /\ state # "None" => frames > 0
  BY NetworkAssumption DEF RttInv
<1>2. CASE StartMeasure
  BY <1>1, <1>2 DEF StartMeasure
<1>3. CASE SendStart \/ ClientResults
  BY <1>1, <1>3 DEF SendStart, ClientResults
<1>4. CASE StopMeasure
  BY <1>1, <1>4 DEF StopMeasure, First, Mark
<1>5. CASE SendStop
  BY <1>1, <1>5 DEF SendStop, First, Tell
<1>6. CASE UNCHANGED vars
  BY <1>1, <1>6 DEF vars, bwVars
<1> QED
  BY <1>2, <1>3, <1>4, <1>5, <1>6 DEF BandwidthStep, FrameThread

\* What a bandwidth result does to the round trips: at most a number is taken, and
\* then the frame's measurement is over.
LEMMA ResultsShape ==
  ASSUME RttInv, OnBandwidthMeasureResults
  PROVE  /\ UNCHANGED <<rttRequests, sent, measured, requests, responses, frames>>
         /\ rttMeasurements' \in BOOLEAN /\ (rttMeasurements' => sequenceNumber' > 0)
         /\ \/ UNCHANGED sequenceNumber /\ state' \in {state, "None"}
            \/ sequenceNumber' = sequenceNumber + 1 /\ state # "None" /\ state' = "None"
<1>1. /\ UNCHANGED <<rttRequests, sent, measured, requests, responses, frames>>
      /\ state' \in {state, "None"}
      /\ \/ UNCHANGED <<rttMeasurements, sequenceNumber>>
         \/ state # "None" /\ state' = "None" /\ UpdateAverageRtt(FALSE)
  BY DEF OnBandwidthMeasureResults
<1>2. CASE UNCHANGED <<rttMeasurements, sequenceNumber>>
  BY <1>1, <1>2 DEF RttInv
<1>3. CASE state # "None" /\ state' = "None" /\ UpdateAverageRtt(FALSE)
  <2>1. rttRequests' \subseteq rttRequests
    BY <1>1
  <2> QED
    BY <1>1, <1>3, <2>1, AverageShape
<1> QED
  BY <1>1, <1>2, <1>3

LEMMA RttStepKeeps ==
  ASSUME Update \/ OnRttMeasureResponse \/ ClientAnswers
  PROVE  UNCHANGED bwVars
  BY DEF Update, OnRttMeasureResponse, ClientAnswers, bwVars

\* What update does, for the number it takes.
LEMMA UpdateShape ==
  ASSUME RttInv, Update
  PROVE  LET s == NonZeroStart
             r == [sequence |-> s, time |-> sent + 1]
             m == [wire |-> s % WireSize, time |-> sent + 1]
         IN /\ sent' = sent + 1 /\ sent < MaxRequests /\ sequenceNumber' = s + 1
            /\ rttRequests' = rttRequests \cup {r} /\ requests' = Append(requests, m)
            /\ r \in Records /\ m \in Messages /\ UNCHANGED <<measured, responses>>
<1>1. NextSequenceNumber(rttRequests) = NonZeroStart /\ NonZeroStart \in Nat \ {0}
  BY NextNumber
<1>2. NonZeroStart % WireSize \in Nat
  BY <1>1, NetworkAssumption
<1>3. sent \in Nat
  BY DEF RttInv
<1> QED
  BY <1>1, <1>2, <1>3 DEF Update, Stored, Records, Messages

\* What an answer takes, and what averaging does with it.
LEMMA ResponseShape ==
  ASSUME RttInv, OnRttMeasureResponse
  PROVE  LET a == Head(responses)
             taken == {r \in rttRequests : r.sequence = a.wire}
         IN /\ responses # <<>> /\ responses' = Tail(responses)
            /\ rttRequests' = rttRequests \ taken
            /\ measured' = [answered |-> a.time,
                            taken |-> IF taken = {} THEN 0 ELSE Max({r.time : r \in taken})]
            /\ \/ UNCHANGED sequenceNumber
               \/ taken # {} /\ sequenceNumber' = sequenceNumber + 1
            /\ rttMeasurements' \in BOOLEAN /\ (rttMeasurements' => sequenceNumber' > 0)
            /\ UNCHANGED <<sent, requests>>
<1> DEFINE taken == {r \in rttRequests : r.sequence = Head(responses).wire}
<1>1. /\ responses # <<>> /\ responses' = Tail(responses) /\ rttRequests' = rttRequests \ taken
      /\ measured' = [answered |-> Head(responses).time,
                      taken |-> IF taken = {} THEN 0 ELSE Max({r.time : r \in taken})]
      /\ UNCHANGED <<sent, requests>>
      /\ \/ UNCHANGED <<sequenceNumber, rttMeasurements>>
         \/ taken # {} /\ UpdateAverageRtt(TRUE)
  BY DEF OnRttMeasureResponse
<1>2. taken # {} => sequenceNumber > 0
  BY DEF RttInv, Records
<1>3. rttRequests' \subseteq rttRequests
  BY <1>1
<1> HIDE DEF taken
<1>4. CASE UNCHANGED <<sequenceNumber, rttMeasurements>>
  <2>1. rttMeasurements' \in BOOLEAN /\ (rttMeasurements' => sequenceNumber' > 0)
    BY <1>4 DEF RttInv
  <2> QED
    BY <1>1, <1>4, <2>1 DEF taken
<1>5. CASE taken # {} /\ UpdateAverageRtt(TRUE)
  <2>1. /\ sequenceNumber' \in {sequenceNumber, sequenceNumber + 1}
        /\ rttMeasurements' \in BOOLEAN /\ (rttMeasurements' => sequenceNumber' > 0)
    BY <1>2, <1>3, <1>5, AverageShape
  <2> QED
    BY <1>1, <1>5, <2>1 DEF taken
<1> QED
  BY <1>1, <1>4, <1>5
-----------------------------------------------------------------------------
LEMMA NextRttInv == RttInv /\ [Next]_vars => RttInv'
<1> SUFFICES ASSUME RttInv, [Next]_vars PROVE RttInv'
  OBVIOUS
<1>n. /\ sequenceNumber \in Nat /\ sequenceNumber + Cardinality(rttRequests) <= Allowed
      /\ Allowed = 2 * sent + 1 + Results /\ Allowed' = 2 * sent' + 1 + Results'
  BY DEF RttInv, Allowed
\* neither the frames nor their measurements change
<1>r. ASSUME Update \/ OnRttMeasureResponse \/ ClientAnswers
      PROVE  /\ Results' = Results /\ frames' \in 0 .. MaxFrames
             /\ state' # "None" => frames' > 0
  BY <1>r, RttStepKeeps DEF bwVars, Results, RttInv
<1>1. CASE Update
  <2> DEFINE r == [sequence |-> NonZeroStart, time |-> sent + 1]
             m == [wire |-> NonZeroStart % WireSize, time |-> sent + 1]
  <2>1. /\ sent' = sent + 1 /\ sent < MaxRequests /\ sequenceNumber' = NonZeroStart + 1
        /\ rttRequests' = rttRequests \cup {r} /\ requests' = Append(requests, m)
        /\ r \in Records /\ m \in Messages /\ UNCHANGED responses
    BY <1>1, UpdateShape
  <2>m. UNCHANGED rttMeasurements /\ rttMeasurements \in BOOLEAN
    BY <1>1 DEF Update, RttInv
  <2>2. requests' \in Seq(Messages)
    <3> HIDE DEF m
    <3> QED
      BY <2>1, Queues DEF RttInv
  <2>3. IsFiniteSet(rttRequests') /\ Cardinality(rttRequests') <= Cardinality(rttRequests) + 1
    <3>1. Cardinality(rttRequests) \in Nat
      BY FS_CardinalityType DEF RttInv
    <3> HIDE DEF r
    <3>2. IsFiniteSet(rttRequests)
      BY DEF RttInv
    <3>3. /\ IsFiniteSet(rttRequests')
          /\ Cardinality(rttRequests') \in {Cardinality(rttRequests), Cardinality(rttRequests) + 1}
      BY <2>1, <3>2, FS_AddElement
    <3> QED
      BY <3>1, <3>3
  <2>4. Cardinality(rttRequests) \in Nat /\ Cardinality(rttRequests') \in Nat
    BY <2>3, FS_CardinalityType DEF RttInv
  <2>5. /\ NonZeroStart \in Nat /\ NonZeroStart + Cardinality(rttRequests) <= Allowed
        /\ NonZeroStart >= sequenceNumber
    BY NextNumber
  <2>6. sent \in Nat /\ sent' \in 0 .. MaxRequests /\ sequenceNumber' \in Nat
    BY <2>1, <2>5, NetworkAssumption DEF RttInv
  <2>7. sequenceNumber' + Cardinality(rttRequests') <= Allowed'
    <3>1. Allowed' = Allowed + 2 /\ Allowed \in Nat
      <4>1. /\ Results' = Results /\ sent' = sent + 1 /\ sent \in Nat
            /\ Results \in Nat /\ Allowed \in Nat
        BY <1>1, <1>r, <2>1, Counts
      <4> QED
        BY <1>n, <4>1
    <3> QED
      BY <2>1, <2>3, <2>4, <2>5, <3>1
  <2>8. \A q \in rttRequests' : q \in Records /\ q.sequence < sequenceNumber' /\ q.time <= sent'
    <3>1. r.sequence < sequenceNumber' /\ r.time <= sent'
      BY <2>1, <2>5, <2>6
    <3>2. ASSUME NEW q \in rttRequests
          PROVE  q \in Records /\ q.sequence < sequenceNumber' /\ q.time <= sent'
      <4>1. q \in Records /\ q.sequence < sequenceNumber /\ q.time <= sent
        BY DEF RttInv
      <4>2. q.sequence \in Nat /\ q.time \in Nat /\ sequenceNumber \in Nat
        BY <4>1 DEF Records, RttInv
      <4> QED
        BY <2>1, <2>5, <2>6, <4>1, <4>2
    <3> HIDE DEF r
    <3> QED
      BY <2>1, <3>1, <3>2
  <2>9. rttMeasurements' \in BOOLEAN /\ sequenceNumber' > 0 /\ responses' \in Seq(Messages)
    BY <2>1, <2>5, <2>m DEF RttInv
  <2> QED
    BY <1>1, <1>r, <2>2, <2>3, <2>6, <2>7, <2>8, <2>9 DEF RttInv
<1>2. CASE OnRttMeasureResponse
  <2> DEFINE taken == {r \in rttRequests : r.sequence = Head(responses).wire}
  <2>1. /\ responses # <<>> /\ responses' = Tail(responses)
        /\ rttRequests' = rttRequests \ taken /\ UNCHANGED <<sent, requests>>
        /\ \/ UNCHANGED sequenceNumber
           \/ taken # {} /\ sequenceNumber' = sequenceNumber + 1
        /\ rttMeasurements' \in BOOLEAN /\ (rttMeasurements' => sequenceNumber' > 0)
    BY <1>2, ResponseShape
  <2>2. responses' \in Seq(Messages)
    BY <2>1, Queues DEF RttInv
  <2>3. /\ IsFiniteSet(rttRequests') /\ Cardinality(rttRequests') <= Cardinality(rttRequests)
        /\ Cardinality(rttRequests) \in Nat /\ Cardinality(rttRequests') \in Nat
    <3>1. rttRequests' \subseteq rttRequests /\ IsFiniteSet(rttRequests)
      BY <2>1 DEF RttInv
    <3> QED
      BY <3>1, FS_Subset, FS_CardinalityType
  <2>4. taken # {} => Cardinality(rttRequests') + 1 <= Cardinality(rttRequests)
    <3>1. ASSUME NEW r \in taken PROVE Cardinality(rttRequests') + 1 <= Cardinality(rttRequests)
      <4>1. r \in rttRequests /\ rttRequests' \subseteq rttRequests \ {r}
        BY <2>1
      <4>2. /\ IsFiniteSet(rttRequests \ {r})
            /\ Cardinality(rttRequests \ {r}) = Cardinality(rttRequests) - 1
        BY <4>1, FS_RemoveElement DEF RttInv
      <4>3. Cardinality(rttRequests') <= Cardinality(rttRequests \ {r})
        BY <4>1, <4>2, FS_Subset
      <4> QED
        BY <2>3, <4>2, <4>3
    <3> HIDE DEF taken
    <3> QED
      BY <3>1
  <2> HIDE DEF taken
  <2>5. /\ sequenceNumber' \in Nat /\ sequenceNumber' >= sequenceNumber
        /\ sequenceNumber' + Cardinality(rttRequests') <= Allowed'
    <3>1. Allowed' = Allowed /\ Allowed \in Nat
      BY <1>2, <1>n, <1>r, <2>1, Counts
    <3> QED
      BY <1>n, <2>1, <2>3, <2>4, <3>1
  <2>6. ASSUME NEW q \in rttRequests'
        PROVE  q \in Records /\ q.sequence < sequenceNumber' /\ q.time <= sent'
    <3>1. /\ q \in Records /\ q.sequence < sequenceNumber /\ q.time <= sent'
          /\ sequenceNumber \in Nat
      BY <2>1 DEF RttInv
    <3>2. q.sequence \in Nat
      BY <3>1 DEF Records
    <3> QED
      BY <2>5, <3>1, <3>2
  <2>7. sent' \in 0 .. MaxRequests /\ requests' \in Seq(Messages)
    BY <2>1 DEF RttInv
  <2> QED
    BY <1>2, <1>r, <2>1, <2>2, <2>3, <2>5, <2>6, <2>7 DEF RttInv
<1>3. CASE ClientAnswers
  <2>1. /\ requests # <<>> /\ requests' = Tail(requests)
        /\ responses' \in {responses, Append(responses, Head(requests))}
        /\ UNCHANGED <<sequenceNumber, rttRequests, rttMeasurements, sent>>
    BY <1>3 DEF ClientAnswers
  <2>2. requests' \in Seq(Messages) /\ Head(requests) \in Messages
    BY <2>1, Queues DEF RttInv
  <2>3. responses' \in Seq(Messages)
    <3> DEFINE h == Head(requests)
    <3>1. h \in Messages /\ responses' \in {responses, Append(responses, h)}
      BY <2>1, <2>2
    <3> HIDE DEF h
    <3>2. responses \in Seq(Messages)
      BY DEF RttInv
    <3>3. Append(responses, h) \in Seq(Messages)
      BY <3>1, <3>2, AppendProperties
    <3> QED
      BY <3>1, <3>2, <3>3
  <2>4. Allowed' = Allowed
    BY <1>3, <1>n, <1>r, <2>1
  <2> QED
    BY <1>3, <1>r, <2>1, <2>2, <2>3, <2>4 DEF RttInv
<1>4. CASE BandwidthStep \/ UNCHANGED vars
  <2>1. UNCHANGED rttVars
    BY <1>4, BandwidthStepKeeps
  <2>2. /\ frames' \in 0 .. MaxFrames /\ (state' # "None" => frames' > 0)
        /\ Results' >= Results /\ Results' \in Nat
    BY <1>4, BandwidthStepAllows
  <2>3. sequenceNumber' + Cardinality(rttRequests') <= Allowed'
    BY <1>n, <2>1, <2>2, Counts DEF rttVars
  <2> QED
    BY <2>1, <2>2, <2>3 DEF RttInv, rttVars
<1>5. CASE OnBandwidthMeasureResults
  <2>1. /\ UNCHANGED <<rttRequests, sent, requests, responses, frames>>
        /\ rttMeasurements' \in BOOLEAN /\ (rttMeasurements' => sequenceNumber' > 0)
        /\ \/ UNCHANGED sequenceNumber /\ state' \in {state, "None"}
           \/ sequenceNumber' = sequenceNumber + 1 /\ state # "None" /\ state' = "None"
    BY <1>5, ResultsShape
  <2>2. sequenceNumber' \in Nat /\ sequenceNumber' >= sequenceNumber
    BY <1>n, <2>1
  <2>3. sequenceNumber' + Cardinality(rttRequests') <= Allowed'
    <3>1. CASE UNCHANGED sequenceNumber /\ state' \in {state, "None"}
      <4>1. Results' >= Results /\ Results' \in Nat
        BY <2>1, <3>1, Counts DEF Results
      <4> QED
        BY <1>n, <2>1, <3>1, <4>1, Counts
    <3>2. CASE sequenceNumber' = sequenceNumber + 1 /\ state # "None" /\ state' = "None"
      <4>1. Results' = Results + 1
        BY <2>1, <3>2, Counts DEF Results
      <4> QED
        BY <1>n, <2>1, <3>2, <4>1, Counts
    <3> QED
      BY <2>1, <3>1, <3>2
  <2>4. frames' \in 0 .. MaxFrames /\ (state' # "None" => frames' > 0)
    BY <2>1 DEF RttInv
  <2>5. ASSUME NEW q \in rttRequests'
        PROVE  q \in Records /\ q.sequence < sequenceNumber' /\ q.time <= sent'
    <3>1. q \in Records /\ q.sequence < sequenceNumber /\ q.time <= sent'
      BY <2>1 DEF RttInv
    <3>2. q.sequence \in Nat
      BY <3>1 DEF Records
    <3> QED
      BY <1>n, <2>2, <3>1, <3>2
  <2>6. /\ sent' \in 0 .. MaxRequests /\ requests' \in Seq(Messages)
        /\ responses' \in Seq(Messages) /\ IsFiniteSet(rttRequests')
    BY <2>1 DEF RttInv
  <2> QED
    BY <2>1, <2>2, <2>3, <2>4, <2>5, <2>6 DEF RttInv
<1> QED
  BY <1>1, <1>2, <1>3, <1>4, <1>5 DEF Next, BandwidthStep

LEMMA NextWireInv == RttInv /\ WireInv /\ MeasuresItsOwn /\ [Next]_vars => WireInv' /\ MeasuresItsOwn'
<1> SUFFICES ASSUME RttInv, WireInv, MeasuresItsOwn, [Next]_vars PROVE WireInv' /\ MeasuresItsOwn'
  OBVIOUS
<1>q. /\ requests \in Seq(Messages) /\ responses \in Seq(Messages)
      /\ sequenceNumber \in Nat /\ WireSize \in Nat
  BY NetworkAssumption DEF RttInv
<1>1. CASE Update
  <2> DEFINE s == NonZeroStart
             r == [sequence |-> s, time |-> sent + 1]
             m == [wire |-> s % WireSize, time |-> sent + 1]
  <2>1. /\ sequenceNumber' = s + 1 /\ rttRequests' = rttRequests \cup {r}
        /\ requests' = Append(requests, m) /\ m \in Messages /\ UNCHANGED <<measured, responses>>
    BY <1>1, UpdateShape
  <2>2. s \in Nat /\ s >= sequenceNumber /\ \A q \in rttRequests : q.sequence < s
    BY NextNumber
  <2> SUFFICES ASSUME sequenceNumber' <= WireSize PROVE WireInv' /\ MeasuresItsOwn'
    BY DEF WireInv, MeasuresItsOwn
  <2>3. sequenceNumber <= WireSize /\ s % WireSize = s
    <3>1. s < WireSize /\ sequenceNumber <= WireSize
      BY <1>q, <2>1, <2>2
    <3> QED
      BY <1>q, <2>2, <3>1, SmallRemainder
  <2>4. m.wire = s /\ m.time = r.time /\ r.sequence = s
    BY <2>3
  <2> HIDE DEF s, r, m
  <2>5. /\ DOMAIN requests = 1 .. Len(requests) /\ Len(requests) \in Nat
        /\ DOMAIN requests' = 1 .. (Len(requests) + 1)
        /\ requests'[Len(requests) + 1] = m /\ \A i \in DOMAIN requests : requests'[i] = requests[i]
    BY <1>q, <2>1, Queues
  <2>6. \A i \in DOMAIN requests' : i \in DOMAIN requests \/ i = Len(requests) + 1
    BY <2>5
  <2>7. \A x : Known(x, rttRequests) => Known(x, rttRequests') /\ x.wire < s
    BY <2>1, <2>2 DEF Known
  <2>8. Known(m, rttRequests')
    BY <2>1, <2>4 DEF Known
  <2>9. /\ \A i \in DOMAIN requests : Known(requests[i], rttRequests)
        /\ \A i \in DOMAIN responses : Known(responses[i], rttRequests)
        /\ \A p, q \in rttRequests : p.sequence = q.sequence => p = q
        /\ Increasing(requests) /\ Increasing(responses)
        /\ \A i \in DOMAIN responses, j \in DOMAIN requests :
             responses[i].wire < requests[j].wire
    BY <2>3 DEF WireInv
  <2>10. \A p, q \in rttRequests' : p.sequence = q.sequence => p = q
    <3>1. ASSUME NEW q \in rttRequests PROVE q.sequence # s
      <4>1. q.sequence < s /\ q.sequence \in Nat
        BY <2>2 DEF RttInv, Records
      <4> QED
        BY <2>2, <4>1
    <3> QED
      BY <2>1, <2>4, <2>9, <3>1
  <2>11. \A i \in DOMAIN requests' : Known(requests'[i], rttRequests')
    BY <2>5, <2>6, <2>7, <2>8, <2>9
  <2>12. \A i \in DOMAIN responses' : Known(responses'[i], rttRequests')
    BY <2>1, <2>7, <2>9
  <2>13. Increasing(requests')
    <3> SUFFICES ASSUME NEW i \in DOMAIN requests', NEW j \in DOMAIN requests', i < j
                 PROVE  requests'[i].wire < requests'[j].wire
      BY DEF Increasing
    <3>1. i \in DOMAIN requests
      BY <2>5
    <3>2. CASE j \in DOMAIN requests
      BY <2>5, <2>9, <3>1, <3>2 DEF Increasing
    <3>3. CASE j = Len(requests) + 1
      BY <2>4, <2>5, <2>7, <2>9, <3>1, <3>3
    <3> QED
      BY <2>6, <3>2, <3>3
  <2>14. ASSUME NEW i \in DOMAIN responses, NEW j \in DOMAIN requests'
         PROVE  responses[i].wire < requests'[j].wire
    <3>1. CASE j \in DOMAIN requests
      BY <2>5, <2>9, <3>1
    <3>2. CASE j = Len(requests) + 1
      BY <2>4, <2>5, <2>7, <2>9, <3>2
    <3> QED
      BY <2>6, <3>1, <3>2
  <2>15. Increasing(responses') /\ responses' = responses
    BY <2>1, <2>9
  <2>16. WireInv'
    BY <2>10, <2>11, <2>12, <2>13, <2>14, <2>15 DEF WireInv, Increasing
  <2>17. MeasuresItsOwn'
    BY <2>1, <2>3 DEF MeasuresItsOwn
  <2> QED
    BY <2>16, <2>17
<1>2. CASE OnRttMeasureResponse
  <2> DEFINE a == Head(responses)
             taken == {r \in rttRequests : r.sequence = a.wire}
  <2>1. /\ responses # <<>> /\ responses' = Tail(responses) /\ rttRequests' = rttRequests \ taken
        /\ measured' = [answered |-> a.time,
                        taken |-> IF taken = {} THEN 0 ELSE Max({r.time : r \in taken})]
        /\ sequenceNumber' \in {sequenceNumber, sequenceNumber + 1} /\ UNCHANGED requests
    BY <1>2, ResponseShape
  <2> SUFFICES ASSUME sequenceNumber' <= WireSize PROVE WireInv' /\ MeasuresItsOwn'
    BY DEF WireInv, MeasuresItsOwn
  <2>2. sequenceNumber <= WireSize
    BY <1>q, <2>1
  <2>3. /\ \A i \in DOMAIN requests : Known(requests[i], rttRequests)
        /\ \A i \in DOMAIN responses : Known(responses[i], rttRequests)
        /\ \A p, q \in rttRequests : p.sequence = q.sequence => p = q
        /\ Increasing(requests) /\ Increasing(responses)
        /\ \A i \in DOMAIN responses, j \in DOMAIN requests :
             responses[i].wire < requests[j].wire
    BY <2>2 DEF WireInv
  <2>4. /\ 1 \in DOMAIN responses /\ a = responses[1] /\ a \in Messages
        /\ \A i \in DOMAIN responses' :
             i + 1 \in DOMAIN responses /\ i \in Nat \ {0} /\ responses'[i] = responses[i + 1]
    BY <1>q, <2>1, Queues
  <2>5. PICK r \in rttRequests : r.sequence = a.wire /\ r.time = a.time
    BY <2>3, <2>4 DEF Known
  <2>6. taken = {r}
    BY <2>3, <2>5
  <2>7. a.time \in Nat /\ a.wire \in Nat
    BY <2>4 DEF Messages
  <2> HIDE DEF a, taken
  <2>8. {q.time : q \in taken} = {a.time}
    BY <2>5, <2>6
  <2>9. measured'.taken = measured'.answered
    BY <2>1, <2>6, <2>7, <2>8, MaxSingle
  \* who is still under way has another number, and so keeps its record
  <2>10. ASSUME NEW x, Known(x, rttRequests), a.wire < x.wire PROVE Known(x, rttRequests')
    <3>1. PICK q \in rttRequests : q.sequence = x.wire /\ q.time = x.time
      BY <2>10 DEF Known
    <3>2. q # r
      BY <2>5, <2>7, <2>10, <3>1 DEF RttInv, Records
    <3> QED
      BY <2>1, <2>6, <3>1, <3>2 DEF Known
  <2>11. \A i \in DOMAIN responses' : Known(responses'[i], rttRequests')
    <3>1. ASSUME NEW i \in DOMAIN responses' PROVE Known(responses'[i], rttRequests')
      <4>1. i + 1 \in DOMAIN responses /\ 1 < i + 1 /\ responses'[i] = responses[i + 1]
        BY <2>4
      <4>2. a.wire < responses[i + 1].wire
        BY <2>3, <2>4, <4>1 DEF Increasing
      <4> QED
        BY <2>3, <2>10, <4>1, <4>2
    <3> QED
      BY <3>1
  <2>12. \A i \in DOMAIN requests' : Known(requests'[i], rttRequests')
    BY <2>1, <2>3, <2>4, <2>10
  <2>13. Increasing(responses')
    <3> SUFFICES ASSUME NEW i \in DOMAIN responses', NEW j \in DOMAIN responses', i < j
                 PROVE  responses'[i].wire < responses'[j].wire
      BY DEF Increasing
    <3>1. /\ i + 1 \in DOMAIN responses /\ j + 1 \in DOMAIN responses /\ i + 1 < j + 1
          /\ responses'[i] = responses[i + 1] /\ responses'[j] = responses[j + 1]
      BY <2>4
    <3> QED
      BY <2>3, <3>1 DEF Increasing
  <2>14. \A i \in DOMAIN responses', j \in DOMAIN requests' :
           responses'[i].wire < requests'[j].wire
    BY <2>1, <2>3, <2>4
  <2>15. \A p, q \in rttRequests' : p.sequence = q.sequence => p = q
    BY <2>1, <2>3
  <2>16. WireInv'
    BY <2>1, <2>3, <2>11, <2>12, <2>13, <2>14, <2>15 DEF WireInv, Increasing
  <2> QED
    BY <2>9, <2>16 DEF MeasuresItsOwn
<1>3. CASE ClientAnswers
  <2>1. /\ requests # <<>> /\ requests' = Tail(requests)
        /\ responses' \in {responses, Append(responses, Head(requests))}
        /\ UNCHANGED <<sequenceNumber, rttRequests, measured>>
    BY <1>3 DEF ClientAnswers
  <2> SUFFICES ASSUME sequenceNumber <= WireSize PROVE WireInv' /\ MeasuresItsOwn'
    BY <2>1 DEF WireInv, MeasuresItsOwn
  <2>2. /\ \A i \in DOMAIN requests : Known(requests[i], rttRequests)
        /\ \A i \in DOMAIN responses : Known(responses[i], rttRequests)
        /\ \A p, q \in rttRequests : p.sequence = q.sequence => p = q
        /\ Increasing(requests) /\ Increasing(responses)
        /\ \A i \in DOMAIN responses, j \in DOMAIN requests :
             responses[i].wire < requests[j].wire
    BY DEF WireInv
  <2>3. /\ 1 \in DOMAIN requests /\ Head(requests) = requests[1] /\ Head(requests) \in Messages
        /\ \A i \in DOMAIN requests' :
             /\ i + 1 \in DOMAIN requests /\ 1 < i + 1 /\ i \in Nat
             /\ requests'[i] = requests[i + 1]
    BY <1>q, <2>1, Queues
  <2>4. \A x : Known(x, rttRequests') = Known(x, rttRequests)
    BY <2>1 DEF Known
  \* an answer is a message that was under way already, or the first request
  <2>5. /\ DOMAIN responses = 1 .. Len(responses) /\ Len(responses) \in Nat
        /\ \A i \in DOMAIN responses' :
             \/ i \in DOMAIN responses /\ responses'[i] = responses[i]
             \/ i = Len(responses) + 1 /\ responses'[i] = Head(requests)
    BY <1>q, <2>1, <2>3, Queues
  <2>6. \A i \in DOMAIN requests' : Known(requests'[i], rttRequests')
    BY <2>2, <2>3, <2>4
  <2>7. \A i \in DOMAIN responses' : Known(responses'[i], rttRequests')
    BY <2>2, <2>3, <2>4, <2>5
  <2>8. Increasing(requests')
    <3> SUFFICES ASSUME NEW i \in DOMAIN requests', NEW j \in DOMAIN requests', i < j
                 PROVE  requests'[i].wire < requests'[j].wire
      BY DEF Increasing
    <3>1. /\ i + 1 \in DOMAIN requests /\ j + 1 \in DOMAIN requests /\ i + 1 < j + 1
          /\ requests'[i] = requests[i + 1] /\ requests'[j] = requests[j + 1]
      BY <2>3
    <3> QED
      BY <2>2, <3>1 DEF Increasing
  <2>9. Increasing(responses')
    <3> SUFFICES ASSUME NEW i \in DOMAIN responses', NEW j \in DOMAIN responses', i < j
                 PROVE  responses'[i].wire < responses'[j].wire
      BY DEF Increasing
    <3>1. i \in DOMAIN responses /\ responses'[i] = responses[i]
      <4>1. j \in 1 .. (Len(responses) + 1) /\ i \in 1 .. (Len(responses) + 1)
        BY <2>5
      <4>2. i # Len(responses) + 1
        BY <2>5, <4>1
      <4> QED
        BY <2>5, <4>2
    <3>2. CASE j \in DOMAIN responses /\ responses'[j] = responses[j]
      BY <2>2, <3>1, <3>2 DEF Increasing
    <3>3. CASE responses'[j] = Head(requests)
      BY <2>2, <2>3, <3>1, <3>3
    <3> QED
      BY <2>5, <3>2, <3>3
  <2>10. ASSUME NEW i \in DOMAIN responses', NEW j \in DOMAIN requests'
         PROVE  responses'[i].wire < requests'[j].wire
    <3>1. j + 1 \in DOMAIN requests /\ 1 < j + 1 /\ requests'[j] = requests[j + 1]
      BY <2>3
    <3>2. CASE i \in DOMAIN responses /\ responses'[i] = responses[i]
      BY <2>2, <3>1, <3>2
    <3>3. CASE responses'[i] = Head(requests)
      BY <2>2, <2>3, <3>1, <3>3 DEF Increasing
    <3> QED
      BY <2>5, <3>2, <3>3
  <2>11. WireInv'
    BY <2>1, <2>2, <2>6, <2>7, <2>8, <2>9, <2>10 DEF WireInv, Increasing
  <2> QED
    BY <2>1, <2>11 DEF MeasuresItsOwn
<1>4. CASE BandwidthStep \/ UNCHANGED vars
  BY <1>4, BandwidthStepKeeps DEF rttVars, WireInv, Known, Increasing, MeasuresItsOwn
<1>5. CASE OnBandwidthMeasureResults
  <2>1. /\ UNCHANGED <<rttRequests, measured, requests, responses>>
        /\ sequenceNumber' \in {sequenceNumber, sequenceNumber + 1}
    BY <1>5, ResultsShape
  <2>2. sequenceNumber' <= WireSize => sequenceNumber <= WireSize
    BY <1>q, <2>1
  <2>3. \A x : Known(x, rttRequests') = Known(x, rttRequests)
    BY <2>1 DEF Known
  <2>4. WireInv'
    BY <2>1, <2>2, <2>3 DEF WireInv, Increasing
  <2> QED
    BY <2>1, <2>2, <2>4 DEF MeasuresItsOwn
<1> QED
  BY <1>1, <1>2, <1>3, <1>4, <1>5 DEF Next, BandwidthStep

LEMMA NextBandwidthInv == BandwidthInv /\ [Next]_vars => BandwidthInv'
<1> SUFFICES ASSUME BandwidthInv, [Next]_vars PROVE BandwidthInv'
  OBVIOUS
<1> USE DEF BandwidthInv, First, Mark, Tell
<1>1. CASE StartMeasure
  BY <1>1 DEF StartMeasure, MayStart
<1>2. CASE SendStart
  BY <1>2 DEF SendStart
<1>3. CASE StopMeasure
  BY <1>3 DEF StopMeasure
<1>4. CASE SendStop
  BY <1>4 DEF SendStop
<1>5. CASE ClientResults
  BY <1>5 DEF ClientResults
<1>6. CASE OnBandwidthMeasureResults
  BY <1>6 DEF OnBandwidthMeasureResults
<1>7. CASE Update \/ OnRttMeasureResponse \/ ClientAnswers
  BY <1>7, RttStepKeeps DEF bwVars
<1>8. CASE UNCHANGED vars
  BY <1>8 DEF vars, bwVars
<1> QED
  BY <1>1, <1>2, <1>3, <1>4, <1>5, <1>6, <1>7, <1>8 DEF Next, FrameThread

LEMMA NextInv == IInv /\ [Next]_vars => IInv'
  BY NextRttInv, NextWireInv, NextBandwidthInv DEF IInv

\* The places of the frame thread and the stages of a measurement.
Placed ==
  /\ frame \in {"idle", "begin", "encoded", "end"}
  /\ bandwidth \in {"none", "started", "stopped", "answered"}

LEMMA InvAlways == Spec => []IInv
  BY InitInv, NextInv, PTL DEF Spec

-----------------------------------------------------------------------------
\* Until the numbers on the wire are used up, every answer is taken for the request
\* it answers, whatever is lost and however long answers take; and the counter grows
\* by at most two for each request and one for each frame that is measured
\* (nextSequenceNumber, onRttMeasureResponse, onBandwidthMeasureResults).
THEOREM AlwaysNetworkInv == Spec => []NetworkInv
<1>1. IInv => NetworkInv
  <2> SUFFICES ASSUME IInv PROVE TypeOK
    BY DEF IInv, NetworkInv
  <2>1. sequenceNumber \in 0 .. 2 * MaxRequests + MaxFrames + 1
    <3>1. /\ sequenceNumber \in Nat /\ sequenceNumber + Cardinality(rttRequests) <= Allowed
          /\ sent <= MaxRequests /\ frames <= MaxFrames
      BY DEF IInv, RttInv
    <3>2. Results <= frames /\ Results \in Nat
      BY Counts DEF IInv, Results
    <3> QED
      BY <3>1, <3>2, Counts, NetworkAssumption DEF IInv, Allowed
  <2>2. \A r \in rttRequests : r.sequence \in 1 .. sequenceNumber /\ r.time \in 1 .. sent
    BY DEF IInv, RttInv, Records
  <2>r. rttMeasurements \in BOOLEAN
    BY DEF IInv, RttInv
  <2>3. Placed /\ state \in {"None", "PendingStop", "PendingResults"}
    BY DEF IInv, BandwidthInv, Placed
  <2> QED
    BY <2>1, <2>2, <2>3, <2>r DEF TypeOK, Placed
<1> QED
  BY InvAlways, <1>1, PTL

\* The client is never told to start a measurement before it has answered the one
\* before, although frames and answers are handled by two threads
\* (startBandwidthMeasure, onBandwidthMeasureResults).
THEOREM AlwaysOneMeasurement == Spec => OneMeasurement
<1>1. IInv /\ [Next]_vars => [bandwidth' = "started" => bandwidth \in {"none", "started"}]_vars
  <2> SUFFICES ASSUME IInv, [Next]_vars, bandwidth' = "started"
               PROVE  bandwidth \in {"none", "started"}
    OBVIOUS
  <2>1. bandwidth' = bandwidth \/ SendStart \/ SendStop \/ ClientResults \/ OnBandwidthMeasureResults
           \/ StopMeasure
    BY DEF Next, FrameThread, Update, OnRttMeasureResponse, ClientAnswers, bwVars, StartMeasure, vars
  <2> QED
    BY <2>1 DEF SendStart, SendStop, ClientResults, OnBandwidthMeasureResults, StopMeasure, First,
                Mark, Tell, IInv, BandwidthInv
<1> QED
  BY InvAlways, <1>1, PTL DEF Spec, OneMeasurement

-----------------------------------------------------------------------------
(* AudioStream, for every set of formats and chunk sizes.                     *)
(* Its properties need more than they say: who still has an announcement to   *)
(* make (Announcements), and that the flag is only set behind the selection   *)
(* (SelectedFirst), which nothing takes back.                                 *)

\* activeChanged is emitted at most once by either thread.
Announcements ==
  notices + (IF channel = "idle" THEN 0 ELSE 1) + (IF closing = "closed" THEN 0 ELSE 1) <= 2

\* The channel thread exists only with a context.
ThreadNeedsContext == context = "new" => channel = "none"

\* SelectFormat has succeeded before the flag is set, and so before it is read.
SelectedFirst ==
  active \/ channel \in {"selected", "stored"} \/ sending \in {"flagged", "checked", "called"}
    => selected = Pcm

AudioInv == /\ AudioTypeOK /\ Announcements /\ ThreadNeedsContext
            /\ SelectedFirst /\ EmbedderWillKnow

LEMMA AudioInitInv == AudioInit => AudioInv
<1> SUFFICES ASSUME AudioInit PROVE AudioInv
  OBVIOUS
<1>1. AudioTypeOK
  <2>1. active \in BOOLEAN /\ wasActive \in BOOLEAN /\ seen \in BOOLEAN
    BY Zenon DEF AudioInit
  <2> QED BY <2>1 DEF AudioInit, AudioTypeOK
<1>2. Announcements
  BY DEF AudioInit, Announcements
<1>3. ThreadNeedsContext /\ SelectedFirst /\ EmbedderWillKnow
  BY DEF AudioInit, ThreadNeedsContext, SelectedFirst, EmbedderWillKnow
<1> QED BY <1>1, <1>2, <1>3 DEF AudioInv

\* Each step keeps the invariant, whatever the other two threads are doing.
LEMMA AudioNextInv == AudioInv /\ [AudioNext]_audioVars => AudioInv'
<1> SUFFICES ASSUME AudioInv, [AudioNext]_audioVars PROVE AudioInv'
  OBVIOUS
<1> USE DEF AudioInv, AudioTypeOK, Announcements, ThreadNeedsContext, SelectedFirst,
            EmbedderWillKnow
<1>1. CASE Initialize
  BY <1>1 DEF Initialize
<1>2. CASE InitializeFails
  BY <1>2 DEF InitializeFails
<1>3. CASE Close
  BY <1>3 DEF Close
<1>4. CASE Stop
  BY <1>4 DEF Stop
<1>5. CASE Reset
  BY <1>5 DEF Reset
<1>6. CASE AnnounceClosed
  BY <1>6 DEF AnnounceClosed
<1>7. ASSUME NEW formats \in Lists, NEW ok \in BOOLEAN, Negotiate(formats, ok)
      PROVE  AudioInv'
  BY <1>7 DEF Negotiate
<1>8. CASE StoreActive
  BY <1>8 DEF StoreActive
<1>9. CASE AnnounceActive
  BY <1>9 DEF AnnounceActive
<1>10. CASE Notice
  BY <1>10 DEF Notice
<1>11. CASE ReadFlag
  BY <1>11 DEF ReadFlag
<1>12. ASSUME NEW b \in Sizes, CheckContext(b) PROVE AudioInv'
  BY <1>12 DEF CheckContext
<1>13. CASE SendSamples
  BY <1>13 DEF SendSamples
<1>14. CASE SendReturns
  BY <1>14 DEF SendReturns
<1>15. CASE UNCHANGED audioVars
  BY <1>15 DEF audioVars
<1> QED
  BY <1>1, <1>2, <1>3, <1>4, <1>5, <1>6, <1>7, <1>8, <1>9, <1>10, <1>11, <1>12, <1>13, <1>14,
     <1>15 DEF AudioNext

\* The invariant holds of the channel from its making to its end.
THEOREM AudioInvariance == AudioSpec => []AudioInv
  BY AudioInitInv, AudioNextInv, PTL DEF AudioSpec

\* The members of AudioStream::Private keep their types, and no more than two
\* announcements are ever under way.
THEOREM AudioTypeInvariance == AudioSpec => []AudioTypeOK
<1>1. AudioInv => AudioTypeOK
  BY DEF AudioInv
<1> QED BY AudioInvariance, <1>1, PTL

\* However activation and close() interleave (AudioStream.cpp:35-36, 118-127),
\* an embedder that follows activeChanged ends up with the flag's value.
THEOREM EmbedderAlwaysWillKnow == AudioSpec => []EmbedderWillKnow
<1>1. AudioInv => EmbedderWillKnow
  BY DEF AudioInv
<1> QED BY AudioInvariance, <1>1, PTL

\* No samples enter a live context without a format (AudioStream.cpp:137-148).
THEOREM SamplesAlwaysHaveFormat == AudioSpec => []SamplesNeedFormat
<1>1. AudioInv => SamplesNeedFormat
  BY DEF AudioInv, SelectedFirst, SamplesNeedFormat
<1> QED BY AudioInvariance, <1>1, PTL
=============================================================================
