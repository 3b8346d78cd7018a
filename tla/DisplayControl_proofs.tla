------------------------- MODULE DisplayControl_proofs -------------------------
(***************************************************************************)
(* Proofs about DisplayControl for every set of PDUs, however many are     *)
(* sent, and whether or not the compositor may refuse.  What decoding      *)
(* makes of a PDU plays no part there: the negotiation only tells layouts  *)
(* apart.  That all agree in the end needs who still carries the last      *)
(* request while it is on its way (ChaseInv): the writer that has not      *)
(* signalled it yet, the last signal in the queue, or the embedder.        *)
(*                                                                         *)
(* Decoding follows, for lists of any length and monitors of any size and  *)
(* place: an induction over the records, made on the least number of them  *)
(* for which a statement could fail (NoLeast), shows what the loop has     *)
(* found after each (LoopInv), and the geometry that its comparisons of    *)
(* edges amount to pixels (Shares, Touches, Spans).                        *)
(***************************************************************************)
EXTENDS DisplayControl, FiniteSetTheorems, SequenceTheorems, NaturalsInduction, TLAPS

Quiet == \A w \in Writers : emitting[w] = NoLayout

\* What is pending is what was requested last, and a layout is not accepted before
\* the compositor is in it.
PendingInv ==
  /\ requested # NoLayout => requested = latest
  /\ embedder \in {"applied", "accepting"} => kwin = inHand

\* Who has the last request, as long as nothing disturbs the negotiation.
ChaseInv ==
  ~disturbed =>
    /\ \A w \in Writers : emitting[w] # NoLayout => emitting[w] = latest
    /\ Quiet /\ signals # <<>> => signals[Len(signals)] = latest
    /\ Quiet /\ signals = <<>> /\ embedder # "idle" => inHand = latest
    /\ Quiet /\ signals = <<>> /\ embedder \in {"idle", "accepting"} =>
         requested = NoLayout /\ kwin = latest
    /\ requested = NoLayout => IF embedder = "accepting" THEN inHand = latest
                                                         ELSE layout = latest

IInv == TypeOK /\ PendingInv /\ ChaseInv

\* What a decoded PDU does to the negotiation.
Requests(w, l) ==
  /\ emitting[w] = NoLayout /\ l \in Layouts
  /\ requestMonitorLayout(w, l)

Ignores == IgnoreInvalid(NoLayout)

LEMMA DecodeShape ==
  ASSUME NEW w \in Writers, NEW pdu \in Pdus, Decode(w, pdu), TypeOK
  PROVE  /\ UNCHANGED <<signals, embedder, inHand, kwin, layout>>
         /\ requests' \in 0 .. MaxRequests
         /\ Ignores \/ \E l \in Layouts : Requests(w, l)
<1> DEFINE l == decodeMonitorLayout(pdu)
<1>1. l = NoLayout \/ l \in Layouts
  BY DEF Layouts
<1>2. IF l # NoLayout THEN requestMonitorLayout(w, l) ELSE IgnoreInvalid(l)
  BY DEF Decode
<1>3. emitting[w] = NoLayout /\ UNCHANGED <<signals, embedder, inHand, kwin, layout>>
  BY DEF Decode
<1>4. requests' \in 0 .. MaxRequests
  BY DisplayAssumption DEF Decode, TypeOK
<1> HIDE DEF l
<1>5. CASE l # NoLayout
  BY <1>1, <1>2, <1>3, <1>4, <1>5 DEF Requests
<1>6. CASE l = NoLayout
  BY <1>2, <1>3, <1>4, <1>6 DEF Ignores
<1> QED
  BY <1>5, <1>6

\* The steps of Next, with every PDU taken for what decoding makes of it.
LEMMA Steps ==
  ASSUME TypeOK, [Next]_vars
  PROVE  \/ \E w \in Writers, l \in Layouts :
              /\ Requests(w, l) /\ requests' \in 0 .. MaxRequests
              /\ UNCHANGED <<signals, embedder, inHand, kwin, layout>>
         \/ /\ Ignores /\ requests' \in 0 .. MaxRequests
            /\ UNCHANGED <<signals, embedder, inHand, kwin, layout>>
         \/ \E w \in Writers : Emit(w)
         \/ Deliver \/ Applied \/ Accept \/ SetMonitorLayout \/ Reject
         \/ UNCHANGED vars
<1>1. ASSUME NEW pdu \in Pdus, receiveMonitorLayout(pdu) \/ requestInitialMonitorLayout(pdu)
      PROVE  \E w \in Writers : Decode(w, pdu)
  BY <1>1 DEF receiveMonitorLayout, requestInitialMonitorLayout, Writers
<1> QED
  BY <1>1, DecodeShape DEF Next, Answer

\* A queue of signals with one more, and with one less.
LEMMA Signals ==
  ASSUME TypeOK
  PROVE  /\ \A l \in Layouts :
              /\ Append(signals, l) \in Seq(Layouts) /\ Append(signals, l) # <<>>
              /\ Append(signals, l)[Len(Append(signals, l))] = l
         /\ signals # <<>> =>
              /\ Head(signals) \in Layouts /\ Tail(signals) \in Seq(Layouts)
              /\ Tail(signals) = <<>> => Head(signals) = signals[Len(signals)]
              /\ Tail(signals) # <<>> =>
                   Tail(signals)[Len(Tail(signals))] = signals[Len(signals)]
<1>1. signals \in Seq(Layouts)
  BY DEF TypeOK
<1>2. ASSUME NEW l \in Layouts
      PROVE  /\ Append(signals, l) \in Seq(Layouts) /\ Append(signals, l) # <<>>
             /\ Append(signals, l)[Len(Append(signals, l))] = l
  <2>1. /\ Append(signals, l) \in Seq(Layouts) /\ Append(signals, l) # <<>>
        /\ Len(Append(signals, l)) = Len(signals) + 1
        /\ Append(signals, l)[Len(signals) + 1] = l
    BY <1>1, AppendProperties
  <2> QED
    BY <2>1
<1>3. ASSUME signals # <<>>
      PROVE  /\ Head(signals) \in Layouts /\ Tail(signals) \in Seq(Layouts)
             /\ Tail(signals) = <<>> => Head(signals) = signals[Len(signals)]
             /\ Tail(signals) # <<>> =>
                  Tail(signals)[Len(Tail(signals))] = signals[Len(signals)]
  <2>1. /\ Head(signals) \in Layouts /\ Tail(signals) \in Seq(Layouts)
        /\ Len(Tail(signals)) = Len(signals) - 1
        /\ \A i \in 1 .. Len(Tail(signals)) : Tail(signals)[i] = signals[i + 1]
    BY <1>1, <1>3, HeadTailProperties
  <2>2. Head(signals) = signals[1]
    BY <1>1, <1>3
  <2> DEFINE t == Tail(signals)
             n == Len(signals)
  <2>3. n \in Nat \ {0}
    BY <1>1, <1>3
  <2>4. t = <<>> => n = 1
    <3>1. Len(t) = n - 1
      BY <2>1
    <3> HIDE DEF t, n
    <3>2. t = <<>> => Len(t) = 0
      OBVIOUS
    <3> QED
      BY <2>3, <3>1, <3>2
  <2>5. t # <<>> => Len(t) \in 1 .. Len(t) /\ Len(t) + 1 = n
    BY <2>1, <2>3
  <2> HIDE DEF t, n
  <2>6. t # <<>> => t[Len(t)] = signals[n]
    BY <2>1, <2>5 DEF t
  <2> QED
    BY <2>1, <2>2, <2>4, <2>6 DEF t, n
<1> QED
  BY <1>2, <1>3

LEMMA InitInv == Init => IInv
<1> SUFFICES ASSUME Init PROVE IInv
  OBVIOUS
<1>1. TypeOK
  <2>1. /\ {requested, inHand, kwin, layout, latest} \subseteq Layouts \cup {NoLayout}
        /\ embedder = "idle" /\ disturbed = FALSE
    BY DEF Init
  <2>2. emitting \in [Writers -> Layouts \cup {NoLayout}]
    BY DEF Init
  <2>3. signals \in Seq(Layouts)
    BY DEF Init
  <2>4. requests \in 0 .. MaxRequests
    BY DisplayAssumption DEF Init
  <2> QED
    BY <2>1, <2>2, <2>3, <2>4 DEF TypeOK
<1>2. PendingInv /\ ChaseInv
  BY DEF Init, PendingInv, ChaseInv
<1> QED
  BY <1>1, <1>2 DEF IInv

LEMMA NextTypeOK == TypeOK /\ [Next]_vars => TypeOK'
<1> SUFFICES ASSUME TypeOK, [Next]_vars PROVE TypeOK'
  OBVIOUS
<1>1. ASSUME NEW w \in Writers, NEW l \in Layouts, Requests(w, l), requests' \in 0 .. MaxRequests,
             UNCHANGED <<signals, embedder, inHand, kwin, layout>>
      PROVE  TypeOK'
  <2>1. /\ requested' = l /\ latest' = l /\ disturbed' \in BOOLEAN
        /\ emitting' = [emitting EXCEPT ![w] = l]
    BY <1>1 DEF Requests, requestMonitorLayout, TypeOK
  <2> QED
    BY <1>1, <2>1 DEF TypeOK
<1>2. ASSUME Ignores, requests' \in 0 .. MaxRequests,
             UNCHANGED <<signals, embedder, inHand, kwin, layout>>
      PROVE  TypeOK'
  BY <1>2 DEF Ignores, IgnoreInvalid, TypeOK
<1>3. ASSUME NEW w \in Writers, Emit(w) PROVE TypeOK'
  <2>1. emitting[w] \in Layouts /\ signals' = Append(signals, emitting[w])
    BY <1>3 DEF Emit, Post, Signalled, TypeOK
  <2>2. signals' \in Seq(Layouts)
    BY <2>1, Signals
  <2>3. /\ UNCHANGED <<requested, embedder, inHand, kwin, layout, latest, disturbed, requests>>
        /\ emitting' = [emitting EXCEPT ![w] = NoLayout]
    BY <1>3 DEF Emit
  <2> QED
    BY <2>2, <2>3 DEF TypeOK
<1>4. CASE Deliver
  <2>1. inHand' \in Layouts /\ signals' \in Seq(Layouts)
    BY <1>4, Signals DEF Deliver
  <2> QED
    BY <1>4, <2>1 DEF Deliver, TypeOK
<1>5. CASE Applied
  BY <1>5 DEF Applied, TypeOK
<1>6. CASE Accept
  BY <1>6 DEF Accept, TypeOK
<1>7. CASE SetMonitorLayout
  BY <1>7 DEF SetMonitorLayout, TypeOK
<1>8. CASE Reject
  BY <1>8 DEF Reject, TypeOK
<1>9. CASE UNCHANGED vars
  BY <1>9 DEF vars, TypeOK
<1> QED
  BY Steps, <1>1, <1>2, <1>3, <1>4, <1>5, <1>6, <1>7, <1>8, <1>9

LEMMA NextPendingInv == TypeOK /\ PendingInv /\ [Next]_vars => PendingInv'
<1> SUFFICES ASSUME TypeOK, PendingInv, [Next]_vars PROVE PendingInv'
  OBVIOUS
<1> USE DEF PendingInv
<1>1. ASSUME NEW w \in Writers, NEW l \in Layouts, Requests(w, l),
             UNCHANGED <<signals, embedder, inHand, kwin, layout>>
      PROVE  PendingInv'
  BY <1>1 DEF Requests, requestMonitorLayout
<1>2. ASSUME Ignores, UNCHANGED <<signals, embedder, inHand, kwin, layout>> PROVE PendingInv'
  BY <1>2 DEF Ignores, IgnoreInvalid
<1>3. ASSUME NEW w \in Writers, Emit(w) PROVE PendingInv'
  BY <1>3 DEF Emit
<1>4. CASE Deliver
  BY <1>4 DEF Deliver
<1>5. CASE Applied
  BY <1>5 DEF Applied
<1>6. CASE Accept
  BY <1>6 DEF Accept
<1>7. CASE SetMonitorLayout
  BY <1>7 DEF SetMonitorLayout
<1>8. CASE Reject
  BY <1>8 DEF Reject
<1>9. CASE UNCHANGED vars
  BY <1>9 DEF vars
<1> QED
  BY Steps, <1>1, <1>2, <1>3, <1>4, <1>5, <1>6, <1>7, <1>8, <1>9

LEMMA NextChaseInv == TypeOK /\ PendingInv /\ ChaseInv /\ [Next]_vars => ChaseInv'
<1> SUFFICES ASSUME TypeOK, PendingInv, ChaseInv, [Next]_vars, ~disturbed' PROVE ChaseInv'
  BY DEF ChaseInv
<1> USE DEF ChaseInv, Quiet
<1>1. ASSUME NEW w \in Writers, NEW l \in Layouts, Requests(w, l),
             UNCHANGED <<signals, embedder, inHand, kwin, layout>>
      PROVE  ChaseInv'
  <2>1. /\ requested' = l /\ latest' = l /\ l # NoLayout
        /\ \A v \in Writers : emitting[v] = NoLayout
        /\ emitting' = [emitting EXCEPT ![w] = l]
    BY <1>1 DEF Requests, requestMonitorLayout, Layouts
  <2>2. \A v \in Writers : emitting'[v] = IF v = w THEN l ELSE NoLayout
    BY <2>1 DEF TypeOK
  <2> QED
    BY <2>1, <2>2
<1>2. ASSUME Ignores, UNCHANGED <<signals, embedder, inHand, kwin, layout>> PROVE ChaseInv'
  BY <1>2 DEF Ignores, IgnoreInvalid
<1>3. ASSUME NEW w \in Writers, Emit(w) PROVE ChaseInv'
  <2>1. /\ UNCHANGED <<requested, embedder, inHand, kwin, layout, latest, disturbed>>
        /\ emitting' = [emitting EXCEPT ![w] = NoLayout]
        /\ emitting[w] # NoLayout /\ signals' = Append(signals, emitting[w])
    BY <1>3 DEF Emit, Post, Signalled
  <2>2. emitting[w] \in Layouts /\ emitting[w] = latest
    BY <2>1 DEF TypeOK
  <2>3. signals' # <<>> /\ signals'[Len(signals')] = latest
    BY <2>1, <2>2, Signals
  <2>4. \A v \in Writers : emitting'[v] = IF v = w THEN NoLayout ELSE emitting[v]
    BY <2>1 DEF TypeOK
  <2> QED
    BY <2>1, <2>3, <2>4
<1>4. CASE Deliver
  <2>1. /\ signals # <<>> /\ inHand' = Head(signals) /\ signals' = Tail(signals)
        /\ embedder' = "applying" /\ embedder = "idle"
        /\ UNCHANGED <<requested, emitting, layout, latest, disturbed>>
    BY <1>4 DEF Deliver
  <2>2. /\ signals' = <<>> => inHand' = signals[Len(signals)]
        /\ signals' # <<>> => signals'[Len(signals')] = signals[Len(signals)]
    BY <2>1, Signals
  <2> QED
    BY <2>1, <2>2
<1>5. CASE Applied
  BY <1>5 DEF Applied
<1>6. CASE Accept
  <2>1. embedder = "applied" /\ kwin = inHand
        /\ UNCHANGED <<emitting, signals, inHand, kwin, layout, latest, disturbed>>
    BY <1>6 DEF Accept, PendingInv
  <2>2. CASE requested # NoLayout /\ requested = inHand
    <3>1. requested' = NoLayout /\ embedder' = "accepting" /\ inHand = latest
      BY <1>6, <2>2 DEF Accept, Pending, PendingInv
    <3> QED
      BY <2>1, <3>1
  <2>3. CASE requested = NoLayout \/ requested # inHand
    <3>1. requested' = requested /\ embedder' = "idle"
      BY <1>6, <2>3 DEF Accept, Pending
    <3>2. Quiet /\ signals = <<>> => requested = NoLayout
      BY <2>1, <2>3 DEF PendingInv
    <3> QED
      BY <2>1, <3>1, <3>2
  <2> QED
    BY <2>2, <2>3
<1>7. CASE SetMonitorLayout
  BY <1>7 DEF SetMonitorLayout
<1>8. CASE Reject
  BY <1>8 DEF Reject
<1>9. CASE UNCHANGED vars
  BY <1>9 DEF vars
<1> QED
  BY Steps, <1>1, <1>2, <1>3, <1>4, <1>5, <1>6, <1>7, <1>8, <1>9

LEMMA NextInv == IInv /\ [Next]_vars => IInv'
  BY NextTypeOK, NextPendingInv, NextChaseInv DEF IInv

LEMMA InvAlways == Spec => []IInv
  BY InitInv, NextInv, PTL DEF Spec

-----------------------------------------------------------------------------
\* However requests, their signals and the embedder's answers cross: once all has
\* been dealt with, the client's last valid request, the compositor and the video
\* stream agree, and nothing is pending (requestMonitorLayout,
\* acceptRequestedMonitorLayout).
THEOREM AlwaysDisplayInv == Spec => []DisplayInv
<1>1. IInv => DisplayInv
  <2>1. IInv => SettledAgree
    BY DEF IInv, ChaseInv, Quiet, SettledAgree
  <2> QED
    BY <2>1 DEF IInv, DisplayInv
<1> QED
  BY InvAlways, <1>1, PTL

\* acceptRequestedMonitorLayout never lets a layout through that the client has
\* superseded, or that the compositor is not in.
THEOREM AlwaysAcceptedIsLatest == Spec => AcceptedIsLatest
<1>1. IInv /\ [Next]_vars =>
        [embedder = "applied" /\ embedder' = "accepting" => inHand = latest /\ kwin = inHand]_vars
  <2> SUFFICES ASSUME IInv, [Next]_vars, embedder = "applied", embedder' = "accepting"
               PROVE  inHand = latest /\ kwin = inHand
    OBVIOUS
  <2>1. Accept
    <3>1. TypeOK
      BY DEF IInv
    <3>2. \A w : ~ Emit(w)
      BY DEF Emit
    <3> QED
      BY <3>1, <3>2, Steps DEF Deliver, Applied, SetMonitorLayout, Reject, vars
  <2> QED
    BY <2>1 DEF Accept, Pending, IInv, PendingInv
<1> QED
  BY InvAlways, <1>1, PTL DEF Spec, AcceptedIsLatest

-----------------------------------------------------------------------------
(* Largest and smallest.                                                    *)

\* The largest and the smallest of a set, and of two.
LEMMA MaxIs == ASSUME NEW S \in SUBSET Int, NEW m \in S, \A x \in S : x <= m
               PROVE  Max(S) = m
<1>1. \A x \in S : (\A y \in S : x >= y) => x = m
  OBVIOUS
<1>2. \A y \in S : m >= y
  OBVIOUS
<1> QED
  BY <1>1, <1>2 DEF Max

LEMMA MinIs == ASSUME NEW S \in SUBSET Int, NEW m \in S, \A x \in S : m <= x
               PROVE  Min(S) = m
<1>1. \A x \in S : (\A y \in S : x =< y) => x = m
  OBVIOUS
<1> QED
  BY <1>1 DEF Min

LEMMA OfTwo == ASSUME NEW a \in Int, NEW b \in Int
               PROVE  /\ Max({a, b}) = IF a <= b THEN b ELSE a
                      /\ Min({a, b}) = IF a <= b THEN a ELSE b
<1>1. CASE a <= b
  <2>1. Max({a, b}) = b
    BY <1>1, MaxIs
  <2>2. Min({a, b}) = a
    BY <1>1, MinIs
  <2> QED
    BY <1>1, <2>1, <2>2
<1>2. CASE ~(a <= b)
  <2>1. Max({a, b}) = a
    BY <1>2, MaxIs
  <2>2. Min({a, b}) = b
    BY <1>2, MinIs
  <2> QED
    BY <1>2, <2>1, <2>2
<1> QED
  BY <1>1, <1>2

-----------------------------------------------------------------------------
(* The loop of decodeMonitorLayout.                                         *)

\* f is the fold over every set of the first k records.
FoldsTo(ms, k, f) ==
  f = [s \in SUBSET (1..k) |->
         IF s = {} THEN Begin ELSE Turn(f[s \ {Max(s)}], ms[Max(s)])]

\* The fold over the sets of k records extends to those of one more.
LEMMA FoldExtends ==
  ASSUME NEW ms, NEW k \in Nat, NEW f, FoldsTo(ms, k, f)
  PROVE  \E g : FoldsTo(ms, k + 1, g)
<1> DEFINE g == [s \in SUBSET (1..(k + 1)) |->
                   IF k + 1 \in s THEN Turn(f[s \ {k + 1}], ms[k + 1]) ELSE f[s]]
<1>1. ASSUME NEW s \in SUBSET (1..(k + 1))
      PROVE  g[s] = IF s = {} THEN Begin ELSE Turn(g[s \ {Max(s)}], ms[Max(s)])
  <2>1. CASE k + 1 \in s
    <3>1. Max(s) = k + 1
      BY <2>1, MaxIs
    <3>2. s \ {k + 1} \in SUBSET (1..(k + 1)) /\ k + 1 \notin s \ {k + 1}
      OBVIOUS
    <3>3. g[s \ {k + 1}] = f[s \ {k + 1}]
      BY <3>2
    <3>4. g[s] = Turn(f[s \ {k + 1}], ms[k + 1])
      BY <2>1
    <3> QED
      BY <2>1, <3>1, <3>3, <3>4
  <2>2. CASE k + 1 \notin s
    <3>1. s \in SUBSET (1..k)
      BY <2>2
    <3>2. f[s] = IF s = {} THEN Begin ELSE Turn(f[s \ {Max(s)}], ms[Max(s)])
      BY <3>1 DEF FoldsTo
    <3>3. s \ {Max(s)} \in SUBSET (1..(k + 1)) /\ k + 1 \notin s \ {Max(s)}
      BY <2>2
    <3>4. g[s \ {Max(s)}] = f[s \ {Max(s)}]
      BY <3>3
    <3>5. g[s] = f[s]
      BY <2>2
    <3> QED
      BY <3>2, <3>4, <3>5
  <2> QED
    BY <2>1, <2>2
<1>2. g = [s \in SUBSET (1..(k + 1)) |-> g[s]]
  OBVIOUS
<1> HIDE DEF g
<1>3. g = [s \in SUBSET (1..(k + 1)) |->
             IF s = {} THEN Begin ELSE Turn(g[s \ {Max(s)}], ms[Max(s)])]
  BY <1>1, <1>2
<1> QED
  BY <1>3 DEF FoldsTo

\* A statement about numbers holds of all, when the next one never breaks it: of
\* the numbers it does not hold of there would be a least one.
LEMMA NoLeast ==
  ASSUME NEW n \in Nat, NEW S \in SUBSET (0..n), 0 \in S,
         \A k \in 0..n : k \in S /\ k < n => k + 1 \in S
  PROVE  S = 0..n
<1> DEFINE T == (0..n) \ S
<1> SUFFICES ASSUME T # {} PROVE FALSE
  OBVIOUS
<1>1. T \subseteq Nat
  OBVIOUS
<1>2. PICK x \in T : \A y \in T : <<y, x>> \notin OpToRel(<, Nat)
  BY <1>1, NatLessThanWellFounded, WFMin
<1>3. x \in 0..n /\ x # 0 /\ x - 1 \in 0..n
  OBVIOUS
<1>4. x - 1 \notin S
  BY <1>3
<1>5. x - 1 \in T
  BY <1>3, <1>4
<1> HIDE DEF T
<1>6. <<x - 1, x>> \in Nat \X Nat /\ <<x - 1, x>>[1] = x - 1 /\ <<x - 1, x>>[2] = x
  BY <1>3
<1>7. <<x - 1, x>> \notin {p \in Nat \X Nat : p[1] < p[2]}
  BY <1>2, <1>5 DEF OpToRel
<1>8. ~ (x - 1 < x)
  BY <1>6, <1>7, Zenon
<1> QED
  BY <1>3, <1>8

\* There is the fold over any number of records.
LEMMA FoldExists ==
  ASSUME NEW ms, NEW n \in Nat
  PROVE  \E f : FoldsTo(ms, n, f)
<1> DEFINE S == {k \in 0..n : \E f : FoldsTo(ms, k, f)}
<1>1. 0 \in S
  <2> DEFINE f == [s \in SUBSET (1..0) |-> Begin]
  <2>1. SUBSET (1..0) = {{}}
    OBVIOUS
  <2>2. f = [s \in SUBSET (1..0) |->
               IF s = {} THEN Begin ELSE Turn(f[s \ {Max(s)}], ms[Max(s)])]
    BY <2>1
  <2> QED
    BY <2>2 DEF FoldsTo
<1>2. \A k \in 0..n : k \in S /\ k < n => k + 1 \in S
  BY FoldExtends
<1>3. S = 0..n
  <2>1. S \in SUBSET (0..n)
    OBVIOUS
  <2> HIDE DEF S
  <2> QED
    BY <1>1, <1>2, <2>1, NoLeast
<1> QED
  BY <1>3

\* The variables of the loop when it has seen the first k records.
LoopFold(ms) == CHOOSE f : FoldsTo(ms, Len(ms), f)
Loop(ms, k) == LoopFold(ms)[1..k]

\* FoldLeft runs the loop: each turn takes one more record.
LEMMA LoopTurns ==
  ASSUME NEW ms \in Seq(MonitorRecord)
  PROVE  /\ FoldLeft(Turn, Begin, ms) = Loop(ms, Len(ms))
         /\ Loop(ms, 0) = Begin
         /\ \A k \in 1..Len(ms) : Loop(ms, k) = Turn(Loop(ms, k - 1), ms[k])
<1>1. DOMAIN ms = 1..Len(ms) /\ Len(ms) \in Nat
  BY LenProperties
<1>2. FoldLeft(Turn, Begin, ms) = Loop(ms, Len(ms))
  BY <1>1 DEF FoldLeft, MapThenFoldSet, Loop, LoopFold, FoldsTo
<1> DEFINE n == Len(ms)
           f == LoopFold(ms)
<1>3. FoldsTo(ms, n, f)
  BY <1>1, FoldExists DEF LoopFold
<1> HIDE DEF n, f
<1>4. \A s \in SUBSET (1..n) :
        f[s] = IF s = {} THEN Begin ELSE Turn(f[s \ {Max(s)}], ms[Max(s)])
  BY <1>3 DEF FoldsTo
<1>5. f[1..0] = Begin
  <2>1. 1..0 = {}
    OBVIOUS
  <2> QED
    BY <1>4, <2>1
<1>6. ASSUME NEW k \in 1..n PROVE f[1..k] = Turn(f[1..(k - 1)], ms[k])
  <2>1. n \in Nat /\ k \in Nat /\ 1 <= k /\ k <= n
    BY <1>1 DEF n
  <2>2. 1..k \in SUBSET (1..n) /\ 1..k \in SUBSET Int /\ k \in 1..k
    BY <2>1
  <2>4. Max(1..k) = k
    <3>1. \A x \in 1..k : x <= k
      BY <2>1
    <3> QED
      BY <2>2, <3>1, MaxIs
  <2>3. (1..k) \ {k} = 1..(k - 1)
    BY <2>1
  <2> QED
    BY <1>4, <2>2, <2>3, <2>4
<1> QED
  BY <1>2, <1>5, <1>6 DEF Loop, n, f

-----------------------------------------------------------------------------
(* What the loop has found.                                                 *)

\* The first k records pass the checks made of each.
Good(ms, k) ==
  \A i \in 1..k : /\ SupportedSize(ms[i]) /\ ~MisplacedPrimary(ms[i])
                  /\ \A j \in 1..(i - 1) : ~Intersects(ms[i], ms[j])

\* The box is the least around the first k records.
Encloses(ms, k, b) ==
  /\ b.minX \in Int /\ b.minY \in Int /\ b.maxX \in Int /\ b.maxY \in Int
  /\ \A i \in 1..k : /\ b.minX <= ms[i].left /\ Right(ms[i]) <= b.maxX
                     /\ b.minY <= ms[i].top /\ Bottom(ms[i]) <= b.maxY
  /\ \E i \in 1..k : ms[i].left = b.minX
  /\ \E i \in 1..k : ms[i].top = b.minY
  /\ \E i \in 1..k : Right(ms[i]) = b.maxX
  /\ \E i \in 1..k : Bottom(ms[i]) = b.maxY

\* c is the number of primaries, as far as it matters.
Primaries(ms, k, c) ==
  /\ c \in Nat
  /\ c = 0 <=> \A i \in 1..k : ~ms[i].primary
  /\ c = 1 <=> \E i \in 1..k : \A j \in 1..k : ms[j].primary <=> i = j

IsDecoding(d) == "valid" \in DOMAIN d

\* The loop's variables after k records.
LoopInv(ms, k, d) ==
  /\ IsDecoding(d) /\ d.valid \in BOOLEAN
  /\ d.valid <=> Good(ms, k)
  /\ d.valid =>
       /\ d.decoded \in Seq(MonitorRecord) /\ Len(d.decoded) = k
       /\ \A i \in 1..k : d.decoded[i] = ms[i]
       /\ Primaries(ms, k, d.primaryCount)
       /\ k # 0 => Encloses(ms, k, d.box)

\* What a record of a list has.
LEMMA Records ==
  ASSUME NEW ms \in Seq(MonitorRecord), NEW i \in 1..Len(ms)
  PROVE  /\ ms[i] \in MonitorRecord /\ ms[i].left \in Int /\ ms[i].top \in Int
         /\ ms[i].width \in Nat /\ ms[i].height \in Nat /\ ms[i].primary \in BOOLEAN
         /\ Right(ms[i]) \in Int /\ Bottom(ms[i]) \in Int
<1>1. ms[i] \in MonitorRecord
  BY ElementOfSeq
<1>2. /\ ms[i].left \in Int /\ ms[i].top \in Int
      /\ ms[i].width \in Nat /\ ms[i].height \in Nat /\ ms[i].primary \in BOOLEAN
  BY <1>1 DEF MonitorRecord
<1> QED
  BY <1>1, <1>2 DEF Right, Bottom

\* Bounds of bounds are bounds.
LEMMA AtMost ==
  \A a, b, c : a \in Int /\ b \in Int /\ c \in Int /\ a <= b /\ b <= c => a <= c
OBVIOUS

\* A turn of the loop grows the box to the least around one more record.
LEMMA BoxGrows ==
  ASSUME NEW ms \in Seq(MonitorRecord), NEW k \in 1..Len(ms), NEW b,
         k # 1 => Encloses(ms, k - 1, b)
  PROVE  Encloses(ms, k, IF k = 1 THEN Box(ms[k]) ELSE Extend(b, ms[k]))
<1> DEFINE w == ms[k]
<1>1. /\ w.left \in Int /\ w.top \in Int /\ Right(w) \in Int /\ Bottom(w) \in Int
      /\ k \in Nat /\ 1 <= k /\ k \in 1..k
  <2>1. Len(ms) \in Nat
    BY LenProperties
  <2> QED
    BY <2>1, Records
<1>2. CASE k = 1
  <2>1. Box(w) = [minX |-> w.left, minY |-> w.top, maxX |-> Right(w), maxY |-> Bottom(w)]
    BY DEF Box
  <2>2. \A i \in 1..k : i = k
    BY <1>2
  <2> HIDE DEF w
  <2> QED
    BY <1>1, <1>2, <2>1, <2>2 DEF Encloses, w
<1>3. CASE k # 1
  <2> DEFINE e == Extend(b, w)
  <2>1. Encloses(ms, k - 1, b)
    BY <1>3
  <2>2. /\ b.minX \in Int /\ b.minY \in Int /\ b.maxX \in Int /\ b.maxY \in Int
    BY <2>1 DEF Encloses
  <2>3. /\ e.minX = IF b.minX <= w.left THEN b.minX ELSE w.left
        /\ e.minY = IF b.minY <= w.top THEN b.minY ELSE w.top
        /\ e.maxX = IF b.maxX <= Right(w) THEN Right(w) ELSE b.maxX
        /\ e.maxY = IF b.maxY <= Bottom(w) THEN Bottom(w) ELSE b.maxY
    BY <1>1, <2>2, OfTwo DEF Extend
  <2>4. \A i \in 1..k : i = k \/ i \in 1..(k - 1)
    BY <1>1
  <2>5. \A i \in 1..(k - 1) : /\ i \in 1..k
                              /\ ms[i].left \in Int /\ ms[i].top \in Int
                              /\ Right(ms[i]) \in Int /\ Bottom(ms[i]) \in Int
    <3>1. Len(ms) \in Nat
      BY LenProperties
    <3>2. \A i \in 1..(k - 1) : i \in 1..Len(ms) /\ i \in 1..k
      BY <1>1, <3>1
    <3> QED
      BY <3>2, Records
  <2> HIDE DEF e
  <2>6. /\ e.minX \in Int /\ e.minY \in Int /\ e.maxX \in Int /\ e.maxY \in Int
    BY <1>1, <2>2, <2>3
  <2>7. \A i \in 1..k : /\ e.minX <= ms[i].left /\ Right(ms[i]) <= e.maxX
                        /\ e.minY <= ms[i].top /\ Bottom(ms[i]) <= e.maxY
    <3>1. /\ e.minX <= w.left /\ Right(w) <= e.maxX /\ e.minY <= w.top /\ Bottom(w) <= e.maxY
          /\ e.minX <= b.minX /\ b.maxX <= e.maxX /\ e.minY <= b.minY /\ b.maxY <= e.maxY
      BY <1>1, <2>2, <2>3
    <3>2. ASSUME NEW i \in 1..(k - 1)
          PROVE  /\ e.minX <= ms[i].left /\ Right(ms[i]) <= e.maxX
                 /\ e.minY <= ms[i].top /\ Bottom(ms[i]) <= e.maxY
      <4>1. /\ b.minX <= ms[i].left /\ Right(ms[i]) <= b.maxX
            /\ b.minY <= ms[i].top /\ Bottom(ms[i]) <= b.maxY
        BY <2>1 DEF Encloses
      <4>2. /\ ms[i].left \in Int /\ ms[i].top \in Int
            /\ Right(ms[i]) \in Int /\ Bottom(ms[i]) \in Int
        BY <2>5
      <4>3. e.minX <= ms[i].left /\ Right(ms[i]) <= e.maxX
        BY <2>2, <2>6, <3>1, <4>1, <4>2, AtMost
      <4>4. e.minY <= ms[i].top /\ Bottom(ms[i]) <= e.maxY
        BY <2>2, <2>6, <3>1, <4>1, <4>2, AtMost
      <4> QED
        BY <4>3, <4>4
    <3> QED
      BY <2>4, <3>1, <3>2
  <2>8. \E i \in 1..k : ms[i].left = e.minX
    BY <1>1, <2>1, <2>3, <2>5 DEF Encloses
  <2>9. \E i \in 1..k : ms[i].top = e.minY
    BY <1>1, <2>1, <2>3, <2>5 DEF Encloses
  <2>10. \E i \in 1..k : Right(ms[i]) = e.maxX
    BY <1>1, <2>1, <2>3, <2>5 DEF Encloses
  <2>11. \E i \in 1..k : Bottom(ms[i]) = e.maxY
    BY <1>1, <2>1, <2>3, <2>5 DEF Encloses
  <2>12. Encloses(ms, k, e)
    BY <2>6, <2>7, <2>8, <2>9, <2>10, <2>11 DEF Encloses
  <2> QED
    BY <1>3, <2>12 DEF e
<1> QED
  BY <1>2, <1>3

\* And counts one more primary, if it is one.
LEMMA PrimariesGrow ==
  ASSUME NEW ms \in Seq(MonitorRecord), NEW k \in 1..Len(ms), NEW c,
         Primaries(ms, k - 1, c)
  PROVE  Primaries(ms, k, c + (IF ms[k].primary THEN 1 ELSE 0))
<1>1. k \in Nat /\ 1 <= k /\ k \in 1..k /\ c \in Nat
  <2>1. Len(ms) \in Nat
    BY LenProperties
  <2> QED
    BY <2>1 DEF Primaries
<1>2. \A i \in 1..k : i = k \/ i \in 1..(k - 1)
  BY <1>1
<1>3. \A i \in 1..(k - 1) : i \in 1..k /\ i # k
  BY <1>1
<1> DEFINE count == c + (IF ms[k].primary THEN 1 ELSE 0)
<1>4. CASE ms[k].primary
  <2>1. count \in Nat /\ count # 0 /\ (count = 1 <=> c = 0)
    BY <1>1, <1>4
  <2>2. ~(\A i \in 1..k : ~ms[i].primary)
    BY <1>1, <1>4
  <2>3. (\E i \in 1..k : \A j \in 1..k : ms[j].primary <=> i = j)
          <=> \A i \in 1..(k - 1) : ~ms[i].primary
    BY <1>1, <1>2, <1>3, <1>4
  <2> HIDE DEF count
  <2>4. Primaries(ms, k, count)
    BY <2>1, <2>2, <2>3 DEF Primaries
  <2> QED
    BY <2>4 DEF count
<1>5. CASE ~ms[k].primary
  <2>1. count = c
    BY <1>1, <1>5
  <2>2. (\A i \in 1..k : ~ms[i].primary) <=> (\A i \in 1..(k - 1) : ~ms[i].primary)
    BY <1>2, <1>3, <1>5
  <2>3. (\E i \in 1..k : \A j \in 1..k : ms[j].primary <=> i = j)
          <=> \E i \in 1..(k - 1) : \A j \in 1..(k - 1) : ms[j].primary <=> i = j
    BY <1>1, <1>2, <1>3, <1>5
  <2> HIDE DEF count
  <2>4. Primaries(ms, k, count)
    BY <1>1, <2>1, <2>2, <2>3 DEF Primaries
  <2> QED
    BY <2>4 DEF count
<1> QED
  BY <1>4, <1>5

\* The variables of the loop as a record.
LEMMA Fields ==
  ASSUME NEW d, NEW v, NEW ms, NEW c, NEW b,
         d = [valid |-> v, decoded |-> ms, primaryCount |-> c, box |-> b]
  PROVE  /\ IsDecoding(d)
         /\ d.valid = v /\ d.decoded = ms /\ d.primaryCount = c /\ d.box = b
BY DEF IsDecoding

\* A record that fails a check leaves the rest of them alone.
LEMMA Rejects ==
  ASSUME NEW d, IsDecoding(d)
  PROVE  IsDecoding([d EXCEPT !.valid = FALSE]) /\ [d EXCEPT !.valid = FALSE].valid = FALSE
BY DEF IsDecoding

\* Every turn keeps what the loop has found.
LEMMA TurnKeeps ==
  ASSUME NEW ms \in Seq(MonitorRecord), NEW k \in 1..Len(ms), NEW d, LoopInv(ms, k - 1, d)
  PROVE  LoopInv(ms, k, Turn(d, ms[k]))
<1> DEFINE w == ms[k]
           ok == d.valid /\ SupportedSize(w) /\ ~MisplacedPrimary(w) /\ ~Overlaps(d.decoded, w)
           box == IF d.decoded = <<>> THEN Box(w) ELSE Extend(d.box, w)
           count == d.primaryCount + (IF w.primary THEN 1 ELSE 0)
<1>1. k \in Nat /\ 1 <= k /\ k \in 1..k /\ w \in MonitorRecord
  <2>1. Len(ms) \in Nat
    BY LenProperties
  <2> QED
    BY <2>1, Records
<1>2. \A i \in 1..k : i = k \/ i \in 1..(k - 1)
  BY <1>1
<1>3. \A i \in 1..(k - 1) : i \in 1..k
  BY <1>1
<1>4. Good(ms, k) <=> /\ Good(ms, k - 1) /\ SupportedSize(w) /\ ~MisplacedPrimary(w)
                      /\ \A j \in 1..(k - 1) : ~Intersects(w, ms[j])
  BY <1>1, <1>2, <1>3 DEF Good
<1>5. ASSUME d.valid
      PROVE  /\ d.decoded \in Seq(MonitorRecord) /\ Len(d.decoded) = k - 1
             /\ DOMAIN d.decoded = 1..(k - 1)
             /\ \A i \in 1..(k - 1) : d.decoded[i] = ms[i]
             /\ Primaries(ms, k - 1, d.primaryCount)
             /\ k - 1 # 0 => Encloses(ms, k - 1, d.box)
  BY <1>5, LenProperties DEF LoopInv
<1>6. ok <=> Good(ms, k)
  <2>1. d.valid => (Overlaps(d.decoded, w) <=> \E j \in 1..(k - 1) : Intersects(w, ms[j]))
    BY <1>5 DEF Overlaps
  <2>2. d.valid <=> Good(ms, k - 1)
    BY DEF LoopInv
  <2> QED
    BY <1>4, <2>1, <2>2
<1>7. CASE ok
  <2>1. Turn(d, w) = [valid |-> TRUE, decoded |-> Append(d.decoded, w),
                      primaryCount |-> count, box |-> box]
    BY <1>7 DEF Turn
  <2>2. /\ Append(d.decoded, w) \in Seq(MonitorRecord)
        /\ Len(Append(d.decoded, w)) = k
        /\ \A i \in 1..k : Append(d.decoded, w)[i] = ms[i]
    <3>1. /\ Append(d.decoded, w) \in Seq(MonitorRecord)
          /\ Len(Append(d.decoded, w)) = Len(d.decoded) + 1
          /\ \A i \in 1..Len(d.decoded) : Append(d.decoded, w)[i] = d.decoded[i]
          /\ Append(d.decoded, w)[Len(d.decoded) + 1] = w
      BY <1>1, <1>5, <1>7, AppendProperties
    <3>2. Len(d.decoded) = k - 1 /\ Len(d.decoded) + 1 = k
      BY <1>1, <1>5, <1>7
    <3> QED
      BY <1>2, <1>5, <1>7, <3>1, <3>2
  <2>3. Primaries(ms, k, count)
    BY <1>5, <1>7, PrimariesGrow
  <2>4. Encloses(ms, k, box)
    <3>1. d.decoded = <<>> <=> k = 1
      BY <1>1, <1>5, <1>7, EmptySeq
    <3>2. k # 1 => Encloses(ms, k - 1, d.box)
      BY <1>1, <1>5, <1>7
    <3>3. Encloses(ms, k, IF k = 1 THEN Box(ms[k]) ELSE Extend(d.box, ms[k]))
      BY <3>2, BoxGrows
    <3> QED
      BY <3>1, <3>3
  <2> DEFINE t == Turn(d, w)
  <2>5. /\ IsDecoding(t) /\ t.valid = TRUE /\ t.decoded = Append(d.decoded, w)
        /\ t.primaryCount = count /\ t.box = box
    <3> HIDE DEF count, box, w, t
    <3>1. t = [valid |-> TRUE, decoded |-> Append(d.decoded, w),
               primaryCount |-> count, box |-> box]
      BY <2>1 DEF t
    <3> QED
      BY <3>1, Fields
  <2>6. Good(ms, k)
    BY <1>6, <1>7
  <2> HIDE DEF count, box, t
  <2>7. LoopInv(ms, k, t)
    BY <2>2, <2>3, <2>4, <2>5, <2>6 DEF LoopInv
  <2> QED
    BY <2>7 DEF t
<1>8. CASE ~ok
  <2> DEFINE t == Turn(d, w)
  <2>1. t = [d EXCEPT !.valid = FALSE]
    BY <1>8 DEF Turn
  <2>2. IsDecoding(d)
    BY DEF LoopInv
  <2>4. IsDecoding(t) /\ t.valid = FALSE
    BY <2>1, <2>2, Rejects
  <2>5. ~Good(ms, k)
    BY <1>6, <1>8
  <2> HIDE DEF t
  <2>6. LoopInv(ms, k, t)
    BY <2>4, <2>5 DEF LoopInv
  <2> QED
    BY <2>6 DEF t
<1> QED
  BY <1>7, <1>8

\* So the loop has found it of the whole list.
LEMMA LoopFinds ==
  ASSUME NEW ms \in Seq(MonitorRecord)
  PROVE  LoopInv(ms, Len(ms), FoldLeft(Turn, Begin, ms))
<1> DEFINE n == Len(ms)
           S == {k \in 0..n : LoopInv(ms, k, Loop(ms, k))}
<1>1. n \in Nat
  BY LenProperties
<1>2. 0 \in S
  <2>1. LoopInv(ms, 0, Begin)
    <3>1. /\ IsDecoding(Begin) /\ Begin.valid = TRUE /\ Begin.decoded = <<>>
          /\ Begin.primaryCount = 0
      BY Fields DEF Begin
    <3>2. Good(ms, 0)
      BY DEF Good
    <3>3. Primaries(ms, 0, 0)
      BY DEF Primaries
    <3>4. <<>> \in Seq(MonitorRecord) /\ Len(<<>>) = 0
      BY EmptySeq
    <3>5. Primaries(ms, 0, Begin.primaryCount)
      BY <3>1, <3>3
    <3>6. Begin.decoded \in Seq(MonitorRecord) /\ Len(Begin.decoded) = 0
      BY <3>1, <3>4
    <3>7. \A i \in 1..0 : Begin.decoded[i] = ms[i]
      OBVIOUS
    <3> QED
      BY <3>1, <3>2, <3>5, <3>6, <3>7 DEF LoopInv
  <2>2. Loop(ms, 0) = Begin
    BY LoopTurns
  <2>3. LoopInv(ms, 0, Loop(ms, 0)) /\ 0 \in 0..n
    BY <1>1, <2>1, <2>2
  <2> QED
    BY <2>3
<1>3. ASSUME NEW k \in 0..n, k \in S, k < n PROVE k + 1 \in S
  <2>1. k + 1 \in 1..n /\ (k + 1) - 1 = k
    BY <1>1, <1>3
  <2>2. LoopInv(ms, (k + 1) - 1, Loop(ms, k))
    BY <1>3, <2>1
  <2>3. LoopInv(ms, k + 1, Turn(Loop(ms, k), ms[k + 1]))
    BY <2>1, <2>2, TurnKeeps
  <2>4. Loop(ms, k + 1) = Turn(Loop(ms, k), ms[k + 1])
    BY <2>1, LoopTurns
  <2> QED
    BY <1>1, <2>1, <2>3, <2>4
<1>4. S = 0..n
  <2>1. S \in SUBSET (0..n)
    OBVIOUS
  <2> HIDE DEF S, n
  <2> QED
    BY <1>1, <1>2, <1>3, <2>1, NoLeast
<1>5. n \in S
  BY <1>1, <1>4
<1> QED
  BY <1>5, LoopTurns

-----------------------------------------------------------------------------
(* Rectangles and pixels.                                                   *)

Rectangle(w) == /\ w.left \in Int /\ w.top \in Int
                /\ w.width \in Nat \ {0} /\ w.height \in Nat \ {0}

\* Rectangles intersect when they share a pixel.
LEMMA Shares ==
  ASSUME NEW a, NEW b, Rectangle(a), Rectangle(b)
  PROVE  Intersects(a, b) <=> Pixels(a) \cap Pixels(b) # {}
<1> USE DEF Rectangle, Right, Bottom
<1>1. ASSUME Intersects(a, b) PROVE Pixels(a) \cap Pixels(b) # {}
  <2> DEFINE x == IF a.left <= b.left THEN b.left ELSE a.left
             y == IF a.top <= b.top THEN b.top ELSE a.top
  <2>1. /\ x \in a.left..(Right(a) - 1) /\ x \in b.left..(Right(b) - 1)
        /\ y \in a.top..(Bottom(a) - 1) /\ y \in b.top..(Bottom(b) - 1)
    BY <1>1 DEF Intersects
  <2> HIDE DEF x, y
  <2>2. <<x, y>> \in Pixels(a) /\ <<x, y>> \in Pixels(b)
    BY <2>1 DEF Pixels
  <2> QED
    BY <2>2
<1>2. ASSUME NEW p \in Pixels(a), p \in Pixels(b) PROVE Intersects(a, b)
  <2>1. /\ p[1] \in a.left..(Right(a) - 1) /\ p[1] \in b.left..(Right(b) - 1)
        /\ p[2] \in a.top..(Bottom(a) - 1) /\ p[2] \in b.top..(Bottom(b) - 1)
    BY <1>2 DEF Pixels
  <2> QED
    BY <2>1 DEF Intersects
<1> QED
  BY <1>1, <1>2

\* Two that share none are adjacent when one has a pixel in the other's halo.
LEMMA Touches ==
  ASSUME NEW a, NEW b, Rectangle(a), Rectangle(b), ~Intersects(a, b)
  PROVE  Adjacent(a, b) <=> Halo(a) \cap Pixels(b) # {}
<1> USE DEF Rectangle, Right, Bottom
<1> DEFINE Close == /\ a.left <= Right(b) /\ b.left <= Right(a)
                    /\ a.top <= Bottom(b) /\ b.top <= Bottom(a)
<1>1. Adjacent(a, b) <=> Close
  <2>1. Reaches(Max({a.top, b.top}), Min({Bottom(a), Bottom(b)}))
          <=> a.top <= Bottom(b) /\ b.top <= Bottom(a)
    <3>1. /\ a.top \in Int /\ b.top \in Int /\ Bottom(a) \in Int /\ Bottom(b) \in Int
          /\ a.top <= Bottom(a) /\ b.top <= Bottom(b)
      OBVIOUS
    <3>2. /\ Max({a.top, b.top}) = IF a.top <= b.top THEN b.top ELSE a.top
          /\ Min({Bottom(a), Bottom(b)}) = IF Bottom(a) <= Bottom(b) THEN Bottom(a)
                                           ELSE Bottom(b)
      BY <3>1, OfTwo
    <3> QED
      BY <3>1, <3>2 DEF Reaches
  <2>2. Reaches(Max({a.left, b.left}), Min({Right(a), Right(b)}))
          <=> a.left <= Right(b) /\ b.left <= Right(a)
    <3>1. /\ a.left \in Int /\ b.left \in Int /\ Right(a) \in Int /\ Right(b) \in Int
          /\ a.left <= Right(a) /\ b.left <= Right(b)
      OBVIOUS
    <3>2. /\ Max({a.left, b.left}) = IF a.left <= b.left THEN b.left ELSE a.left
          /\ Min({Right(a), Right(b)}) = IF Right(a) <= Right(b) THEN Right(a)
                                         ELSE Right(b)
      BY <3>1, OfTwo
    <3> QED
      BY <3>1, <3>2 DEF Reaches
  <2>3. Adjacent(a, b) <=>
          \/ /\ Right(a) = b.left \/ Right(b) = a.left
             /\ a.top <= Bottom(b) /\ b.top <= Bottom(a)
          \/ /\ Bottom(a) = b.top \/ Bottom(b) = a.top
             /\ a.left <= Right(b) /\ b.left <= Right(a)
    BY <2>1, <2>2 DEF Adjacent
  <2> QED
    BY <2>3 DEF Intersects
<1>2. ASSUME Close PROVE Halo(a) \cap Pixels(b) # {}
  <2> DEFINE x == IF b.left <= a.left - 1 THEN a.left - 1 ELSE b.left
             y == IF b.top <= a.top - 1 THEN a.top - 1 ELSE b.top
  <2>1. /\ x \in (a.left - 1)..Right(a) /\ x \in b.left..(Right(b) - 1)
        /\ y \in (a.top - 1)..Bottom(a) /\ y \in b.top..(Bottom(b) - 1)
    BY <1>2
  <2> HIDE DEF x, y
  <2>2. <<x, y>> \in Halo(a) /\ <<x, y>> \in Pixels(b)
    BY <2>1 DEF Halo, Pixels
  <2> QED
    BY <2>2
<1>3. ASSUME NEW p \in Halo(a), p \in Pixels(b) PROVE Close
  <2>1. /\ p[1] \in (a.left - 1)..Right(a) /\ p[1] \in b.left..(Right(b) - 1)
        /\ p[2] \in (a.top - 1)..Bottom(a) /\ p[2] \in b.top..(Bottom(b) - 1)
    BY <1>3 DEF Halo, Pixels
  <2> QED
    BY <2>1
<1> QED
  BY <1>1, <1>2, <1>3

\* A pixel inside a monitor is inside the box around it.
LEMMA Inside ==
  ASSUME NEW l \in Int, NEW h \in Int, NEW m \in Int, NEW n \in Int, m <= l, h <= n,
         NEW x \in l..(h - 1)
  PROVE  x \in Int /\ m <= x /\ x <= n - 1
OBVIOUS

\* The columns and the rows shown are those of the box.
LEMMA Spans ==
  ASSUME NEW ms, NEW n \in Nat, DOMAIN ms = 1..n, \A i \in 1..n : Rectangle(ms[i]),
         NEW b, Encloses(ms, n, b)
  PROVE  LET AllPixels == UNION {Pixels(ms[i]) : i \in DOMAIN ms}
         IN  /\ Span({p[1] : p \in AllPixels}) = b.maxX - b.minX
             /\ Span({p[2] : p \in AllPixels}) = b.maxY - b.minY
<1> DEFINE All == UNION {Pixels(ms[i]) : i \in DOMAIN ms}
           X == {p[1] : p \in All}
           Y == {p[2] : p \in All}
<1>1. ASSUME NEW p \in All
      PROVE  \E i \in 1..n : /\ p[1] \in ms[i].left..(Right(ms[i]) - 1)
                             /\ p[2] \in ms[i].top..(Bottom(ms[i]) - 1)
  BY DEF Pixels
<1>2. ASSUME NEW i \in 1..n,
             NEW x \in ms[i].left..(Right(ms[i]) - 1), NEW y \in ms[i].top..(Bottom(ms[i]) - 1)
      PROVE  x \in X /\ y \in Y
  <2>1. <<x, y>> \in All
    BY DEF Pixels
  <2>2. <<x, y>>[1] = x /\ <<x, y>>[2] = y
    OBVIOUS
  <2> HIDE DEF All
  <2> QED
    BY <2>1, <2>2
<1> HIDE DEF All
<1>3. \A i \in 1..n : /\ ms[i].left \in Int /\ ms[i].top \in Int
                      /\ Right(ms[i]) \in Int /\ Bottom(ms[i]) \in Int
                      /\ ms[i].left \in ms[i].left..(Right(ms[i]) - 1)
                      /\ Right(ms[i]) - 1 \in ms[i].left..(Right(ms[i]) - 1)
                      /\ ms[i].top \in ms[i].top..(Bottom(ms[i]) - 1)
                      /\ Bottom(ms[i]) - 1 \in ms[i].top..(Bottom(ms[i]) - 1)
  <2> TAKE i \in 1..n
  <2>1. /\ ms[i].left \in Int /\ ms[i].top \in Int
        /\ ms[i].width \in Nat \ {0} /\ ms[i].height \in Nat \ {0}
    BY DEF Rectangle
  <2>2. /\ Right(ms[i]) \in Int /\ ms[i].left <= Right(ms[i]) - 1
        /\ Bottom(ms[i]) \in Int /\ ms[i].top <= Bottom(ms[i]) - 1
    BY <2>1 DEF Right, Bottom
  <2> QED
    BY <2>1, <2>2
<1>4. /\ b.minX \in Int /\ b.maxX \in Int /\ b.minY \in Int /\ b.maxY \in Int
      /\ \A i \in 1..n : /\ b.minX <= ms[i].left /\ Right(ms[i]) <= b.maxX
                         /\ b.minY <= ms[i].top /\ Bottom(ms[i]) <= b.maxY
  BY DEF Encloses
<1>5. /\ X \in SUBSET Int /\ Y \in SUBSET Int
      /\ \A x \in X : b.minX <= x /\ x <= b.maxX - 1
      /\ \A y \in Y : b.minY <= y /\ y <= b.maxY - 1
  <2>1. ASSUME NEW p \in All
        PROVE  /\ p[1] \in Int /\ b.minX <= p[1] /\ p[1] <= b.maxX - 1
               /\ p[2] \in Int /\ b.minY <= p[2] /\ p[2] <= b.maxY - 1
    <3>1. PICK i \in 1..n : /\ p[1] \in ms[i].left..(Right(ms[i]) - 1)
                            /\ p[2] \in ms[i].top..(Bottom(ms[i]) - 1)
      BY <1>1
    <3>2. /\ ms[i].left \in Int /\ ms[i].top \in Int
          /\ Right(ms[i]) \in Int /\ Bottom(ms[i]) \in Int
      BY <1>3
    <3>3. /\ b.minX <= ms[i].left /\ Right(ms[i]) <= b.maxX
          /\ b.minY <= ms[i].top /\ Bottom(ms[i]) <= b.maxY
      BY <1>4
    <3>4. p[1] \in Int /\ b.minX <= p[1] /\ p[1] <= b.maxX - 1
      <4>1. b.minX \in Int /\ b.maxX \in Int
        BY <1>4
      <4> QED
        BY <3>1, <3>2, <3>3, <4>1, Inside
    <3>5. p[2] \in Int /\ b.minY <= p[2] /\ p[2] <= b.maxY - 1
      <4>1. b.minY \in Int /\ b.maxY \in Int
        BY <1>4
      <4> QED
        BY <3>1, <3>2, <3>3, <4>1, Inside
    <3> QED
      BY <3>4, <3>5
  <2> QED
    BY <2>1
<1>6. b.minX \in X /\ b.maxX - 1 \in X
  <2>1. PICK i \in 1..n : ms[i].left = b.minX
    BY DEF Encloses
  <2>2. PICK j \in 1..n : Right(ms[j]) = b.maxX
    BY DEF Encloses
  <2> HIDE DEF X
  <2> QED
    BY <1>2, <1>3, <2>1, <2>2
<1>7. b.minY \in Y /\ b.maxY - 1 \in Y
  <2>1. PICK i \in 1..n : ms[i].top = b.minY
    BY DEF Encloses
  <2>2. PICK j \in 1..n : Bottom(ms[j]) = b.maxY
    BY DEF Encloses
  <2> HIDE DEF Y
  <2> QED
    BY <1>2, <1>3, <2>1, <2>2
<1> HIDE DEF X, Y
<1>8. Max(X) = b.maxX - 1 /\ Min(X) = b.minX
  BY <1>5, <1>6, MaxIs, MinIs
<1>9. Max(Y) = b.maxY - 1 /\ Min(Y) = b.minY
  BY <1>5, <1>7, MaxIs, MinIs
<1>10. Span(X) = b.maxX - b.minX /\ Span(Y) = b.maxY - b.minY
  BY <1>4, <1>8, <1>9 DEF Span
<1> QED
  BY <1>10 DEF X, Y, All

\* The checks of decodeMonitorLayout amount to those by pixels, and keep the list as it is.
LEMMA DecodesExactly ==
  ASSUME NEW ms \in Seq(MonitorRecord)
  PROVE  decodeMonitorLayout(ms) = Expected(ms)
<1> DEFINE n == Len(ms)
           d == FoldLeft(Turn, Begin, ms)
           Each == DOMAIN ms
           All == UNION {Pixels(ms[i]) : i \in Each}
           Accepted == /\ SupportedCount(n) /\ d.valid /\ d.primaryCount = 1
                       /\ FitsDesktop(d.box) /\ NoneAlone(d.decoded)
           OnePrimary == \E i \in Each : \A j \in Each : ms[j].primary <=> i = j
           Placed == /\ \A i \in Each : SupportedSize(ms[i])
                     /\ \A i \in Each : ms[i].primary => <<ms[i].left, ms[i].top>> = <<0, 0>>
                     /\ \A i, j \in Each : i # j => Pixels(ms[i]) \cap Pixels(ms[j]) = {}
           Compact == /\ Span({p[1] : p \in All}) <= MaximumDesktopExtent
                      /\ Span({p[2] : p \in All}) <= MaximumDesktopExtent
           Connected == n > 1 =>
             \A i \in Each : \E j \in Each \ {i} : Halo(ms[i]) \cap Pixels(ms[j]) # {}
<1>1. n \in Nat /\ Each = 1..n
  BY LenProperties
<1>2. Cardinality(Each) = n
  BY <1>1, FS_Interval
<1>3. ValidLayout(ms) <=> /\ n \in 1..MaximumMonitorCount
                         /\ Placed /\ OnePrimary /\ Compact /\ Connected
  <2> HIDE DEF n
  <2> QED
    BY <1>2 DEF ValidLayout
<1>4. SupportedCount(n) <=> n \in 1..MaximumMonitorCount
  BY <1>1, LimitsAssumption DEF SupportedCount
<1>5. LoopInv(ms, n, d)
  BY LoopFinds
<1>6. \A i \in Each : ms[i] \in MonitorRecord /\ (SupportedSize(ms[i]) => Rectangle(ms[i]))
  <2> TAKE i \in Each
  <2>1. /\ ms[i] \in MonitorRecord /\ ms[i].left \in Int /\ ms[i].top \in Int
        /\ ms[i].width \in Nat /\ ms[i].height \in Nat
    BY <1>1, Records
  <2> QED
    BY <2>1, LimitsAssumption DEF SupportedSize, Rectangle
<1> HIDE DEF d, n, Each, All
<1>7. Good(ms, n) <=> Placed
  <2>1. ASSUME \A i \in Each : SupportedSize(ms[i])
        PROVE  (\A i \in 1..n : \A j \in 1..(i - 1) : ~Intersects(ms[i], ms[j]))
                 <=> \A i, j \in Each : i # j => Pixels(ms[i]) \cap Pixels(ms[j]) = {}
    <3>1. \A i, j \in Each : Intersects(ms[i], ms[j]) <=> Pixels(ms[i]) \cap Pixels(ms[j]) # {}
      BY <1>6, <2>1, Shares
    <3>2. \A i, j \in Each : Pixels(ms[i]) \cap Pixels(ms[j]) = Pixels(ms[j]) \cap Pixels(ms[i])
      OBVIOUS
    <3>3. \A i \in Each : \A j \in 1..(i - 1) : j \in Each /\ i # j
      BY <1>1
    <3>4. \A i, j \in Each : i # j => i \in 1..(j - 1) \/ j \in 1..(i - 1)
      BY <1>1
    <3>5. ASSUME \A i \in 1..n : \A j \in 1..(i - 1) : ~Intersects(ms[i], ms[j]),
                 NEW i \in Each, NEW j \in Each, i # j
          PROVE  Pixels(ms[i]) \cap Pixels(ms[j]) = {}
      <4>1. CASE j \in 1..(i - 1)
        BY <1>1, <3>1, <3>5, <4>1
      <4>2. CASE i \in 1..(j - 1)
        <5>1. Pixels(ms[j]) \cap Pixels(ms[i]) = {}
          BY <1>1, <3>1, <3>5, <4>2
        <5> QED
          BY <5>1, <3>2
      <4> QED
        BY <3>4, <3>5, <4>1, <4>2
    <3>6. ASSUME \A i, j \in Each : i # j => Pixels(ms[i]) \cap Pixels(ms[j]) = {},
                 NEW i \in 1..n, NEW j \in 1..(i - 1)
          PROVE  ~Intersects(ms[i], ms[j])
      <4>1. i \in Each /\ j \in Each /\ i # j
        BY <1>1, <3>3
      <4>2. Pixels(ms[i]) \cap Pixels(ms[j]) = {}
        BY <3>6, <4>1
      <4> QED
        BY <3>1, <4>1, <4>2
    <3> QED
      BY <3>5, <3>6
  <2>2. \A i \in Each : ~MisplacedPrimary(ms[i])
                          <=> (ms[i].primary => <<ms[i].left, ms[i].top>> = <<0, 0>>)
    BY DEF MisplacedPrimary
  <2> QED
    BY <1>1, <2>1, <2>2 DEF Good
<1>8. ASSUME Good(ms, n), n # 0
      PROVE  /\ d.valid
             /\ d.decoded \in Seq(MonitorRecord) /\ Len(d.decoded) = n
             /\ \A i \in 1..n : d.decoded[i] = ms[i]
             /\ Primaries(ms, n, d.primaryCount)
             /\ Encloses(ms, n, d.box)
  BY <1>5, <1>8 DEF LoopInv
<1>9. ASSUME Good(ms, n), n # 0
      PROVE  d.decoded = ms
  <2>1. Len(ms) = Len(d.decoded)
    BY <1>8, <1>9 DEF n
  <2>2. \A i \in 1..Len(ms) : d.decoded[i] = ms[i]
    BY <1>8, <1>9 DEF n
  <2> QED
    BY <1>8, <1>9, <2>1, <2>2, SeqEqual
<1>10. ASSUME Good(ms, n), n # 0
       PROVE  d.primaryCount = 1 <=> OnePrimary
  BY <1>1, <1>8, <1>10 DEF Primaries
<1>11. ASSUME Good(ms, n), n # 0
       PROVE  FitsDesktop(d.box) <=> Compact
  <2>1. \A i \in 1..n : Rectangle(ms[i])
    BY <1>1, <1>6, <1>7, <1>11
  <2>2. /\ Span({p[1] : p \in All}) = d.box.maxX - d.box.minX
        /\ Span({p[2] : p \in All}) = d.box.maxY - d.box.minY
    BY <1>1, <1>8, <1>11, <2>1, Spans DEF All, Each
  <2> QED
    BY <2>2 DEF FitsDesktop
<1>12. ASSUME Good(ms, n), n # 0
       PROVE  NoneAlone(d.decoded) <=> Connected
  <2>1. \A i, j \in Each : i # j => (Adjacent(ms[i], ms[j])
                                       <=> Halo(ms[i]) \cap Pixels(ms[j]) # {})
    <3>1. \A i \in Each : Rectangle(ms[i])
      BY <1>6, <1>7, <1>12
    <3>2. \A i, j \in Each : i # j => ~Intersects(ms[i], ms[j])
      BY <1>7, <1>12, <3>1, Shares
    <3> QED
      BY <3>1, <3>2, Touches
  <2>2. NoneAlone(ms) <=>
          (n > 1 => \A i \in Each : \E j \in Each \ {i} : Adjacent(ms[i], ms[j]))
    BY DEF NoneAlone, n, Each
  <2> QED
    BY <1>9, <1>12, <2>1, <2>2
<1>13. d.valid <=> Good(ms, n)
  BY <1>5 DEF LoopInv
<1>14. Accepted <=> ValidLayout(ms)
  <2>1. SupportedCount(n) => n # 0
    BY DEF SupportedCount
  <2> HIDE DEF Placed, OnePrimary, Compact, Connected
  <2> QED
    BY <1>3, <1>4, <1>7, <1>10, <1>11, <1>12, <1>13, <2>1
<1>15. Accepted => d.decoded = ms
  BY <1>9, <1>13 DEF SupportedCount
<1>16. decodeMonitorLayout(ms) = IF Accepted THEN d.decoded ELSE NoLayout
  BY DEF decodeMonitorLayout, d, n
<1> HIDE DEF Accepted
<1> QED
  BY <1>14, <1>15, <1>16 DEF Expected

\* Of any list of records, decodeMonitorLayout (DisplayControl.cpp:218-314) accepts
\* exactly those that are layouts pixel by pixel, as they were sent.
THEOREM AlwaysAcceptsExactlyValid == Spec => []AcceptsExactlyValid
<1>1. AcceptsExactlyValid
  BY DecodesExactly, ListsAssumption DEF AcceptsExactlyValid
<1> QED
  BY <1>1, PTL
=============================================================================
