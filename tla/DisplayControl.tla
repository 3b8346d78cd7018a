---------------------------- MODULE DisplayControl ----------------------------
(***************************************************************************)
(* Negotiation of the monitor layout (src/DisplayControl.cpp).  The client *)
(* requests layouts, the last request is kept under a mutex, and a queued  *)
(* signal tells the embedder on the main thread, which has the compositor  *)
(* apply the layout and then accepts it, or rejects it.  Accepting hands   *)
(* the layout to VideoStream::setMonitorLayout.                            *)
(*                                                                         *)
(* Two threads write requests: the session thread once, from initialize,   *)
(* with the monitors of the client's settings, and the display channel's   *)
(* thread for every PDU.  What does not decode (see MonitorLayout) changes *)
(* nothing.  The embedder is not part of the repository: what it does is   *)
(* what DisplayControl.h asks of it.                                       *)
(***************************************************************************)
EXTENDS MonitorLayout

CONSTANTS
  Pdus,         \* some of Lists: what the client sends
  CanReject,    \* whether the compositor may fail to apply a layout
  MaxRequests   \* bound: requests in all

Writers == {"channel", "session"}
Layouts == {decodeMonitorLayout(ms) : ms \in Pdus} \ {NoLayout}

ASSUME DisplayAssumption ==
  /\ Pdus \subseteq Lists /\ NoLayout \notin Lists
  /\ CanReject \in BOOLEAN
  /\ MaxRequests \in Nat

VARIABLES
  requested,    \* m_requestedMonitorLayout, NoLayout when empty
  emitting,     \* what each writer has stored and not yet signalled
  signals,      \* requestedMonitorLayoutChanged events queued for the main thread
  embedder,     \* external: idle, applying, applied, refused or accepting
  inHand,       \* external: the layout the embedder is working on
  kwin,         \* external: the layout the compositor is in
  layout,       \* the layout of the video stream
  latest,       \* history: the layout last requested
  disturbed,    \* history: a layout was refused, or two threads' requests crossed
  requests      \* history: number of PDUs and initial requests

vars == <<requested, emitting, signals, embedder, inHand, kwin, layout, latest,
          disturbed, requests>>

Init ==
  /\ requested = NoLayout
  /\ emitting = [w \in Writers |-> NoLayout]
  /\ signals = <<>>
  /\ embedder = "idle" /\ inHand = NoLayout
  /\ kwin = NoLayout /\ layout = NoLayout
  /\ latest = NoLayout /\ disturbed = FALSE /\ requests = 0

-----------------------------------------------------------------------------
\* requestMonitorLayout, the critical section.
requestMonitorLayout(w, l) ==
  /\ requested' = l /\ latest' = l
  /\ disturbed' = (disturbed \/ \E v \in Writers : emitting[v] # NoLayout)
  /\ emitting' = [emitting EXCEPT ![w] = l]

\* Mutant: a PDU that does not decode withdraws what was requested.
WithdrawInvalid(l) == requested' = l /\ UNCHANGED <<latest, disturbed, emitting>>
IgnoreInvalid(l) == UNCHANGED <<requested, latest, disturbed, emitting>>

Decode(w, pdu) ==
  /\ emitting[w] = NoLayout
  /\ requests < MaxRequests
  /\ requests' = requests + 1
  /\ LET l == decodeMonitorLayout(pdu)
     IN IF l # NoLayout THEN requestMonitorLayout(w, l) ELSE IgnoreInvalid(l)
  /\ UNCHANGED <<signals, embedder, inHand, kwin, layout>>

\* On the channel's thread; for a PDU that does not decode the callback fails, after
\* which the channel may be done with.
receiveMonitorLayout(pdu) == Decode("channel", pdu)

\* On the session thread, first and at most once: the monitors of the client's
\* settings, or one of the desktop's size.
requestInitialMonitorLayout(pdu) == requests = 0 /\ Decode("session", pdu)

\* Mutant: no signal is queued while another one waits.
PostIfIdle(q, l) == IF q = <<>> THEN <<l>> ELSE q
Post(q, l) == Append(q, l)

Signalled(w) == emitting[w]

\* requestMonitorLayout, Q_EMIT from a thread that is not the main one.
Emit(w) ==
  /\ emitting[w] # NoLayout
  /\ signals' = Post(signals, Signalled(w))
  /\ emitting' = [emitting EXCEPT ![w] = NoLayout]
  /\ UNCHANGED <<requested, embedder, inHand, kwin, layout, latest, disturbed, requests>>

\* The main thread delivers the signal to the embedder.
Deliver ==
  /\ embedder = "idle" /\ signals # <<>>
  /\ inHand' = Head(signals) /\ signals' = Tail(signals)
  /\ embedder' = "applying"
  /\ UNCHANGED <<requested, emitting, kwin, layout, latest, disturbed, requests>>

\* KWin applies the layout, or fails to; either is learnt asynchronously.
Applied ==
  /\ embedder = "applying"
  /\ \/ embedder' = "applied" /\ kwin' = inHand
     \/ CanReject /\ embedder' = "refused" /\ UNCHANGED kwin
  /\ UNCHANGED <<requested, emitting, signals, inHand, layout, latest, disturbed, requests>>

\* Mutant: any pending request is taken for the one that was applied.
SomePending(l) == requested # NoLayout
Pending(l) == requested # NoLayout /\ requested = l

\* acceptRequestedMonitorLayout, the critical section: it fails when nothing is
\* pending, or something else.
Accept ==
  /\ embedder = "applied"
  /\ IF Pending(inHand)
       THEN requested' = NoLayout /\ embedder' = "accepting"
       ELSE embedder' = "idle" /\ UNCHANGED requested
  /\ UNCHANGED <<emitting, signals, inHand, kwin, layout, latest, disturbed, requests>>

\* acceptRequestedMonitorLayout, after the mutex is released.
SetMonitorLayout ==
  /\ embedder = "accepting"
  /\ layout' = inHand /\ embedder' = "idle"
  /\ UNCHANGED <<requested, emitting, signals, inHand, kwin, latest, disturbed, requests>>

\* rejectRequestedMonitorLayout: whatever is pending is gone.
Reject ==
  /\ embedder = "refused"
  /\ requested' = NoLayout /\ embedder' = "idle"
  /\ disturbed' = TRUE
  /\ UNCHANGED <<emitting, signals, inHand, kwin, layout, latest, requests>>

-----------------------------------------------------------------------------
Answer == Deliver \/ Applied \/ Accept \/ SetMonitorLayout \/ Reject

Next ==
  \/ \E pdu \in Pdus : receiveMonitorLayout(pdu) \/ requestInitialMonitorLayout(pdu)
  \/ \E w \in Writers : Emit(w)
  \/ Answer

Spec == Init /\ [][Next]_vars

\* A writer that has stored a request goes on to signal it; the event loop runs
\* and the compositor answers.
Fairness == WF_vars(Answer) /\ \A w \in Writers : WF_vars(Emit(w))

FairSpec == Spec /\ Fairness

-----------------------------------------------------------------------------
TypeOK ==
  /\ {requested, inHand, kwin, layout, latest} \subseteq Layouts \cup {NoLayout}
  /\ emitting \in [Writers -> Layouts \cup {NoLayout}]
  /\ signals \in Seq(Layouts)
  /\ embedder \in {"idle", "applying", "applied", "refused", "accepting"}
  /\ disturbed \in BOOLEAN /\ requests \in 0..MaxRequests

\* decodeMonitorLayout accepts a list exactly when, pixel by pixel, it is a
\* layout: supported sizes, one primary, at the origin, no pixel shown twice,
\* within the extent, and no monitor that touches no other.  What it accepts is
\* what was sent, in the order sent (the order is the graphics output index).
\* It is the same in every state; it is stated of those before the first request.
AcceptsExactlyValid ==
  requests = 0 => \A ms \in Lists : decodeMonitorLayout(ms) = Expected(ms)

\* A layout only reaches the stream through an accept that found it to be the
\* client's most recent request, and while the compositor is in it.
AcceptedIsLatest ==
  [][embedder = "applied" /\ embedder' = "accepting"
       => inHand = latest /\ kwin = inHand]_vars

\* Once everything requested has been dealt with, the client's last valid wish,
\* the compositor and the stream agree, however the requests and answers crossed.
\* Two things spoil it: rejecting one layout also discards a newer request, and
\* two threads may signal their requests in the other order than they stored them.
SettledAgree ==
  /\ ~disturbed
  /\ embedder = "idle" /\ signals = <<>>
  /\ \A w \in Writers : emitting[w] = NoLayout
  => /\ requested = NoLayout
     /\ kwin = latest /\ layout = latest

\* The types, and SettledAgree: what every reachable state of the negotiation is.
DisplayInv == TypeOK /\ SettledAgree

\* No request stays pending for ever: its signal is delivered, and the answer to
\* the last one takes it away.
RequestAnswered == requested # NoLayout ~> requested = NoLayout
=============================================================================
