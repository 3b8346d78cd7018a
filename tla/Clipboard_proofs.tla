--------------------------- MODULE Clipboard_proofs ---------------------------
(***************************************************************************)
(* Proofs about Clipboard, for any formats, texts, copies and pastes, with *)
(* store buffers and without.                                              *)
(*                                                                         *)
(* None of the three invariants is inductive.  CallInv adds that at most   *)
(* one PDU waits for the main thread, with the channel's thread behind it. *)
(* OfferInv follows the server's texts on their way to the client: no      *)
(* answer overtakes an offer.  CopyInv follows the client's: once the list *)
(* of the current copy has been handled, every answer under way is of that *)
(* copy and, unless lists crossed, in the format that was asked for.       *)
(***************************************************************************)
EXTENDS Clipboard, SequenceTheorems, NaturalsInduction, WellFoundedInduction, TLAPS

Lists    == [pdu : {"list"}, formats : FormatLists, text : Nat]
Requests == [pdu : {"request"}, format : Formats]
Answers  == [pdu : {"data"}, format : Formats, ok : BOOLEAN, text : Nat]
Offers   == [pdu : {"offer"}, text : Nat]
FromClient == Lists \cup Requests \cup Answers
FromServer == Offers \cup Requests \cup Answers
Queued     == FromClient \cup {Send}

\* At most one event of a queue is a PDU.
OneCall(q) == \A i, j \in DOMAIN q : q[i].pdu # "send" /\ q[j].pdu # "send" => i = j

\* Behind a message of the kind there is no answer with an older text, the texts
\* in failed not counting.
InOrder(q, kind, failed) ==
  \A i, j \in DOMAIN q :
    i < j /\ q[i].pdu = kind /\ q[j].pdu = "data" /\ q[j].text \notin failed
      => q[i].text <= q[j].text

Typed ==
  /\ session \in {"start", "check", "running", "closing", "stopped", "closed"}
  /\ context \in BOOLEAN /\ initialized \in BOOLEAN
  /\ enabled \in BOOLEAN /\ seenInit \in BOOLEAN
  /\ seenMain \in [enabled : BOOLEAN, hasText : BOOLEAN]
  /\ main \in {"idle", "check", "send"}
  /\ channel \in {"idle", "blocked"}
  /\ requestedClientFormat \in {Unicode, Text, Oem, None}
  /\ serverText \in 0..MaxTexts /\ copied \in 0..MaxCopies
  /\ formats \in Seq(Formats) /\ malformed \subseteq 1..copied
  /\ toServer \in Seq(FromClient) /\ toClient \in Seq(FromServer)
  /\ events \in Seq(Queued)
  /\ missed \in BOOLEAN /\ crossed \in BOOLEAN

\* The channel's thread is blocked exactly while its PDU is queued.
CallInv ==
  /\ channel = "blocked" <=> \E m \in Range(events) : m.pdu # "send"
  /\ OneCall(events)

\* The host's side: AdvertisedOrPending, and what initialized stands for.
HostInv ==
  /\ session = "start" => ~initialized
  /\ initialized => context
  /\ initialized /\ enabled /\ serverText # 0 /\ ~missed =>
       \/ advertised = serverText
       \/ Send \in Range(events)
       \/ main # "idle"
       \/ session # "running"

\* The server's texts under way to the client.
OfferInv ==
  /\ InOrder(toClient, "offer", {0})
  /\ \A m \in Range(toClient) : m.pdu = "offer" => m.text <= serverText
  /\ \A m \in Range(toClient) : m.pdu = "data" =>
       m.text <= serverText /\ (m.text # 0 => offered <= m.text)
  /\ offered \in Nat /\ advertised \in Nat
  /\ pasted \in [got : Nat, offered : Nat]
  /\ offered <= serverText /\ advertised <= serverText
  /\ pasted.got <= serverText /\ pasted.offered <= serverText
  /\ PasteIsCurrent

\* The lists and answers of the client that the main thread has yet to handle.
Coming == Range(toServer) \cup Range(events)

\* The client's texts under way to the host.
CopyInv ==
  /\ asked \in 0..copied /\ emitted \in -1..copied
  /\ asked # 0 => enabled
  /\ \A m \in Coming : m.pdu = "list" =>
       m.text \in 1..copied /\ (m.text = copied => m.formats = formats)
  /\ \A m \in Coming : m.pdu = "data" =>
       m.text <= copied /\ (m.text = copied => (m.ok <=> m.format \in Range(formats)))
  /\ InOrder(toServer, "list", {})
  /\ \A l \in Range(events), m \in Range(toServer) :
       l.pdu = "list" /\ m.pdu = "data" => l.text <= m.text
  /\ asked = copied => \A m \in Coming : m.pdu = "data" => m.text = copied
  /\ asked = copied /\ asked # 0 /\ requestedClientFormat # None
       => requestedClientFormat \in Range(formats)

\* The requests the client has yet to answer, and its answers.
UnderWay ==
  {m \in Range(toClient) : m.pdu = "request"} \cup {m \in Coming : m.pdu = "data"}

\* Every answer to come is in the format last asked for, and the one to the current
\* copy, if that decodes, comes, or has come.
FormatInv ==
  ~crossed =>
    /\ emitted \notin malformed \cup {Garbage}
    /\ requestedClientFormat # None =>
         \A m \in UnderWay : m.format = requestedClientFormat
    /\ asked = copied /\ asked # 0 /\ copied \notin malformed =>
         emitted = copied \/ (requestedClientFormat # None /\ UnderWay # {})

IInv == Typed /\ CallInv /\ HostInv /\ OfferInv /\ CopyInv /\ FormatInv

-----------------------------------------------------------------------------
(* Queues, by what they hold and by what is before what.                    *)

LEMMA Appended ==
  ASSUME NEW S, NEW q \in Seq(S), NEW e \in S
  PROVE  /\ Append(q, e) \in Seq(S) /\ Append(q, e) # <<>>
         /\ Range(Append(q, e)) = Range(q) \cup {e}
         /\ \A i \in DOMAIN Append(q, e) :
              \/ i \in DOMAIN q /\ Append(q, e)[i] = q[i] /\ q[i] \in Range(q)
              \/ Append(q, e)[i] = e /\ \A j \in DOMAIN Append(q, e) : j <= i
<1>1. Append(q, e) \in Seq(S) /\ Append(q, e) # <<>> /\ Len(Append(q, e)) = Len(q) + 1
  BY AppendProperties
<1>2. \A i \in 1..Len(q) : Append(q, e)[i] = q[i]
  BY AppendProperties
<1>3. Append(q, e)[Len(q) + 1] = e
  BY AppendProperties
<1>4. DOMAIN q = 1..Len(q) /\ DOMAIN Append(q, e) = 1..(Len(q) + 1) /\ Len(q) \in Nat
  BY <1>1, LenProperties
<1>5. Range(q) = {q[i] : i \in 1..Len(q)}
  BY RangeEquality
<1>6. Range(Append(q, e)) = {Append(q, e)[i] : i \in 1..(Len(q) + 1)}
  BY <1>1, RangeEquality
<1> DEFINE a == Append(q, e)
<1> HIDE DEF a
<1>7. ASSUME NEW i \in 1..(Len(q) + 1)
      PROVE  i \in 1..Len(q) \/ i = Len(q) + 1
  BY <1>4
<1>8. Len(q) + 1 \in 1..(Len(q) + 1) /\ \A i \in 1..Len(q) : i \in 1..(Len(q) + 1)
  BY <1>4
<1>9. {a[i] : i \in 1..(Len(q) + 1)} = {q[i] : i \in 1..Len(q)} \cup {e}
  BY <1>2, <1>3, <1>7, <1>8 DEF a
<1>10. ASSUME NEW i \in DOMAIN a
       PROVE  \/ i \in DOMAIN q /\ a[i] = q[i] /\ q[i] \in Range(q)
              \/ a[i] = e /\ \A j \in DOMAIN a : j <= i
  <2>1. CASE i \in 1..Len(q)
    BY <2>1, <1>2, <1>4, <1>5 DEF a
  <2>2. CASE i = Len(q) + 1
    BY <2>2, <1>3, <1>4 DEF a
  <2> QED
    BY <2>1, <2>2, <1>4, <1>7 DEF a
<1> QED
  BY <1>1, <1>5, <1>6, <1>9, <1>10 DEF a

LEMMA Taken ==
  ASSUME NEW S, NEW q \in Seq(S), q # <<>>
  PROVE  /\ Tail(q) \in Seq(S) /\ Head(q) \in S
         /\ Range(q) = Range(Tail(q)) \cup {Head(q)}
         /\ 1 \in DOMAIN q /\ q[1] = Head(q)
         /\ \A i \in DOMAIN Tail(q) : /\ i + 1 \in DOMAIN q /\ i \in Nat \ {0}
                                      /\ Tail(q)[i] = q[i + 1]
<1>1. /\ Tail(q) \in Seq(S) /\ Head(q) \in S /\ Len(Tail(q)) = Len(q) - 1
      /\ \A i \in 1..Len(Tail(q)) : Tail(q)[i] = q[i + 1]
  BY HeadTailProperties
<1>2. /\ DOMAIN q = 1..Len(q) /\ DOMAIN Tail(q) = 1..Len(Tail(q))
      /\ Len(q) \in Nat /\ Len(q) # 0
  BY <1>1, LenProperties, EmptySeq
<1>3. Head(q) = q[1]
  OBVIOUS
<1>4. Range(q) = {q[i] : i \in 1..Len(q)}
  BY RangeEquality
<1>5. Range(Tail(q)) = {Tail(q)[i] : i \in 1..Len(Tail(q))}
  BY <1>1, RangeEquality
<1> DEFINE t == Tail(q)
<1> HIDE DEF t
<1>6. \A i \in DOMAIN t : i + 1 \in DOMAIN q /\ i \in Nat \ {0} /\ t[i] = q[i + 1]
  BY <1>1, <1>2 DEF t
<1>7. 1 \in DOMAIN q
  BY <1>2
<1>8. ASSUME NEW i \in 1..Len(q), i # 1 PROVE i - 1 \in 1..Len(t) /\ q[i] = t[i - 1]
  <2>1. i - 1 \in 1..Len(t) /\ (i - 1) + 1 = i
    BY <1>1, <1>2, <1>8 DEF t
  <2> QED
    BY <2>1, <1>1 DEF t
<1>9. {q[i] : i \in 1..Len(q)} = {t[i] : i \in 1..Len(t)} \cup {q[1]}
  <2>1. ASSUME NEW i \in 1..Len(q)
        PROVE  q[i] \in {t[n] : n \in 1..Len(t)} \cup {q[1]}
    BY <1>8
  <2>2. ASSUME NEW i \in 1..Len(t) PROVE t[i] \in {q[n] : n \in 1..Len(q)}
    BY <1>2, <1>6 DEF t
  <2>3. q[1] \in {q[n] : n \in 1..Len(q)}
    BY <1>2, <1>7
  <2> QED
    BY <2>1, <2>2, <2>3
<1> QED
  BY <1>1, <1>3, <1>4, <1>5, <1>6, <1>7, <1>9 DEF t

\* Messages that leave or join a queue in order.
LEMMA OrderTaken ==
  ASSUME NEW S, NEW q \in Seq(S), q # <<>>, NEW k, NEW failed, InOrder(q, k, failed)
  PROVE  /\ InOrder(Tail(q), k, failed)
         /\ Head(q).pdu = k => \A m \in Range(Tail(q)) :
              m.pdu = "data" /\ m.text \notin failed => Head(q).text <= m.text
<1> DEFINE t == Tail(q)
<1>1. /\ \A i \in DOMAIN t : i + 1 \in DOMAIN q /\ i \in Nat \ {0} /\ t[i] = q[i + 1]
      /\ t \in Seq(S) /\ 1 \in DOMAIN q /\ q[1] = Head(q)
  BY Taken
<1> HIDE DEF t
<1>2. \A m \in Range(t) : \E i \in DOMAIN t : m = t[i]
  <2>1. Range(t) = {t[i] : i \in 1..Len(t)} /\ DOMAIN t = 1..Len(t)
    BY <1>1, RangeEquality, LenProperties
  <2> QED
    BY <2>1
<1>3. InOrder(t, k, failed)
  <2>1. SUFFICES ASSUME NEW i \in DOMAIN t, NEW j \in DOMAIN t, i < j,
                        t[i].pdu = k, t[j].pdu = "data", t[j].text \notin failed
                 PROVE  t[i].text <= t[j].text
    BY DEF InOrder
  <2>2. /\ i + 1 \in DOMAIN q /\ j + 1 \in DOMAIN q /\ i + 1 < j + 1
        /\ q[i + 1] = t[i] /\ q[j + 1] = t[j]
    BY <2>1, <1>1
  <2> QED
    BY <2>1, <2>2 DEF InOrder
<1>4. ASSUME Head(q).pdu = k, NEW m \in Range(t), m.pdu = "data", m.text \notin failed
      PROVE  Head(q).text <= m.text
  <2>1. PICK i \in DOMAIN t : m = t[i]
    BY <1>2
  <2>2. i + 1 \in DOMAIN q /\ 1 < i + 1 /\ q[i + 1] = m
    BY <2>1, <1>1
  <2> QED
    BY <2>2, <1>1, <1>4 DEF InOrder
<1> QED
  BY <1>3, <1>4 DEF t

LEMMA OrderAppended ==
  ASSUME NEW S, NEW q \in Seq(S), NEW e \in S, NEW k, NEW failed, InOrder(q, k, failed),
         k # "data",
         e.pdu = "data" /\ e.text \notin failed =>
           \A m \in Range(q) : m.pdu = k => m.text <= e.text
  PROVE  InOrder(Append(q, e), k, failed)
<1> DEFINE a == Append(q, e)
<1>1. \A i \in DOMAIN a : \/ i \in DOMAIN q /\ a[i] = q[i] /\ q[i] \in Range(q)
                          \/ a[i] = e /\ \A j \in DOMAIN a : j <= i
  BY Appended
<1>2. DOMAIN a \subseteq Nat
  <2>1. a \in Seq(S)
    BY Appended
  <2> QED
    BY <2>1, LenProperties
<1> HIDE DEF a
<1>3. SUFFICES ASSUME NEW i \in DOMAIN a, NEW j \in DOMAIN a, i < j,
                      a[i].pdu = k, a[j].pdu = "data", a[j].text \notin failed
               PROVE  a[i].text <= a[j].text
  BY DEF InOrder, a
<1>4. i \in DOMAIN q /\ a[i] = q[i] /\ q[i] \in Range(q)
  BY <1>1, <1>2, <1>3
<1>5. CASE j \in DOMAIN q /\ a[j] = q[j]
  BY <1>3, <1>4, <1>5 DEF InOrder
<1>6. CASE a[j] = e
  BY <1>3, <1>4, <1>6
<1> QED
  BY <1>1, <1>5, <1>6

LEMMA CallTaken ==
  ASSUME NEW S, NEW q \in Seq(S), q # <<>>, OneCall(q)
  PROVE  /\ OneCall(Tail(q))
         /\ Head(q).pdu # "send" => \A m \in Range(Tail(q)) : m.pdu = "send"
<1> DEFINE t == Tail(q)
<1>1. /\ \A i \in DOMAIN t : i + 1 \in DOMAIN q /\ i \in Nat \ {0} /\ t[i] = q[i + 1]
      /\ t \in Seq(S) /\ 1 \in DOMAIN q /\ q[1] = Head(q)
  BY Taken
<1> HIDE DEF t
<1>2. \A m \in Range(t) : \E i \in DOMAIN t : m = t[i]
  <2>1. Range(t) = {t[i] : i \in 1..Len(t)} /\ DOMAIN t = 1..Len(t)
    BY <1>1, RangeEquality, LenProperties
  <2> QED
    BY <2>1
<1>3. OneCall(t)
  <2>1. SUFFICES ASSUME NEW i \in DOMAIN t, NEW j \in DOMAIN t,
                        t[i].pdu # "send", t[j].pdu # "send"
                 PROVE  i = j
    BY DEF OneCall
  <2>2. i + 1 = j + 1
    BY <2>1, <1>1 DEF OneCall
  <2> QED
    BY <2>2, <1>1
<1>4. ASSUME Head(q).pdu # "send", NEW m \in Range(t) PROVE m.pdu = "send"
  <2>1. PICK i \in DOMAIN t : m = t[i]
    BY <1>2
  <2>2. i + 1 \in DOMAIN q /\ i + 1 # 1 /\ q[i + 1] = m
    BY <2>1, <1>1
  <2> QED
    BY <2>2, <1>1, <1>4 DEF OneCall
<1> QED
  BY <1>3, <1>4 DEF t

LEMMA CallAppended ==
  ASSUME NEW S, NEW q \in Seq(S), NEW e \in S, OneCall(q),
         e.pdu = "send" \/ \A m \in Range(q) : m.pdu = "send"
  PROVE  OneCall(Append(q, e))
<1> DEFINE a == Append(q, e)
<1>1. \A i \in DOMAIN a : \/ i \in DOMAIN q /\ a[i] = q[i] /\ q[i] \in Range(q)
                          \/ a[i] = e /\ \A j \in DOMAIN a : j <= i
  BY Appended
<1>2. DOMAIN a \subseteq Nat
  <2>1. a \in Seq(S)
    BY Appended
  <2> QED
    BY <2>1, LenProperties
<1> HIDE DEF a
<1>3. SUFFICES ASSUME NEW i \in DOMAIN a, NEW j \in DOMAIN a,
                      a[i].pdu # "send", a[j].pdu # "send"
               PROVE  i = j
  BY DEF OneCall, a
<1>4. CASE e.pdu = "send"
  <2>1. i \in DOMAIN q /\ a[i] = q[i] /\ j \in DOMAIN q /\ a[j] = q[j]
    BY <1>1, <1>3, <1>4
  <2> QED
    BY <2>1, <1>3 DEF OneCall
<1>5. CASE \A m \in Range(q) : m.pdu = "send"
  <2>1. i <= j /\ j <= i
    BY <1>1, <1>3, <1>5
  <2> QED
    BY <2>1, <1>2
<1> QED
  BY <1>4, <1>5

\* The format the host asks for is one of those offered.
LEMMA PreferredOffered ==
  ASSUME NEW fs \in Seq(Formats)
  PROVE  /\ Preferred(fs) \in {Unicode, Text, Oem, None}
         /\ Preferred(fs) # None => Preferred(fs) \in Range(fs)
<1> DEFINE plain == {i \in DOMAIN fs : fs[i] \in {Text, Oem}}
<1>1. DOMAIN fs \subseteq Nat /\ \A i \in DOMAIN fs : fs[i] \in Range(fs)
  BY LenProperties, RangeEquality
<1>2. ASSUME plain # {} PROVE Min(plain) \in plain
  <2>1. plain \subseteq Nat
    BY <1>1
  <2>2. PICK x \in plain : \A y \in plain : <<y, x>> \notin OpToRel(<, Nat)
    BY <2>1, <1>2, NatLessThanWellFounded, WFMin
  <2>3. ASSUME NEW y \in plain PROVE x <= y
    <3>1. y \in Nat /\ x \in Nat
      BY <2>1
    <3> HIDE DEF plain
    <3>2. <<y, x>> \notin {p \in Nat \X Nat : p[1] < p[2]}
      BY <2>2 DEF OpToRel
    <3>3. <<y, x>> \in Nat \X Nat /\ <<y, x>>[1] = y /\ <<y, x>>[2] = x
      BY <3>1
    <3>4. ~ (y < x)
      BY <3>2, <3>3, Zenon
    <3> QED
      BY <3>1, <3>4
  <2> HIDE DEF plain
  <2> QED
    BY <2>3 DEF Min
<1>3. Preferred(fs) = IF Unicode \in Range(fs) THEN Unicode
                      ELSE IF plain # {} THEN fs[Min(plain)] ELSE None
  BY DEF Preferred
<1> QED
  BY <1>1, <1>2, <1>3

-----------------------------------------------------------------------------
(* Messages.                                                                *)

LEMMA Kinds ==
  /\ Lists \subseteq FromClient /\ Requests \subseteq FromClient /\ Answers \subseteq FromClient
  /\ Offers \subseteq FromServer /\ Requests \subseteq FromServer /\ Answers \subseteq FromServer
  /\ FromClient \subseteq Queued /\ Send \in Queued /\ Send.pdu = "send"
  /\ \A m \in Queued : /\ m.pdu = "send" <=> m = Send
                       /\ m.pdu = "list" <=> m \in Lists
                       /\ m.pdu = "request" => m \in Requests
                       /\ m.pdu = "data" <=> m \in Answers
  /\ \A m \in FromServer : /\ m.pdu = "offer" <=> m \in Offers
                           /\ m.pdu = "request" <=> m \in Requests
                           /\ m.pdu = "data" <=> m \in Answers
                           /\ m.pdu \in {"offer", "request", "data"}
  /\ \A m \in Lists : m.pdu = "list" /\ m.formats \in Seq(Formats) /\ m.text \in Nat
  /\ \A m \in Requests : m.pdu = "request" /\ m.format \in Formats
  /\ \A m \in Answers :
       m.pdu = "data" /\ m.format \in Formats /\ m.ok \in BOOLEAN /\ m.text \in Nat
  /\ \A m \in Offers : m.pdu = "offer" /\ m.text \in Nat
<1>1. FormatLists \subseteq Seq(Formats)
  BY ClipboardAssumption
<1> QED
  BY <1>1 DEF Queued, FromClient, FromServer, Lists, Requests, Answers, Offers, Send

LEMMA Messages ==
  /\ \A f \in Formats : Want(f) \in Requests
  /\ \A f \in Formats, ok \in BOOLEAN, t \in Nat :
       /\ Data(f, ok, t) \in Answers
       /\ Data(f, ok, t).format = f /\ Data(f, ok, t).ok = ok /\ Data(f, ok, t).text = t
  /\ \A fs \in FormatLists : copied \in Nat =>
       List(fs) \in Lists /\ List(fs).formats = fs /\ List(fs).text = copied + 1
  /\ \A t \in Nat : /\ [pdu |-> "offer", text |-> t] \in Offers
                    /\ [pdu |-> "offer", text |-> t].text = t
  /\ \A f \in Formats : Want(f).format = f
BY DEF Want, Data, List, Requests, Answers, Lists, Offers

\* What joins a queue.
LEMMA Queues ==
  ASSUME Typed
  PROVE  /\ \A e \in Queued : /\ Append(events, e) \in Seq(Queued)
                             /\ Range(Append(events, e)) = Range(events) \cup {e}
         /\ \A e \in FromClient : /\ Append(toServer, e) \in Seq(FromClient)
                                 /\ Range(Append(toServer, e)) = Range(toServer) \cup {e}
         /\ \A e \in FromServer : /\ Append(toClient, e) \in Seq(FromServer)
                                 /\ Range(Append(toClient, e)) = Range(toClient) \cup {e}
<1>1. events \in Seq(Queued) /\ toServer \in Seq(FromClient) /\ toClient \in Seq(FromServer)
  BY DEF Typed
<1> QED
  BY <1>1, Appended

\* The main thread takes an event.
LEMMA Events ==
  ASSUME Typed, NEW k, Event(k)
  PROVE  /\ main = "idle" /\ Head(events) \in Queued /\ Head(events).pdu = k
         /\ events # <<>> /\ events' = Tail(events) /\ events' \in Seq(Queued)
         /\ Range(events) = Range(events') \cup {Head(events)}
BY Taken DEF Event, Typed

\* The client takes a message: what it takes, and what it says to a request.
LEMMA ClientStep ==
  ASSUME Typed, ClientReceive
  PROVE  LET p == Head(toClient)
             d == Data(p.format, p.format \in Range(formats), copied)
         IN /\ toClient # <<>> /\ toClient' = Tail(toClient) /\ p \in FromServer
            /\ Range(toClient) = Range(toClient') \cup {p}
            /\ \/ p \in Offers /\ offered' = p.text /\ UNCHANGED <<toServer, pasted>>
               \/ /\ p \in Requests /\ toServer' = Append(toServer, d) /\ d \in Answers
                  /\ d.format = p.format /\ d.ok = (p.format \in Range(formats))
                  /\ d.text = copied
                  /\ UNCHANGED <<offered, pasted>>
               \/ /\ p \in Answers /\ pasted' = [got |-> p.text, offered |-> offered]
                  /\ UNCHANGED <<toServer, offered>>
<1> DEFINE p == Head(toClient)
<1>1. /\ toClient # <<>> /\ toClient' = Tail(toClient) /\ p \in FromServer
      /\ Range(toClient) = Range(toClient') \cup {p}
  BY Taken DEF ClientReceive, Typed
<1>2. \/ p \in Offers \/ p \in Requests \/ p \in Answers
  BY <1>1 DEF FromServer
<1>3. CASE p \in Offers
  <2>1. p.pdu = "offer"
    BY <1>3, Kinds
  <2> QED
    BY <1>1, <1>3, <2>1 DEF ClientReceive
<1>4. CASE p \in Requests
  <2>1. p.pdu = "request" /\ p.format \in Formats
    BY <1>4, Kinds
  <2>2. copied \in Nat
    BY DEF Typed
  <2>3. toServer' = Append(toServer, Data(p.format, p.format \in Range(formats), copied))
        /\ UNCHANGED <<offered, pasted>>
    BY <2>1 DEF ClientReceive
  <2> DEFINE d == Data(p.format, p.format \in Range(formats), copied)
  <2>4. /\ d \in Answers /\ d.format = p.format /\ d.text = copied
        /\ d.ok = (p.format \in Range(formats))
    <3> DEFINE ok == p.format \in Range(formats)
    <3>1. ok \in BOOLEAN
      OBVIOUS
    <3> HIDE DEF ok
    <3>2. /\ Data(p.format, ok, copied) \in Answers /\ Data(p.format, ok, copied).ok = ok
          /\ Data(p.format, ok, copied).format = p.format
          /\ Data(p.format, ok, copied).text = copied
      BY <3>1, <2>1, <2>2, Messages
    <3> QED
      BY <3>2 DEF ok
  <2> HIDE DEF d
  <2>5. toServer' = Append(toServer, d)
    BY <2>3 DEF d
  <2> QED
    BY <1>1, <1>4, <2>3, <2>4, <2>5 DEF d
<1>5. CASE p \in Answers
  <2>1. p.pdu = "data"
    BY <1>5, Kinds
  <2> QED
    BY <1>1, <1>5, <2>1 DEF ClientReceive
<1> QED
  BY <1>2, <1>3, <1>4, <1>5

\* The main thread handles a list of formats.
LEMMA ListStep ==
  ASSUME Typed, OnClientFormatList
  PROVE  LET l == Head(events)
         IN /\ l \in Lists /\ l \in Range(events)
            /\ \/ /\ requestedClientFormat' = None /\ asked' = 0
                  /\ UNCHANGED <<toClient, crossed>>
               \/ \E f \in Formats :
                    /\ f = Preferred(l.formats) /\ f # None /\ f \in Range(l.formats)
                    /\ enabled
                    /\ requestedClientFormat' = f /\ asked' = l.text
                    /\ toClient' = Append(toClient, Want(f))
                    /\ crossed' = (crossed \/ ~Expected \subseteq {f})
<1> DEFINE l == Head(events)
           g == IF enabled THEN Preferred(l.formats) ELSE None
<1>1. l \in Lists /\ l \in Range(events)
  BY Events, Kinds DEF OnClientFormatList
<1>2. l.formats \in Seq(Formats)
  BY <1>1, Kinds
<1>3. /\ requestedClientFormat' = g
      /\ toClient' = IF g = None THEN toClient ELSE Append(toClient, Want(g))
      /\ asked' = IF g = None THEN 0 ELSE l.text
      /\ crossed' = (crossed \/ (g # None /\ ~Expected \subseteq {g}))
  BY DEF OnClientFormatList
<1>4. crossed \in BOOLEAN
  BY DEF Typed
<1>5. CASE g = None
  <2> HIDE DEF g
  <2> QED
    BY <1>1, <1>3, <1>4, <1>5
<1>6. CASE g # None
  <2>1. enabled /\ g = Preferred(l.formats)
    BY <1>6
  <2>2. g \in Formats /\ g \in Range(l.formats)
    BY <1>2, <1>6, <2>1, PreferredOffered DEF Formats
  <2> HIDE DEF g
  <2> QED
    BY <1>1, <1>3, <1>6, <2>1, <2>2
<1> QED
  BY <1>5, <1>6

\* The main thread answers a request.
LEMMA RequestStep ==
  ASSUME Typed, OnClientFormatDataRequest
  PROVE  \E e \in Answers : toClient' = Append(toClient, e) /\ e.text \in {0, serverText}
<1> DEFINE f == Head(events).format
           ok == enabled /\ serverText # 0 /\ f \in {Unicode, Text, Oem}
           t == IF ok THEN CurrentText ELSE 0
<1>1. toClient' = Append(toClient, Data(f, ok, t))
  BY DEF OnClientFormatDataRequest
<1>2. f \in Formats
  BY Events, Kinds DEF OnClientFormatDataRequest
<1>3. ok \in BOOLEAN
  BY DEF Typed
<1>4. t \in Nat /\ t \in {0, serverText}
  BY DEF Typed, CurrentText
<1> HIDE DEF f, ok, t
<1> QED
  BY <1>1, <1>2, <1>3, <1>4, Messages

\* What the main thread has yet to handle are lists, requests, answers and Send.
LEMMA ComingTyped ==
  ASSUME Typed
  PROVE  /\ Coming \subseteq Queued /\ Range(toServer) \subseteq FromClient
         /\ \A m \in Coming : m.pdu = "data" => m \in Answers /\ m.text \in Nat
         /\ \A m \in Coming : m.pdu = "list" => m \in Lists /\ m.text \in Nat
<1>1. /\ Range(events) \subseteq Queued /\ Range(toServer) \subseteq FromClient
      /\ FromClient \subseteq Queued
  BY RangeOfSeq, Kinds DEF Typed
<1> QED
  BY <1>1, Kinds DEF Coming

\* What a response decodes to.
LEMMA DecodedIs ==
  ASSUME NEW f \in Formats, NEW g \in {Unicode, Text, Oem, None}, NEW t
  PROVE  /\ Decoded(f, g, t) \subseteq {0, Garbage, t}
         /\ g = None => Decoded(f, g, t) = {0}
         /\ g = f => Decoded(f, g, t) = {IF t \in malformed THEN 0 ELSE t}
<1>1. None \notin Formats
  BY DEF None, Formats, Unicode, Text, Oem, Other
<1>2. CASE g = None
  BY <1>1, <1>2 DEF Decoded, None, Unicode, Text, Oem
<1>3. CASE g = f
  BY <1>1, <1>3 DEF Decoded, None, Unicode, Text, Oem, Formats, Other
<1>4. CASE g # None /\ g # f
  BY <1>4 DEF Decoded
<1> QED
  BY <1>1, <1>2, <1>3, <1>4

\* The main thread handles an answer of the client.
LEMMA ResponseStep ==
  ASSUME Typed, OnClientFormatDataResponse
  PROVE  LET r == Head(events)
             g == requestedClientFormat
         IN /\ r \in Answers /\ r \in Range(events)
            /\ \/ UNCHANGED <<requestedClientFormat, emitted>>
               \/ /\ g # None /\ requestedClientFormat' = None
                  /\ emitted' \in {r.text, Garbage}
                  /\ g = r.format => emitted' = r.text /\ r.text \notin malformed
            /\ enabled /\ r.ok /\ g = r.format /\ r.text \notin malformed \cup {0}
                 => emitted' = r.text
<1> DEFINE r == Head(events)
           g == requestedClientFormat
           all == IF enabled /\ r.ok THEN Decoded(r.format, g, r.text) ELSE {0}
<1>1. r \in Answers /\ r \in Range(events) /\ r.format \in Formats
  BY Events, Kinds DEF OnClientFormatDataResponse
<1>2. PICK text \in all :
        IF text = 0 THEN UNCHANGED <<requestedClientFormat, emitted>>
                    ELSE emitted' = text /\ requestedClientFormat' = None
  BY DEF OnClientFormatDataResponse, Requested
<1>3. g \in {Unicode, Text, Oem, None}
  BY DEF Typed
<1>4. /\ Decoded(r.format, g, r.text) \subseteq {0, Garbage, r.text}
      /\ g = None => Decoded(r.format, g, r.text) = {0}
      /\ g = r.format =>
           Decoded(r.format, g, r.text) = {IF r.text \in malformed THEN 0 ELSE r.text}
  BY <1>1, <1>3, DecodedIs
<1>5. /\ text \in {0, Garbage, r.text}
      /\ g = None => text = 0
      /\ g = r.format => text = 0 \/ (text = r.text /\ r.text \notin malformed)
      /\ enabled /\ r.ok /\ g = r.format /\ r.text \notin malformed => text = r.text
  BY <1>2, <1>4
<1> HIDE DEF r, all
<1> QED
  BY <1>1, <1>2, <1>5 DEF r, Garbage

-----------------------------------------------------------------------------
(* Every step keeps each part of the invariant.                             *)

\* The types.
LEMMA NextTyped == Typed /\ [Next]_vars => Typed'
<1> SUFFICES ASSUME Typed, [Next]_vars PROVE Typed'
  OBVIOUS
<1>1. CASE Initialize
  <2>1. /\ seenInit' \in BOOLEAN /\ initialized' \in BOOLEAN /\ context' \in BOOLEAN
        /\ session' \in {"check", "closing"}
    BY <1>1 DEF Initialize, Typed, Visible
  <2> QED
    BY <1>1, <2>1 DEF Initialize, Typed, flagVars, wireVars, clientVars
<1>2. CASE InitializeCheck
  <2>1. events' \in Seq(Queued)
    BY <1>2, Kinds, Queues DEF Typed, InitializeCheck
  <2> QED
    BY <1>2, <2>1 DEF InitializeCheck, Typed, flagVars, wireVars, clientVars
<1>3. CASE Stop
  BY <1>3 DEF Stop, Typed, flagVars, wireVars, clientVars
<1>4. CASE Free
  BY <1>4 DEF Free, Typed, flagVars, wireVars, clientVars
<1>5. ASSUME NEW b \in BOOLEAN, SetEnabled(b) PROVE Typed'
  <2>1. seenMain' \in [enabled : BOOLEAN, hasText : BOOLEAN]
    BY <1>5 DEF SetEnabled, Typed, Visible
  <2> QED
    BY <1>5, <2>1 DEF SetEnabled, Typed, flagVars, wireVars, clientVars
<1>6. CASE SetServerText
  <2>1. serverText' \in 0..MaxTexts
    BY <1>6, ClipboardAssumption DEF Typed, SetServerText
  <2>2. seenMain' \in [enabled : BOOLEAN, hasText : BOOLEAN]
    BY <1>6 DEF SetServerText, Typed, Visible
  <2> QED
    BY <1>6, <2>1, <2>2 DEF SetServerText, Typed, flagVars, wireVars, clientVars
<1>7. CASE Check
  <2>1. events' \in Seq(Queued)
    BY <1>7, Kinds, Queues DEF Typed, Check
  <2> QED
    BY <1>7, <2>1 DEF Check, MainFlags, Typed, flagVars, wireVars, clientVars
<1>8. CASE SendServerData
  <2>1. events' \in Seq(Queued)
    BY <1>8, Events DEF SendServerData
  <2> QED
    BY <1>8, <2>1 DEF SendServerData, Typed, flagVars, wireVars, clientVars
<1>9. CASE ServerFormatList
  <2>1. [pdu |-> "offer", text |-> serverText] \in FromServer
    BY Messages DEF Typed, FromServer
  <2>2. toClient' \in Seq(FromServer)
    BY <1>9, <2>1, Queues DEF Typed, ServerFormatList
  <2> QED
    BY <1>9, <2>2 DEF ServerFormatList, Typed, flagVars, wireVars, clientVars
<1>10. CASE OnClientFormatList
  <2> DEFINE f == IF enabled THEN Preferred(Head(events).formats) ELSE None
  <2>1. events' \in Seq(Queued) /\ Head(events) \in Lists
    BY <1>10, Events, Kinds DEF OnClientFormatList
  <2>2. f \in {Unicode, Text, Oem, None}
    BY <2>1, Kinds, PreferredOffered
  <2>3. /\ requestedClientFormat' = f
        /\ toClient' = IF f = None THEN toClient ELSE Append(toClient, Want(f))
        /\ crossed' \in BOOLEAN
    BY <1>10 DEF OnClientFormatList, Typed
  <2> HIDE DEF f
  <2>4. f # None => Want(f) \in FromServer
    BY <2>2, Messages DEF Formats, FromServer
  <2>5. toClient' \in Seq(FromServer)
    BY <2>3, <2>4, Queues DEF Typed
  <2> QED
    BY <1>10, <2>1, <2>2, <2>3, <2>5 DEF OnClientFormatList, Handled, Typed, flagVars, wireVars, clientVars
<1>11. CASE OnClientFormatDataRequest
  <2>1. events' \in Seq(Queued) /\ Head(events) \in Requests
    BY <1>11, Events, Kinds DEF OnClientFormatDataRequest
  <2>2. \E f \in Formats, ok \in BOOLEAN, t \in Nat : toClient' = Append(toClient, Data(f, ok, t))
    <3> DEFINE f == Head(events).format
               ok == enabled /\ serverText # 0 /\ f \in {Unicode, Text, Oem}
               t == IF ok THEN CurrentText ELSE 0
    <3>1. toClient' = Append(toClient, Data(f, ok, t))
      BY <1>11 DEF OnClientFormatDataRequest
    <3>2. f \in Formats /\ ok \in BOOLEAN /\ t \in Nat
      BY <2>1, Kinds DEF Typed, CurrentText
    <3> HIDE DEF f, ok, t
    <3> QED
      BY <3>1, <3>2
  <2>3. toClient' \in Seq(FromServer)
    BY <2>2, Messages, Queues DEF FromServer
  <2> QED
    BY <1>11, <2>1, <2>3 DEF OnClientFormatDataRequest, Handled, Typed, flagVars, wireVars, clientVars
<1>12. CASE OnClientFormatDataResponse
  <2>1. events' \in Seq(Queued)
    BY <1>12, Events DEF OnClientFormatDataResponse
  <2>2. requestedClientFormat' \in {Unicode, Text, Oem, None}
    BY <1>12 DEF OnClientFormatDataResponse, Typed
  <2> QED
    BY <1>12, <2>1, <2>2 DEF OnClientFormatDataResponse, Handled, Typed, flagVars, wireVars, clientVars
<1>13. CASE Receive
  <2>1. toServer # <<>> /\ toServer' = Tail(toServer)
        /\ events' = Append(events, Head(toServer))
    BY <1>13 DEF Receive
  <2>2. Head(toServer) \in Queued /\ toServer' \in Seq(FromClient)
    BY <2>1, Taken, Kinds DEF Typed
  <2>3. events' \in Seq(Queued)
    BY <2>1, <2>2, Queues
  <2> QED
    BY <1>13, <2>2, <2>3 DEF Receive, Typed, flagVars, wireVars, clientVars
<1>14. CASE Drain
  <2>1. MainFlags \in [enabled : BOOLEAN, hasText : BOOLEAN]
    BY DEF MainFlags, Typed
  <2>2. seenInit' \in BOOLEAN /\ seenMain' \in [enabled : BOOLEAN, hasText : BOOLEAN]
    BY <1>14, <2>1 DEF Drain, Typed
  <2> QED
    BY <1>14, <2>2 DEF Drain, Typed, flagVars, wireVars, clientVars
<1>15. ASSUME NEW fs \in FormatLists, Copy(fs) PROVE Typed'
  <2>1. List(fs) \in FromClient
    BY <1>15, Messages DEF Typed, FromClient
  <2>2. toServer' \in Seq(FromClient)
    BY <1>15, <2>1, Queues DEF Copy
  <2>3. copied' \in 0..MaxCopies /\ fs \in Seq(Formats)
    BY <1>15, ClipboardAssumption DEF Copy, Typed
  <2> QED
    BY <1>15, <2>2, <2>3 DEF Copy, Typed, flagVars, wireVars, clientVars
<1>16. ASSUME NEW f \in Formats, Paste(f) PROVE Typed'
  <2>1. Want(f) \in FromClient
    BY <1>16, Messages DEF FromClient
  <2>2. toServer' \in Seq(FromClient)
    BY <1>16, <2>1, Queues DEF Paste
  <2> QED
    BY <1>16, <2>2 DEF Paste, Typed, flagVars, wireVars, clientVars
<1>17. CASE ClientReceive
  <2>1. toClient' \in Seq(FromServer)
    BY <1>17, Taken DEF ClientReceive, Typed
  <2>2. \/ toServer' = toServer \/ \E d \in Answers : toServer' = Append(toServer, d)
    BY <1>17, ClientStep
  <2>3. toServer' \in Seq(FromClient)
    <3>1. toServer \in Seq(FromClient)
      BY DEF Typed
    <3> QED
      BY <2>2, <3>1, Kinds, Queues
  <2> QED
    BY <1>17, <2>1, <2>3 DEF ClientReceive, Typed, flagVars, wireVars, clientVars
<1>18. CASE UNCHANGED <<vars>>
  BY <1>18 DEF vars, Typed, flagVars, wireVars, clientVars
<1> QED
  BY <1>1, <1>2, <1>3, <1>4, <1>5, <1>6, <1>7, <1>8, <1>9, <1>10, <1>11, <1>12,
     <1>13, <1>14, <1>15, <1>16, <1>17, <1>18
     DEF Next, MainLoop, Next, MainLoop, vars

\* A PDU that has been handled was the only one.
LEMMA HandledKeeps ==
  ASSUME Typed, CallInv, NEW k \in {"list", "request", "data"}, Event(k), Handled
  PROVE  CallInv'
<1>1. /\ events # <<>> /\ events' = Tail(events) /\ Head(events).pdu = k
      /\ channel' = "idle"
  BY Events DEF Handled
<1>2. OneCall(events') /\ \A m \in Range(events') : m.pdu = "send"
  BY <1>1, CallTaken DEF Typed, CallInv
<1> QED
  BY <1>1, <1>2 DEF CallInv

\* A call of the channel's thread is queued once, and waited for.
LEMMA NextCallInv == Typed /\ CallInv /\ [Next]_vars => CallInv'
<1> SUFFICES ASSUME Typed, CallInv, [Next]_vars PROVE CallInv'
  OBVIOUS
<1>1. CASE InitializeCheck
  <2>1. CASE events' = Append(events, Send)
    <3>1. OneCall(events')
      BY <2>1, Kinds, CallAppended DEF Typed, CallInv
    <3>2. Range(events') = Range(events) \cup {Send} /\ channel' = channel
      BY <1>1, <2>1, Kinds, Queues DEF InitializeCheck
    <3> QED
      BY <3>1, <3>2, Kinds DEF CallInv
  <2>2. CASE UNCHANGED <<events, channel>>
    BY <2>2 DEF CallInv
  <2> QED
    BY <1>1, <2>1, <2>2 DEF InitializeCheck
<1>2. CASE Check
  <2>1. CASE events' = Append(events, Send)
    <3>1. OneCall(events')
      BY <2>1, Kinds, CallAppended DEF Typed, CallInv
    <3>2. Range(events') = Range(events) \cup {Send} /\ channel' = channel
      BY <1>2, <2>1, Kinds, Queues DEF Check
    <3> QED
      BY <3>1, <3>2, Kinds DEF CallInv
  <2>2. CASE UNCHANGED <<events, channel>>
    BY <2>2 DEF CallInv
  <2> QED
    BY <1>2, <2>1, <2>2 DEF Check
<1>3. CASE SendServerData
  <2>1. /\ events # <<>> /\ events' = Tail(events) /\ Head(events).pdu = "send"
        /\ Range(events) = Range(events') \cup {Head(events)}
        /\ channel' = channel
    BY <1>3, Events DEF SendServerData
  <2>2. OneCall(events')
    BY <2>1, CallTaken DEF Typed, CallInv
  <2> QED
    BY <2>1, <2>2 DEF CallInv
<1>4. CASE OnClientFormatList
  BY <1>4, HandledKeeps DEF OnClientFormatList
<1>5. CASE OnClientFormatDataRequest
  BY <1>5, HandledKeeps DEF OnClientFormatDataRequest
<1>6. CASE OnClientFormatDataResponse
  BY <1>6, HandledKeeps DEF OnClientFormatDataResponse
<1>7. CASE Receive
  <2>1. /\ toServer # <<>> /\ channel = "idle" /\ channel' = "blocked"
        /\ events' = Append(events, Head(toServer))
    BY <1>7 DEF Receive
  <2>2. /\ Head(toServer) \in Queued /\ Head(toServer).pdu # "send"
        /\ \A m \in Range(events) : m.pdu = "send"
    BY <2>1, Taken, Kinds DEF Typed, CallInv, FromClient
  <2>3. OneCall(events')
    BY <2>1, <2>2, CallAppended DEF Typed, CallInv
  <2>4. Range(events') = Range(events) \cup {Head(toServer)}
    BY <2>1, <2>2, Queues
  <2> QED
    BY <2>1, <2>2, <2>3, <2>4 DEF CallInv
<1>8. CASE UNCHANGED <<channel, events>>
  BY <1>8 DEF CallInv
<1> QED
  BY <1>1, <1>2, <1>3, <1>4, <1>5, <1>6, <1>7, <1>8
     DEF Next, MainLoop, Next, MainLoop, vars, Initialize, Stop, Free, SetEnabled, SetServerText,
         ServerFormatList, Drain, Copy, Paste, ClientReceive, flagVars, wireVars,
         clientVars, Handled

\* A text that is not advertised is about to be.
LEMMA NextHostInv == Typed /\ HostInv /\ [Next]_vars => HostInv'
<1> SUFFICES ASSUME Typed, HostInv, [Next]_vars PROVE HostInv'
  OBVIOUS
<1>1. CASE Initialize
  <2>1. /\ ~initialized /\ session' \in {"check", "closing"}
        /\ initialized' => context'
    <3>1. \/ context' /\ session' = "check"
          \/ initialized' = initialized /\ session' = "closing"
      BY <1>1 DEF Initialize
    <3>2. ~initialized
      BY <1>1 DEF Initialize, HostInv
    <3> QED
      BY <3>1, <3>2
  <2> QED
    BY <1>1, <2>1 DEF HostInv
<1>2. CASE InitializeCheck
  <2>1. \/ events' = events \/ Range(events') = Range(events) \cup {Send}
    BY <1>2, Kinds, Queues DEF InitializeCheck
  <2>2. ASSUME TextWaits PROVE Send \in Range(events')
    <3>1. events' = Append(events, Send)
      BY <1>2, <2>2 DEF InitializeCheck
    <3> QED
      BY <3>1, Kinds, Queues
  <2> QED
    BY <1>2, <2>1, <2>2 DEF InitializeCheck, TextWaits, HostInv, flagVars, wireVars, clientVars, MainFlags, Typed
<1>3. CASE Stop
  BY <1>3 DEF Stop, HostInv, flagVars, wireVars, clientVars
<1>4. CASE Free
  BY <1>4 DEF Free, HostInv, flagVars, wireVars, clientVars
<1>5. ASSUME NEW b \in BOOLEAN, SetEnabled(b) PROVE HostInv'
  BY <1>5 DEF SetEnabled, HostInv, flagVars, wireVars, clientVars
<1>6. CASE SetServerText
  BY <1>6 DEF SetServerText, HostInv, flagVars, wireVars, clientVars
<1>7. CASE Check
  <2>1. \/ events' = events \/ Range(events') = Range(events) \cup {Send}
    BY <1>7, Kinds, Queues DEF Check
  <2>2. ASSUME seenInit, enabled, serverText # 0 PROVE Send \in Range(events')
    <3>1. events' = Append(events, Send)
      BY <1>7, <2>2 DEF Check
    <3> QED
      BY <3>1, Kinds, Queues
  <2> QED
    BY <1>7, <2>1, <2>2 DEF Check, HostInv, flagVars, wireVars, clientVars, MainFlags, Typed
<1>8. CASE SendServerData
  BY <1>8 DEF SendServerData, Typed, HostInv, flagVars, wireVars, clientVars
<1>9. CASE ServerFormatList
  BY <1>9 DEF ServerFormatList, HostInv, flagVars, wireVars, clientVars
<1>10. CASE OnClientFormatList
  <2>1. Send \in Range(events) => Send \in Range(events')
    BY <1>10, Events, Kinds DEF OnClientFormatList
  <2> QED
    BY <1>10, <2>1 DEF OnClientFormatList, Handled, Event, HostInv, flagVars, wireVars, clientVars
<1>11. CASE OnClientFormatDataRequest
  <2>1. Send \in Range(events) => Send \in Range(events')
    BY <1>11, Events, Kinds DEF OnClientFormatDataRequest
  <2> QED
    BY <1>11, <2>1 DEF OnClientFormatDataRequest, Handled, Event, HostInv, flagVars, wireVars, clientVars
<1>12. CASE OnClientFormatDataResponse
  <2>1. Send \in Range(events) => Send \in Range(events')
    BY <1>12, Events, Kinds DEF OnClientFormatDataResponse
  <2> QED
    BY <1>12, <2>1 DEF OnClientFormatDataResponse, Handled, Event, HostInv, flagVars, wireVars, clientVars
<1>13. CASE Receive
  <2>1. Range(events) \subseteq Range(events')
    <3>1. Head(toServer) \in Queued
      BY <1>13, Taken, Kinds DEF Typed, Receive
    <3> QED
      BY <1>13, <3>1, Queues DEF Receive
  <2> QED
    BY <1>13, <2>1 DEF Receive, HostInv, flagVars, wireVars, clientVars
<1>14. CASE UNCHANGED <<session, context, initialized, enabled, serverText, missed, advertised, events, main>>
  BY <1>14 DEF HostInv
<1> QED
  BY <1>1, <1>2, <1>3, <1>4, <1>5, <1>6, <1>7, <1>8, <1>9, <1>10, <1>11, <1>12,
     <1>13, <1>14
     DEF Next, MainLoop, Next, MainLoop, vars, Drain, Copy, Paste, ClientReceive, flagVars, wireVars,
         clientVars, Handled

\* No answer of the host overtakes an offer.
LEMMA NextOfferInv == Typed /\ OfferInv /\ [Next]_vars => OfferInv'
<1> SUFFICES ASSUME Typed, OfferInv, [Next]_vars PROVE OfferInv'
  OBVIOUS
<1>1. CASE SetServerText
  <2>1. serverText \in Nat /\ serverText' = serverText + 1
        /\ UNCHANGED <<toClient, offered, advertised, pasted>>
    BY <1>1 DEF SetServerText, Typed, wireVars, clientVars
  <2>2. /\ \A m \in Range(toClient) : m.pdu = "offer" => m.text <= serverText'
        /\ \A m \in Range(toClient) : m.pdu = "data" => m.text <= serverText'
    <3>1. Range(toClient) \subseteq FromServer
      BY RangeOfSeq DEF Typed
    <3>2. \A m \in FromServer : m.pdu \in {"offer", "data"} => m.text \in Nat
      BY Kinds
    <3> QED
      BY <2>1, <3>1, <3>2 DEF OfferInv
  <2> QED
    BY <2>1, <2>2 DEF OfferInv, PasteIsCurrent
<1>2. CASE ServerFormatList
  <2> DEFINE e == [pdu |-> "offer", text |-> serverText]
  <2>1. CASE UNCHANGED <<toClient, serverText, offered, advertised, pasted>>
    BY <2>1 DEF OfferInv, PasteIsCurrent
  <2>2. CASE /\ toClient' = Append(toClient, e) /\ advertised' = serverText
             /\ UNCHANGED <<serverText, offered, pasted>>
    <3>1. serverText \in Nat /\ e \in FromServer /\ e.pdu = "offer" /\ e.text = serverText
      BY Messages, Kinds DEF Typed
    <3> HIDE DEF e
    <3>2. InOrder(toClient', "offer", {0})
      BY <2>2, <3>1, OrderAppended DEF Typed, OfferInv
    <3>3. Range(toClient') = Range(toClient) \cup {e}
      BY <2>2, <3>1, Queues
    <3> QED
      BY <2>2, <3>1, <3>2, <3>3 DEF OfferInv, PasteIsCurrent
  <2> QED
    BY <1>2, <2>1, <2>2 DEF ServerFormatList, clientVars
<1>3. CASE OnClientFormatList
  <2>1. UNCHANGED <<serverText, offered, advertised, pasted>>
    BY <1>3 DEF OnClientFormatList, Handled, clientVars
  <2>2. CASE UNCHANGED toClient
    BY <2>1, <2>2 DEF OfferInv, PasteIsCurrent
  <2>3. ASSUME NEW f \in Formats, toClient' = Append(toClient, Want(f))
        PROVE  OfferInv'
    <3> DEFINE e == Want(f)
    <3>1. e \in FromServer /\ e.pdu = "request"
      BY Messages, Kinds
    <3> HIDE DEF e
    <3>2. InOrder(toClient', "offer", {0})
      BY <2>3, <3>1, OrderAppended DEF Typed, OfferInv, e
    <3>3. Range(toClient') = Range(toClient) \cup {e}
      BY <2>3, <3>1, Queues DEF e
    <3> QED
      BY <2>1, <3>1, <3>2, <3>3 DEF OfferInv, PasteIsCurrent
  <2> QED
    BY <1>3, ListStep, <2>2, <2>3
<1>4. CASE OnClientFormatDataRequest
  <2>1. UNCHANGED <<serverText, offered, advertised, pasted>>
    BY <1>4 DEF OnClientFormatDataRequest, Handled, clientVars
  <2>2. PICK e \in Answers : toClient' = Append(toClient, e) /\ e.text \in {0, serverText}
    BY <1>4, RequestStep
  <2>3. e \in FromServer /\ e.pdu = "data" /\ e.text \in Nat /\ serverText \in Nat
    BY <2>2, Kinds DEF Typed
  <2>4. InOrder(toClient', "offer", {0})
    BY <2>2, <2>3, OrderAppended DEF Typed, OfferInv
  <2>5. Range(toClient') = Range(toClient) \cup {e}
    BY <2>2, <2>3, Queues
  <2> QED
    BY <2>1, <2>2, <2>3, <2>4, <2>5 DEF OfferInv, PasteIsCurrent
<1>5. CASE ClientReceive
  <2> DEFINE p == Head(toClient)
  <2>1. /\ toClient # <<>> /\ toClient' = Tail(toClient) /\ p \in FromServer
        /\ Range(toClient) = Range(toClient') \cup {p}
        /\ UNCHANGED <<serverText, advertised>>
    BY <1>5, ClientStep DEF ClientReceive
  <2>2. /\ InOrder(toClient', "offer", {0})
        /\ p.pdu = "offer" => \A m \in Range(toClient') :
             m.pdu = "data" /\ m.text \notin {0} => p.text <= m.text
    BY <2>1, OrderTaken DEF Typed, OfferInv
  <2>3. \/ p \in Offers /\ offered' = p.text /\ UNCHANGED pasted
        \/ UNCHANGED <<offered, pasted>>
        \/ /\ p \in Answers /\ pasted' = [got |-> p.text, offered |-> offered]
           /\ UNCHANGED offered
    BY <1>5, ClientStep
  <2> HIDE DEF p
  <2>4. CASE p \in Offers /\ offered' = p.text /\ UNCHANGED pasted
    <3>1. p.pdu = "offer" /\ p.text \in Nat
      BY <2>4, Kinds
    <3> QED
      BY <2>1, <2>2, <2>4, <3>1 DEF OfferInv, PasteIsCurrent
  <2>5. CASE UNCHANGED <<offered, pasted>>
    BY <2>1, <2>2, <2>5 DEF OfferInv, PasteIsCurrent
  <2>6. CASE /\ p \in Answers /\ pasted' = [got |-> p.text, offered |-> offered]
             /\ UNCHANGED offered
    <3>1. p.pdu = "data" /\ p.text \in Nat
      BY <2>6, Kinds
    <3> QED
      BY <2>1, <2>2, <2>6, <3>1 DEF OfferInv, PasteIsCurrent
  <2> QED
    BY <2>3, <2>4, <2>5, <2>6
<1>6. CASE UNCHANGED <<toClient, serverText, offered, advertised, pasted>>
  BY <1>6 DEF OfferInv, PasteIsCurrent
<1> QED
  BY <1>1, <1>2, <1>3, <1>4, <1>5, <1>6
     DEF Next, MainLoop, Next, MainLoop, vars, Initialize, InitializeCheck, Stop, Free, SetEnabled,
         Check, SendServerData, OnClientFormatDataResponse, Receive, Drain, Copy, Paste,
         flagVars, wireVars, clientVars, Handled

\* Steps that add nothing to what the main thread has yet to handle.
LEMMA CopyKept ==
  ASSUME Typed, CopyInv, UNCHANGED <<copied, formats, toServer>>,
         asked' \in {asked, 0}, asked' # 0 => enabled', emitted' \in -1..copied,
         requestedClientFormat' \in {requestedClientFormat, None},
         Range(events') \subseteq Range(events) \cup {Send}
  PROVE  CopyInv'
<1>1. Send.pdu = "send"
  BY Kinds
<1>2. \A m \in Coming' : m.pdu \in {"list", "data"} => m \in Coming
  BY <1>1 DEF Coming
<1>3. \A l \in Range(events') : l.pdu = "list" => l \in Range(events)
  BY <1>1
<1>4. asked' = copied' => \A m \in Coming' : m.pdu = "data" => m.text = copied'
  <2>1. SUFFICES ASSUME asked' = copied', NEW m \in Coming, m.pdu = "data"
                 PROVE  m.text = copied
    BY <1>2
  <2>2. m.text \in Nat /\ m.text <= copied /\ copied \in Nat
    BY <2>1, ComingTyped DEF CopyInv, Typed
  <2> QED
    BY <2>1, <2>2 DEF CopyInv
<1>5. asked' \in 0..copied'
  BY DEF CopyInv, Typed
<1>6. asked' = copied' /\ asked' # 0 /\ requestedClientFormat' # None
        => requestedClientFormat' \in Range(formats)
  BY DEF CopyInv
<1> QED
  BY <1>2, <1>3, <1>4, <1>5, <1>6 DEF CopyInv

\* Answers under way are of the current copy once its list has been handled.
LEMMA NextCopyInv == Typed /\ CallInv /\ CopyInv /\ [Next]_vars => CopyInv'
<1> SUFFICES ASSUME Typed, CallInv, CopyInv, [Next]_vars PROVE CopyInv'
  OBVIOUS
<1>1. CASE InitializeCheck
  <2>1. UNCHANGED <<copied, formats, toServer, asked, enabled, emitted, requestedClientFormat>>
    BY <1>1 DEF InitializeCheck, flagVars, wireVars, clientVars
  <2>2. Range(events') \subseteq Range(events) \cup {Send}
    BY <1>1, Kinds, Queues DEF InitializeCheck
  <2>3. emitted' \in -1..copied /\ (asked' # 0 => enabled')
    BY <2>1 DEF CopyInv
  <2> QED
    BY <2>1, <2>2, <2>3, CopyKept
<1>2. CASE Free
  <2>1. /\ UNCHANGED <<copied, formats, toServer, events, emitted>>
        /\ asked' = 0 /\ requestedClientFormat' = None
    BY <1>2 DEF Free, flagVars, wireVars, clientVars
  <2>2. emitted' \in -1..copied
    BY <2>1 DEF CopyInv
  <2> QED
    BY <2>1, <2>2, CopyKept
<1>3. ASSUME NEW b \in BOOLEAN, SetEnabled(b) PROVE CopyInv'
  <2>1. /\ UNCHANGED <<copied, formats, toServer, events, emitted>>
        /\ asked' = 0 /\ requestedClientFormat' = None
    BY <1>3 DEF SetEnabled, flagVars, wireVars, clientVars
  <2>2. emitted' \in -1..copied
    BY <2>1 DEF CopyInv
  <2> QED
    BY <2>1, <2>2, CopyKept
<1>4. CASE Check
  <2>1. UNCHANGED <<copied, formats, toServer, asked, enabled, emitted, requestedClientFormat>>
    BY <1>4 DEF Check, flagVars, wireVars, clientVars
  <2>2. Range(events') \subseteq Range(events) \cup {Send}
    BY <1>4, Kinds, Queues DEF Check
  <2>3. emitted' \in -1..copied /\ (asked' # 0 => enabled')
    BY <2>1 DEF CopyInv
  <2> QED
    BY <2>1, <2>2, <2>3, CopyKept
<1>5. CASE SendServerData
  <2>1. UNCHANGED <<copied, formats, toServer, asked, enabled, emitted, requestedClientFormat>>
    BY <1>5 DEF SendServerData, Handled, flagVars, wireVars, clientVars
  <2>2. Range(events') \subseteq Range(events) \cup {Send}
    BY <1>5, Events DEF SendServerData
  <2>3. emitted' \in -1..copied /\ (asked' # 0 => enabled')
    BY <2>1 DEF CopyInv
  <2> QED
    BY <2>1, <2>2, <2>3, CopyKept
<1>6. CASE OnClientFormatList
  <2> DEFINE l == Head(events)
  <2>1. UNCHANGED <<copied, formats, toServer, emitted, enabled>>
    BY <1>6 DEF OnClientFormatList, Handled, flagVars, wireVars, clientVars
  <2>2. Range(events') \subseteq Range(events)
    BY <1>6, Events DEF OnClientFormatList
  <2>3. emitted' \in -1..copied
    BY <2>1 DEF CopyInv
  <2>4. CASE requestedClientFormat' = None /\ asked' = 0
    BY <2>1, <2>2, <2>3, <2>4, CopyKept
  <2>5. ASSUME NEW f \in Formats, f \in Range(l.formats), enabled,
               requestedClientFormat' = f, asked' = l.text
        PROVE  CopyInv'
    <3>1. l \in Lists /\ l \in Range(events) /\ l.pdu = "list"
      BY <1>6, ListStep, Kinds
    <3>2. l.text \in 1..copied /\ (l.text = copied => l.formats = formats)
      BY <3>1 DEF CopyInv, Coming
    <3>3. \A m \in Range(events') : m.pdu = "send"
      BY <1>6, Events, CallTaken, <3>1 DEF OnClientFormatList, Typed, CallInv
    <3> HIDE DEF l
    <3>4. ASSUME l.text = copied, NEW m \in Coming', m.pdu = "data" PROVE m.text = copied
      <4>1. m \in Range(toServer) /\ m \in Coming
        BY <2>1, <3>3, <3>4 DEF Coming
      <4>2. l.text <= m.text /\ m.text <= copied /\ m.text \in Nat /\ copied \in Nat
        BY <4>1, <3>1, <3>4, ComingTyped DEF CopyInv, Typed
      <4> QED
        BY <4>2, <3>4
    <3>5. \A m \in Coming' : m \in Coming
      BY <2>1, <2>2 DEF Coming
    <3>6. /\ asked' \in 0..copied' /\ emitted' \in -1..copied' /\ enabled'
          /\ asked' = copied' => requestedClientFormat' \in Range(formats')
      BY <2>1, <2>3, <2>5, <3>2
    <3>7. asked' = copied' => \A m \in Coming' : m.pdu = "data" => m.text = copied'
      BY <2>1, <2>5, <3>4
    <3> QED
      BY <2>1, <3>3, <3>5, <3>6, <3>7 DEF CopyInv
  <2> QED
    BY <1>6, <2>4, <2>5, ListStep
<1>7. CASE OnClientFormatDataRequest
  <2>1. UNCHANGED <<copied, formats, toServer, asked, enabled, emitted, requestedClientFormat>>
    BY <1>7 DEF OnClientFormatDataRequest, Handled, flagVars, wireVars, clientVars
  <2>2. Range(events') \subseteq Range(events) \cup {Send}
    BY <1>7, Events DEF OnClientFormatDataRequest
  <2>3. emitted' \in -1..copied /\ (asked' # 0 => enabled')
    BY <2>1 DEF CopyInv
  <2> QED
    BY <2>1, <2>2, <2>3, CopyKept
<1>8. CASE OnClientFormatDataResponse
  <2> DEFINE r == Head(events)
  <2>1. UNCHANGED <<copied, formats, toServer, asked, enabled>>
    BY <1>8 DEF OnClientFormatDataResponse, Handled, flagVars, wireVars, clientVars
  <2>2. Range(events') \subseteq Range(events) \cup {Send}
    BY <1>8, Events DEF OnClientFormatDataResponse
  <2>3. /\ r \in Answers /\ r \in Range(events) /\ emitted' \in {emitted, r.text, Garbage}
        /\ requestedClientFormat' \in {requestedClientFormat, None}
    BY <1>8, ResponseStep
  <2> HIDE DEF r
  <2>4. r.text \in Nat /\ r.text <= copied
    BY <2>3, Kinds DEF CopyInv, Coming
  <2>5. emitted' \in -1..copied /\ (asked' # 0 => enabled')
    BY <2>1, <2>3, <2>4 DEF CopyInv, Typed, Garbage
  <2> QED
    BY <2>1, <2>2, <2>3, <2>5, CopyKept
<1>9. CASE Receive
  <2> DEFINE h == Head(toServer)
  <2>1. /\ UNCHANGED <<copied, formats, asked, enabled, emitted, requestedClientFormat>>
        /\ toServer # <<>> /\ toServer' = Tail(toServer) /\ events' = Append(events, h)
    BY <1>9 DEF Receive, flagVars, wireVars, clientVars
  <2>2. h \in Queued /\ Range(toServer) = Range(toServer') \cup {h}
    BY <2>1, Taken, Kinds DEF Typed
  <2>3. Range(events') = Range(events) \cup {h}
    BY <2>1, <2>2, Queues
  <2>4. Coming' = Coming
    BY <2>2, <2>3 DEF Coming
  <2>5. /\ InOrder(toServer', "list", {})
        /\ h.pdu = "list" => \A m \in Range(toServer') :
             m.pdu = "data" /\ m.text \notin {} => h.text <= m.text
    BY <2>1, OrderTaken DEF Typed, CopyInv
  <2> HIDE DEF h
  <2>6. \A l \in Range(events'), m \in Range(toServer') :
          l.pdu = "list" /\ m.pdu = "data" => l.text <= m.text
    BY <2>2, <2>3, <2>5 DEF CopyInv
  <2> QED
    BY <2>1, <2>4, <2>5, <2>6 DEF CopyInv
<1>10. ASSUME NEW fs \in FormatLists, Copy(fs) PROVE CopyInv'
  <2> DEFINE e == List(fs)
  <2>1. /\ UNCHANGED <<events, asked, enabled, emitted, requestedClientFormat>>
        /\ toServer' = Append(toServer, e) /\ copied' = copied + 1 /\ formats' = fs
    BY <1>10 DEF Copy, flagVars, wireVars, clientVars
  <2>2. /\ e \in FromClient /\ e.pdu = "list" /\ e.formats = fs /\ e.text = copied + 1
        /\ copied \in Nat
    BY <1>10, Messages, Kinds DEF Typed
  <2> HIDE DEF e
  <2>3. Range(toServer') = Range(toServer) \cup {e}
    BY <2>1, <2>2, Queues
  <2>4. InOrder(toServer', "list", {})
    BY <2>1, <2>2, OrderAppended DEF Typed, CopyInv
  <2>5. Coming' = Coming \cup {e}
    BY <2>1, <2>3 DEF Coming
  <2>6. \A m \in Coming' : m.pdu = "list" =>
          m.text \in 1..copied' /\ (m.text = copied' => m.formats = formats')
    BY <2>1, <2>2, <2>5 DEF CopyInv
  <2>7. \A m \in Coming' : m.pdu = "data" => m.text <= copied' /\ m.text # copied'
    BY <2>1, <2>2, <2>5, ComingTyped DEF CopyInv
  <2>8. asked' \in 0..copied' /\ asked' # copied' /\ emitted' \in -1..copied'
    BY <2>1, <2>2 DEF CopyInv
  <2>9. \A l \in Range(events'), m \in Range(toServer') :
          l.pdu = "list" /\ m.pdu = "data" => l.text <= m.text
    BY <2>1, <2>2, <2>3 DEF CopyInv
  <2> QED
    BY <2>1, <2>4, <2>6, <2>7, <2>8, <2>9 DEF CopyInv
<1>11. ASSUME NEW f \in Formats, Paste(f) PROVE CopyInv'
  <2> DEFINE e == Want(f)
  <2>1. /\ UNCHANGED <<events, asked, enabled, emitted, requestedClientFormat, copied, formats>>
        /\ toServer' = Append(toServer, e)
    BY <1>11 DEF Paste, flagVars, wireVars, clientVars
  <2>2. e \in FromClient /\ e.pdu = "request"
    BY <1>11, Messages, Kinds
  <2> HIDE DEF e
  <2>3. Range(toServer') = Range(toServer) \cup {e}
    BY <2>1, <2>2, Queues
  <2>4. InOrder(toServer', "list", {})
    BY <2>1, <2>2, OrderAppended DEF Typed, CopyInv
  <2>5. Coming' = Coming \cup {e}
    BY <2>1, <2>3 DEF Coming
  <2> QED
    BY <2>1, <2>2, <2>3, <2>4, <2>5 DEF CopyInv
<1>12. CASE ClientReceive
  <2>1. UNCHANGED <<events, asked, enabled, emitted, requestedClientFormat, copied, formats>>
    BY <1>12 DEF ClientReceive, flagVars, wireVars, clientVars
  <2>2. CASE UNCHANGED toServer
    BY <2>1, <2>2 DEF CopyInv, Coming
  <2>3. ASSUME NEW d \in Answers, toServer' = Append(toServer, d), d.text = copied,
               d.ok <=> d.format \in Range(formats)
        PROVE  CopyInv'
    <3>1. d \in FromClient /\ d.pdu = "data" /\ copied \in Nat
      BY Kinds DEF Typed
    <3>2. Range(toServer') = Range(toServer) \cup {d}
      BY <2>3, <3>1, Queues
    <3>3. \A m \in Coming : m.pdu = "list" => m.text <= copied
      BY <3>1 DEF CopyInv
    <3>4. InOrder(toServer', "list", {})
      <4>1. \A m \in Range(toServer) : m.pdu = "list" => m.text <= d.text
        BY <2>3, <3>3 DEF Coming
      <4>2. toServer \in Seq(FromClient) /\ InOrder(toServer, "list", {})
        BY DEF Typed, CopyInv
      <4> QED
        BY <2>3, <3>1, <4>1, <4>2, OrderAppended
    <3>5. Coming' = Coming \cup {d}
      BY <2>1, <3>2 DEF Coming
    <3>6. \A l \in Range(events'), m \in Range(toServer') :
            l.pdu = "list" /\ m.pdu = "data" => l.text <= m.text
      BY <2>1, <2>3, <3>2, <3>3 DEF CopyInv, Coming
    <3>7. \A m \in Coming' : m.pdu = "list" =>
            m.text \in 1..copied' /\ (m.text = copied' => m.formats = formats')
      BY <2>1, <3>1, <3>5 DEF CopyInv
    <3>8. \A m \in Coming' : m.pdu = "data" =>
            m.text <= copied' /\ (m.text = copied' => (m.ok <=> m.format \in Range(formats')))
      BY <2>1, <2>3, <3>1, <3>5 DEF CopyInv
    <3>9. asked' = copied' => \A m \in Coming' : m.pdu = "data" => m.text = copied'
      BY <2>1, <2>3, <3>5 DEF CopyInv
    <3> QED
      BY <2>1, <3>4, <3>6, <3>7, <3>8, <3>9 DEF CopyInv
  <2>4. \/ UNCHANGED toServer
        \/ \E d \in Answers : /\ toServer' = Append(toServer, d) /\ d.text = copied
                              /\ d.ok <=> d.format \in Range(formats)
    <3> DEFINE p == Head(toClient)
               d == Data(p.format, p.format \in Range(formats), copied)
    <3>1. \/ UNCHANGED toServer
          \/ /\ toServer' = Append(toServer, d) /\ d \in Answers
             /\ d.format = p.format /\ d.ok = (p.format \in Range(formats)) /\ d.text = copied
      BY <1>12, ClientStep
    <3> HIDE DEF d
    <3> QED
      BY <3>1
  <2> QED
    BY <2>2, <2>3, <2>4
<1>13. CASE UNCHANGED <<asked, emitted, copied, enabled, toServer, events, formats, requestedClientFormat>>
  BY <1>13 DEF CopyInv, Coming
<1> QED
  BY <1>1, <1>2, <1>3, <1>4, <1>5, <1>6, <1>7, <1>8, <1>9, <1>10, <1>11, <1>12, <1>13
     DEF Next, MainLoop, Next, MainLoop, vars, Initialize, Stop, SetServerText, ServerFormatList, Drain,
         flagVars, wireVars, clientVars, Handled

\* The formats expected are those of what is under way.
LEMMA ExpectedIs ==
  ASSUME Typed, NEW f, Expected \subseteq {f}
  PROVE  \A m \in UnderWay : m.format = f
<1>1. toServer \in Seq(Queued) /\ events \in Seq(Queued)
  BY SeqMonotonic, Kinds DEF Typed
<1>2. Range(toServer \o events) = Coming
  BY <1>1, RangeConcatenation DEF Coming
<1>3. ASSUME NEW m \in Range(toClient), m.pdu = "request" PROVE m.format \in Expected
  BY <1>3 DEF Expected
<1>4. ASSUME NEW m \in Coming, m.pdu = "data" PROVE m.format \in Expected
  BY <1>2, <1>4 DEF Expected
<1> QED
  BY <1>3, <1>4 DEF UnderWay

\* The answer to the current copy comes, and in the format it is decoded in.
LEMMA NextFormatInv == Typed /\ CopyInv /\ FormatInv /\ [Next]_vars => FormatInv'
<1> SUFFICES ASSUME Typed, CopyInv, FormatInv, [Next]_vars PROVE FormatInv'
  OBVIOUS
<1>1. CASE InitializeCheck
  <2>1. UNCHANGED <<crossed, emitted, asked, copied, malformed, requestedClientFormat>>
    BY <1>1 DEF InitializeCheck, Handled, flagVars, wireVars, clientVars
  <2>2. UNCHANGED UnderWay
    <3>1. UNCHANGED <<toClient, toServer>>
      BY <1>1 DEF InitializeCheck, wireVars
    <3>2. \/ Range(events') = Range(events) \/ Range(events') = Range(events) \cup {Send}
      BY <1>1, Kinds, Queues DEF InitializeCheck
    <3> QED
      BY <3>1, <3>2, Kinds DEF UnderWay, Coming
  <2> QED
    BY <2>1, <2>2 DEF FormatInv
<1>2. CASE Free
  BY <1>2 DEF Free, FormatInv, flagVars, wireVars, clientVars
<1>3. ASSUME NEW b \in BOOLEAN, SetEnabled(b) PROVE FormatInv'
  BY <1>3 DEF SetEnabled, FormatInv, flagVars, wireVars, clientVars
<1>4. CASE Check
  <2>1. UNCHANGED <<crossed, emitted, asked, copied, malformed, requestedClientFormat>>
    BY <1>4 DEF Check, Handled, flagVars, wireVars, clientVars
  <2>2. UNCHANGED UnderWay
    <3>1. UNCHANGED <<toClient, toServer>>
      BY <1>4 DEF Check, wireVars
    <3>2. \/ Range(events') = Range(events) \/ Range(events') = Range(events) \cup {Send}
      BY <1>4, Kinds, Queues DEF Check
    <3> QED
      BY <3>1, <3>2, Kinds DEF UnderWay, Coming
  <2> QED
    BY <2>1, <2>2 DEF FormatInv
<1>5. CASE SendServerData
  <2>1. UNCHANGED <<crossed, emitted, asked, copied, malformed, requestedClientFormat>>
    BY <1>5 DEF SendServerData, Handled, flagVars, wireVars, clientVars
  <2>2. UNCHANGED UnderWay
    <3>1. UNCHANGED <<toClient, toServer>>
      BY <1>5 DEF SendServerData, wireVars
    <3>2. Head(events).pdu = "send" /\ Range(events) = Range(events') \cup {Head(events)}
      BY <1>5, Events DEF SendServerData
    <3> QED
      BY <3>1, <3>2 DEF UnderWay, Coming
  <2> QED
    BY <2>1, <2>2 DEF FormatInv
<1>6. CASE ServerFormatList
  <2>1. UNCHANGED <<crossed, emitted, asked, copied, malformed, requestedClientFormat>>
    BY <1>6 DEF ServerFormatList, Handled, flagVars, wireVars, clientVars
  <2>2. UNCHANGED UnderWay
    <3> DEFINE e == [pdu |-> "offer", text |-> serverText]
    <3>1. UNCHANGED <<events, toServer>>
      BY <1>6 DEF ServerFormatList
    <3>2. toClient' = toClient \/ toClient' = Append(toClient, e)
      BY <1>6 DEF ServerFormatList
    <3>3. e \in FromServer /\ e.pdu = "offer"
      BY Messages, Kinds DEF Typed
    <3> HIDE DEF e
    <3>4. toClient' = toClient \/ Range(toClient') = Range(toClient) \cup {e}
      BY <3>2, <3>3, Queues
    <3> QED
      BY <3>1, <3>3, <3>4 DEF UnderWay, Coming
  <2> QED
    BY <2>1, <2>2 DEF FormatInv
<1>7. CASE OnClientFormatList
  <2> DEFINE l == Head(events)
  <2>1. UNCHANGED <<copied, malformed, toServer, emitted>>
    BY <1>7 DEF OnClientFormatList, Handled, clientVars
  <2>2. CASE requestedClientFormat' = None /\ asked' = 0 /\ UNCHANGED crossed
    BY <2>1, <2>2 DEF FormatInv
  <2>3. ASSUME NEW f \in Formats, f # None, requestedClientFormat' = f,
               toClient' = Append(toClient, Want(f)),
               crossed' = (crossed \/ ~Expected \subseteq {f}), ~crossed'
        PROVE  /\ emitted' \notin malformed' \cup {Garbage} /\ UnderWay' # {}
               /\ \A m \in UnderWay' : m.format = requestedClientFormat'
    <3> DEFINE e == Want(f)
    <3>1. e \in FromServer /\ e.pdu = "request" /\ e.format = f
      BY Messages, Kinds
    <3> HIDE DEF e
    <3>2. Range(toClient') = Range(toClient) \cup {e}
      BY <2>3, <3>1, Queues DEF e
    <3>3. Range(events') \subseteq Range(events)
      BY <1>7, Events DEF OnClientFormatList
    <3>4. UnderWay' \subseteq UnderWay \cup {e} /\ e \in UnderWay'
      BY <2>1, <3>1, <3>2, <3>3 DEF UnderWay, Coming
    <3>5. ~crossed /\ Expected \subseteq {f}
      BY <2>3
    <3>6. \A m \in UnderWay : m.format = f
      BY <3>5, ExpectedIs
    <3> QED
      BY <2>1, <2>3, <3>1, <3>4, <3>5, <3>6 DEF FormatInv
  <2>4. \/ requestedClientFormat' = None /\ asked' = 0 /\ UNCHANGED crossed
        \/ \E f \in Formats :
             /\ f # None /\ requestedClientFormat' = f
             /\ toClient' = Append(toClient, Want(f))
             /\ crossed' = (crossed \/ ~Expected \subseteq {f})
    BY <1>7, ListStep
  <2> QED
    BY <2>2, <2>3, <2>4 DEF FormatInv
<1>8. CASE OnClientFormatDataRequest
  <2>1. UNCHANGED <<crossed, emitted, asked, copied, malformed, requestedClientFormat>>
    BY <1>8 DEF OnClientFormatDataRequest, Handled, flagVars, wireVars, clientVars
  <2>2. UNCHANGED UnderWay
    <3>1. UNCHANGED toServer
      BY <1>8 DEF OnClientFormatDataRequest
    <3>2. /\ Head(events).pdu = "request"
          /\ Range(events) = Range(events') \cup {Head(events)}
      BY <1>8, Events DEF OnClientFormatDataRequest
    <3>3. PICK e \in Answers : toClient' = Append(toClient, e)
      BY <1>8, RequestStep
    <3>4. e \in FromServer /\ e.pdu = "data"
      BY <3>3, Kinds
    <3>5. Range(toClient') = Range(toClient) \cup {e}
      BY <3>3, <3>4, Queues
    <3> QED
      BY <3>1, <3>2, <3>4, <3>5 DEF UnderWay, Coming
  <2> QED
    BY <2>1, <2>2 DEF FormatInv
<1>9. CASE OnClientFormatDataResponse
  <2> DEFINE r == Head(events)
             g == requestedClientFormat
  <2>1. UNCHANGED <<copied, malformed, toServer, toClient, asked, crossed>>
    BY <1>9 DEF OnClientFormatDataResponse, Handled, flagVars, wireVars, clientVars
  <2>2. UnderWay' \subseteq UnderWay
    <3>1. Range(events') \subseteq Range(events)
      BY <1>9, Events DEF OnClientFormatDataResponse
    <3> QED
      BY <2>1, <3>1 DEF UnderWay, Coming
  <2>3. /\ r \in Answers /\ r \in Range(events)
        /\ \/ UNCHANGED <<requestedClientFormat, emitted>>
           \/ /\ g # None /\ requestedClientFormat' = None
              /\ emitted' \in {r.text, Garbage}
              /\ g = r.format => emitted' = r.text /\ r.text \notin malformed
        /\ enabled /\ r.ok /\ g = r.format /\ r.text \notin malformed \cup {0}
             => emitted' = r.text
    BY <1>9, ResponseStep
  <2> HIDE DEF r
  <2>4. r.pdu = "data" /\ r.text \in Nat /\ r \in Coming /\ r \in UnderWay
    BY <2>3, Kinds DEF UnderWay, Coming
  <2>5. SUFFICES ASSUME ~crossed
                 PROVE  /\ emitted' \notin malformed \cup {Garbage}
                        /\ requestedClientFormat' # None =>
                             \A m \in UnderWay' : m.format = requestedClientFormat'
                        /\ asked = copied /\ asked # 0 /\ copied \notin malformed =>
                             \/ emitted' = copied
                             \/ requestedClientFormat' # None /\ UnderWay' # {}
    BY <2>1 DEF FormatInv
  <2>6. g # None => r.format = g
    BY <2>4, <2>5 DEF FormatInv
  <2>7. emitted' \notin malformed \cup {Garbage}
    BY <2>3, <2>4, <2>5, <2>6 DEF FormatInv, Garbage
  <2>8. ASSUME asked = copied, asked # 0, copied \notin malformed, ~ (emitted' = copied)
        PROVE  FALSE
    <3>1. r.text = copied /\ (r.ok <=> r.format \in Range(formats)) /\ enabled
      BY <2>4, <2>8 DEF CopyInv
    <3>2. CASE g = None
      BY <2>3, <2>5, <2>8, <3>2 DEF FormatInv
    <3>3. CASE g # None
      <4>1. r.format = g /\ g \in Range(formats)
        BY <2>6, <2>8, <3>3 DEF CopyInv
      <4> QED
        BY <2>3, <2>8, <3>1, <4>1
    <3> QED
      BY <3>2, <3>3
  <2> QED
    BY <2>2, <2>3, <2>5, <2>7, <2>8 DEF FormatInv
<1>10. CASE Receive
  <2>1. UNCHANGED <<crossed, emitted, asked, copied, malformed, requestedClientFormat>>
    BY <1>10 DEF Receive, Handled, flagVars, wireVars, clientVars
  <2>2. UNCHANGED UnderWay
    <3> DEFINE h == Head(toServer)
    <3>1. /\ toServer # <<>> /\ toServer' = Tail(toServer) /\ events' = Append(events, h)
          /\ UNCHANGED toClient
      BY <1>10 DEF Receive
    <3>2. h \in Queued /\ Range(toServer) = Range(toServer') \cup {h}
      BY <3>1, Taken, Kinds DEF Typed
    <3>3. Range(events') = Range(events) \cup {h}
      BY <3>1, <3>2, Queues
    <3> HIDE DEF h
    <3> QED
      BY <3>1, <3>2, <3>3 DEF UnderWay, Coming
  <2> QED
    BY <2>1, <2>2 DEF FormatInv
<1>11. ASSUME NEW fs \in FormatLists, Copy(fs) PROVE FormatInv'
  <2> DEFINE e == List(fs)
  <2>1. /\ toServer' = Append(toServer, e) /\ copied' = copied + 1
        /\ malformed' \subseteq malformed \cup {copied + 1}
        /\ UNCHANGED <<toClient, events, crossed, emitted, asked, requestedClientFormat>>
    BY <1>11 DEF Copy, flagVars, wireVars, clientVars
  <2>2. /\ e \in FromClient /\ e.pdu = "list" /\ asked \in 0..copied /\ copied \in Nat
        /\ emitted \in -1..copied
    BY <1>11, Messages, Kinds DEF Typed, CopyInv
  <2> HIDE DEF e
  <2>3. Range(toServer') = Range(toServer) \cup {e}
    BY <2>1, <2>2, Queues
  <2>4. UNCHANGED UnderWay
    BY <2>1, <2>2, <2>3 DEF UnderWay, Coming
  <2> QED
    BY <2>1, <2>2, <2>4 DEF FormatInv
<1>12. ASSUME NEW f \in Formats, Paste(f) PROVE FormatInv'
  <2>1. UNCHANGED <<crossed, emitted, asked, copied, malformed, requestedClientFormat>>
    BY <1>12 DEF Paste, Handled, flagVars, wireVars, clientVars
  <2>2. UNCHANGED UnderWay
    <3> DEFINE e == Want(f)
    <3>1. toServer' = Append(toServer, e) /\ UNCHANGED <<toClient, events>>
      BY <1>12 DEF Paste
    <3>2. e \in FromClient /\ e.pdu = "request"
      BY <1>12, Messages, Kinds
    <3> HIDE DEF e
    <3>3. Range(toServer') = Range(toServer) \cup {e}
      BY <3>1, <3>2, Queues
    <3> QED
      BY <3>1, <3>2, <3>3 DEF UnderWay, Coming
  <2> QED
    BY <2>1, <2>2 DEF FormatInv
<1>13. CASE ClientReceive
  <2> DEFINE p == Head(toClient)
             d == Data(p.format, p.format \in Range(formats), copied)
  <2>1. UNCHANGED <<events, crossed, emitted, asked, copied, malformed, requestedClientFormat>>
    BY <1>13 DEF ClientReceive
  <2>2. /\ Range(toClient) = Range(toClient') \cup {p}
        /\ \/ (p \in Offers \/ p \in Answers) /\ UNCHANGED toServer
           \/ /\ p \in Requests /\ toServer' = Append(toServer, d) /\ d \in Answers
              /\ d.format = p.format
    BY <1>13, ClientStep
  <2> HIDE DEF p, d
  <2>3. CASE (p \in Offers \/ p \in Answers) /\ UNCHANGED toServer
    <3>1. p.pdu \in {"offer", "data"}
      BY <2>3, Kinds
    <3>2. UNCHANGED UnderWay
      BY <2>1, <2>2, <2>3, <3>1 DEF UnderWay, Coming
    <3> QED
      BY <2>1, <3>2 DEF FormatInv
  <2>4. CASE /\ p \in Requests /\ toServer' = Append(toServer, d) /\ d \in Answers
             /\ d.format = p.format
    <3>1. p.pdu = "request" /\ d.pdu = "data" /\ d \in FromClient
      BY <2>4, Kinds
    <3>2. Range(toServer') = Range(toServer) \cup {d}
      BY <2>4, <3>1, Queues
    <3>3. UnderWay \subseteq UnderWay' \cup {p} /\ UnderWay' \subseteq UnderWay \cup {d}
          /\ p \in UnderWay /\ d \in UnderWay'
      BY <2>1, <2>2, <3>1, <3>2 DEF UnderWay, Coming
    <3> QED
      BY <2>1, <2>4, <3>3 DEF FormatInv
  <2> QED
    BY <2>2, <2>3, <2>4
<1>14. CASE UNCHANGED <<crossed, emitted, asked, copied, malformed, requestedClientFormat, toServer, toClient, events>>
  BY <1>14 DEF FormatInv, UnderWay, Coming
<1> QED
  BY <1>1, <1>2, <1>3, <1>4, <1>5, <1>6, <1>7, <1>8, <1>9, <1>10, <1>11, <1>12,
     <1>13, <1>14
     DEF Next, MainLoop, Next, MainLoop, vars, Initialize, Stop, SetServerText, Drain, flagVars,
         wireVars, clientVars, Handled

-----------------------------------------------------------------------------
(* The theorems.                                                            *)

LEMMA InitInv == Init => IInv
<1> SUFFICES ASSUME Init PROVE IInv
  OBVIOUS
<1>1. toServer = <<>> /\ toClient = <<>> /\ events = <<>>
  BY DEF Init
<1>2. Range(<<>>) = {}
  BY DEF Range
<1>3. Typed
  <2>1. <<>> \in Seq(FromClient) /\ <<>> \in Seq(FromServer) /\ <<>> \in Seq(Queued)
        /\ <<>> \in Seq(Formats)
    BY EmptySeq
  <2>2. 0 \in 0..MaxTexts /\ 0 \in 0..MaxCopies
    BY ClipboardAssumption
  <2> QED
    BY <2>1, <2>2 DEF Init, Typed
<1>4. CallInv
  BY <1>1, <1>2 DEF Init, CallInv, OneCall
<1>5. HostInv
  BY DEF Init, HostInv
<1>6. OfferInv
  BY <1>1, <1>2 DEF Init, OfferInv, InOrder, PasteIsCurrent
<1>7. Coming = {}
  BY <1>1, <1>2 DEF Coming
<1>8. CopyInv
  BY <1>1, <1>2, <1>7 DEF Init, CopyInv, InOrder
<1>9. FormatInv
  BY DEF Init, FormatInv, Garbage
<1> QED
  BY <1>3, <1>4, <1>5, <1>6, <1>8, <1>9 DEF IInv

LEMMA NextInv == IInv /\ [Next]_vars => IInv'
BY NextTyped, NextCallInv, NextHostInv, NextOfferInv, NextCopyInv, NextFormatInv DEF IInv

LEMMA InvHolds == IInv => ClipboardInv /\ PasteIsCurrent /\ LastCopyEmitted
<1> SUFFICES ASSUME IInv PROVE ClipboardInv /\ PasteIsCurrent /\ LastCopyEmitted
  OBVIOUS
<1>1. Typed /\ CallInv /\ HostInv /\ OfferInv /\ CopyInv /\ FormatInv
  BY DEF IInv
<1>2. Range(events) = {events[i] : i \in DOMAIN events}
  BY DEF Range
<1>3. TypeOK
  <2>1. channel = "blocked" <=> \E i \in DOMAIN events : events[i].pdu # "send"
    BY <1>1, <1>2 DEF CallInv
  <2>2. {offered, advertised, pasted.got, pasted.offered} \subseteq 0..serverText
    BY <1>1 DEF OfferInv, Typed
  <2> QED
    BY <1>1, <2>1, <2>2 DEF TypeOK, Typed, CopyInv
<1>4. AdvertisedOrPending
  <2>1. Send \in Range(events) => \E i \in DOMAIN events : events[i] = Send
    BY <1>2
  <2> QED
    BY <1>1, <2>1 DEF AdvertisedOrPending, HostInv
<1>5. LastCopyEmitted
  <2>1. SUFFICES ASSUME ~crossed
                 PROVE  /\ emitted \notin malformed \cup {Garbage}
                        /\ toServer = <<>> /\ toClient = <<>> /\ events = <<>>
                           /\ asked = copied /\ copied \notin malformed
                           => emitted = copied
    BY DEF LastCopyEmitted
  <2>2. emitted \notin malformed \cup {Garbage}
    BY <1>1, <2>1 DEF FormatInv
  <2>3. ASSUME toServer = <<>>, toClient = <<>>, events = <<>>, asked = copied,
               copied \notin malformed
        PROVE  emitted = copied
    <3>1. Range(<<>>) = {}
      BY DEF Range
    <3>2. UnderWay = {}
      BY <2>3, <3>1 DEF UnderWay, Coming
    <3>3. CASE asked # 0
      BY <1>1, <2>1, <2>3, <3>2, <3>3 DEF FormatInv
    <3>4. CASE asked = 0
      BY <1>1, <2>2, <2>3, <3>4 DEF CopyInv, Garbage
    <3> QED
      BY <3>3, <3>4
  <2> QED
    BY <2>2, <2>3
<1>6. PasteIsCurrent
  BY <1>1 DEF OfferInv
<1> QED
  BY <1>3, <1>4, <1>5, <1>6 DEF ClipboardInv

LEMMA InvAlways == Spec => []IInv
<1>1. Init => IInv
  BY InitInv
<1>2. IInv /\ [Next]_vars => IInv'
  BY NextInv
<1> QED
  BY <1>1, <1>2, PTL DEF Spec

\* Types, and the text of the host: while the clipboard works, the current text has
\* been advertised or is about to be, in whatever order the channel comes up, the
\* clipboard is enabled and the text is set, unless a check missed a buffered write.
THEOREM AlwaysClipboardInv == Spec => []ClipboardInv
<1>1. IInv => ClipboardInv
  BY InvHolds
<1> QED
  BY <1>1, InvAlways, PTL

\* What the client gets when it pastes is never older than what it had been offered.
THEOREM PasteAlwaysCurrent == Spec => []PasteIsCurrent
<1>1. IInv => PasteIsCurrent
  BY InvHolds
<1> QED
  BY <1>1, InvAlways, PTL

\* What is emitted is text the client published and that decodes, and in the end
\* its last text if that does, unless two lists crossed with an answer.
THEOREM LastCopyAlwaysEmitted == Spec => []LastCopyEmitted
<1>1. IInv => LastCopyEmitted
  BY InvHolds
<1> QED
  BY <1>1, InvAlways, PTL
=============================================================================
