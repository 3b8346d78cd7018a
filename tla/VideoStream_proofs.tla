-------------------------- MODULE VideoStream_proofs --------------------------
(***************************************************************************)
(* Proofs about VideoStream for every set of sizes, layouts and clients.   *)
(* The inductive invariant is built in layers: the types; where the        *)
(* submission thread may be in each state of the session and of the reset  *)
(* (ThreadInv); what a running or finished reset has made of the client's  *)
(* surfaces (SurfaceInv); and which layout it has copied (SnapInv).        *)
(***************************************************************************)
EXTENDS VideoStream, TLAPS, FiniteSetTheorems

USE DEF Drop, NextId, LoadReset, CountFrame, InsertPending,
        AfterClear, ClearedQueue, Joinable, StopRequested

\* The distinguished values are none of the values they stand beside.
LEMMA Distinguished ==
  /\ NoFrame \notin Frames /\ EmptyFrame \notin Frames /\ NoFrame # EmptyFrame
  /\ EmptyLayout \notin Layouts
  /\ \A l \in Layouts : l.topology \in Topologies /\ l.extent \in Sizes
                        /\ l.outputs \in Seq(Sizes) /\ Len(l.outputs) \in 1..(IdMod - 1)
  BY SizeAssumption, TopologyAssumption, LayoutAssumption
     DEF NoFrame, EmptyFrame, Frames, EmptyLayout, LayoutRecords

\* The frames a compositor layout gives rise to are frames.
LEMMA FramesOfType ==
  ASSUME layout \in Layouts \cup {EmptyLayout}
  PROVE  \A l \in Layouts : FramesOf(l) \subseteq Frames
<1> SUFFICES ASSUME NEW l \in Layouts, NEW f \in FramesOf(l) PROVE f \in Frames
  OBVIOUS
<1>1. l.topology \in Topologies /\ l.extent \in Sizes /\ l.outputs \in Seq(Sizes)
  BY Distinguished
<1>2. layout.topology \in Topologies \cup {NoTopology}
  BY Distinguished DEF EmptyLayout
<1>3. CASE f = Frame(l.extent, 0, l)
  BY <1>1, <1>2, <1>3 DEF Frames, Frame
<1>4. CASE \E i \in DOMAIN l.outputs : f = Frame(l.outputs[i], i, l)
  <2>1. PICK i \in DOMAIN l.outputs : f = Frame(l.outputs[i], i, l)
    BY <1>4
  <2>2. i \in Nat /\ l.outputs[i] \in Sizes
    BY <1>1
  <2> QED BY <1>1, <1>2, <2>1, <2>2 DEF Frames, Frame
<1> QED BY <1>3, <1>4 DEF FramesOf

\* An advertisement that is not empty has a set of the highest version.
LEMMA HighestExists ==
  ASSUME NEW S \in SUBSET Caps, S # {}
  PROVE  \E c \in S : \A o \in S : o.version <= c.version
<1>1. \A c \in S : c.version \in Versions
  BY DEF Caps
<1> DEFINE Above(n) == \E c \in S : c.version >= n
<1>2. CASE Above(107)
  BY <1>1, <1>2 DEF Versions
<1>3. CASE Above(103) /\ ~Above(107)
  BY <1>1, <1>3 DEF Versions
<1>4. CASE Above(100) /\ ~Above(103)
  BY <1>1, <1>4 DEF Versions
<1>5. CASE ~Above(100)
  BY <1>1, <1>5 DEF Versions
<1> QED BY <1>2, <1>3, <1>4, <1>5

\* A confirmed set is one of those advertised.
LEMMA SelectedType ==
  ASSUME NEW adv \in Advertisements, Supported(adv)
  PROVE  Selected(adv) \in Caps \cup {NoCaps}
<1>1. adv \in SUBSET Caps /\ adv # {}
  BY CapsAssumption DEF Supported
<1>2. \E c \in adv : \A o \in adv : o.version <= c.version
  BY <1>1, HighestExists
<1>3. Selected(adv) \in adv
  BY <1>2 DEF Selected
<1> QED BY <1>1, <1>3

-----------------------------------------------------------------------------
\* A layout the reset works on has sizes, and no more monitors than ids.
LEMMA EffectiveType ==
  ASSUME NEW l \in Layouts \cup {EmptyLayout}, NEW f \in Frames
  PROVE  /\ Effective(l, f) \in Layouts \cup {Single(s) : s \in Sizes}
         /\ Effective(l, f) \in AnyLayout
         /\ Effective(l, f).topology = l.topology
  BY DEF Effective, Single, EmptyLayout, Frames, AnyLayout

LEMMA RunningLayoutType ==
  ASSUME NEW l \in Layouts \cup {Single(s) : s \in Sizes}, NEW f \in Frames,
         Fits(l, f)
  PROVE  /\ SurfaceSizes(l, f) \in Seq(Sizes)
         /\ Len(SurfaceSizes(l, f)) \in 1..(IdMod - 1)
         /\ Index(f) \in DOMAIN SurfaceSizes(l, f)
         /\ SurfaceSizes(l, f)[Index(f)] = f.size
<1>1. l.extent \in Sizes /\ l.outputs \in Seq(Sizes) /\ Len(l.outputs) \in 1..(IdMod - 1)
  <2>1. CASE l \in Layouts
    BY <2>1, Distinguished
  <2>2. CASE l \in {Single(s) : s \in Sizes}
    <3>1. PICK s \in Sizes : l = Single(s)
      BY <2>2
    <3> QED BY <3>1, BoundAssumption DEF Single
  <2> QED BY <2>1, <2>2
<1>2. CASE f.output = 0
  BY <1>1, <1>2, BoundAssumption DEF SurfaceSizes, Index, Fits
<1>3. CASE f.output # 0
  BY <1>1, <1>3 DEF SurfaceSizes, Index, Fits
<1> QED BY <1>2, <1>3

\* Types, and where the submission thread may be in each state of the session
\* and of the reset.
ThreadInv ==
  /\ session = "starting" \/ gfx = "none" => pc = "absent"
  /\ session = "closed" => pc \in {"absent", "exited"}
  /\ pc \in {"snapshot", "publish", "create", "store"} => pendingReset
  /\ pc = "taken" => inHand # NoFrame
  /\ pc \in {"snapshot", "publish", "create", "store", "select", "send"} => inHand \in Frames
  /\ pc \in {"publish", "create", "store"} =>
       /\ snap \in Layouts \cup {Single(s) : s \in Sizes}
       /\ Fits(snap, inHand)
  /\ pc = "create" =>
       /\ Len(surfaces) < Len(SurfaceSizes(snap, inHand))
  /\ main # "idle" => layout # EmptyLayout
  /\ pc = "send" => frameId > 0

\* The types of the variables, by who keeps them.
SessionTypes ==
  /\ session \in {"starting", "streaming", "closing", "joining", "closed"}
  /\ gfx \in {"none", "failed", "open", "closed"}
  /\ enabled \in BOOLEAN /\ confirmed \in Caps \cup {NoCaps}
  /\ main \in {"idle", "clear", "reset"} /\ layout \in Layouts \cup {EmptyLayout}

HistoryTypes ==
  /\ kwin \in Layouts /\ offered \in Nat /\ changes \in Nat
  /\ recent \subseteq Layouts /\ outdated \in BOOLEAN /\ raced \in BOOLEAN

ThreadTypes ==
  /\ queue \in Seq(Frames \cup {EmptyFrame}) /\ pendingReset \in BOOLEAN
  /\ pc \in {"absent", "top", "poll", "taken", "snapshot", "publish", "create",
             "store", "select", "send", "exited"}
  /\ inHand \in Frames \cup {EmptyFrame, NoFrame}
  /\ snap \in AnyLayout /\ surfaces \in Seq(Surfaces) /\ nextSurfaceId \in SurfaceIds

AckTypes ==
  /\ frameId \in Nat /\ encodedFrames \in Nat /\ frameDelay \in Int
  /\ pendingFrames \subseteq 0..(frameId - 1)
  /\ ended \subseteq 0..(frameId - 1) /\ acked \subseteq ended

ClientTypes ==
  /\ published \in AnyLayout
  /\ client \in [SurfaceIds -> Sizes \cup {NoSize}] /\ mapped \subseteq SurfaceIds

LEMMA TypeParts ==
  /\ TypeOK <=> SessionTypes /\ HistoryTypes /\ ThreadTypes /\ AckTypes /\ ClientTypes
  /\ TypeOK' <=> SessionTypes' /\ HistoryTypes' /\ ThreadTypes' /\ AckTypes' /\ ClientTypes'
<1>1. TypeOK <=> SessionTypes /\ HistoryTypes /\ ThreadTypes /\ AckTypes /\ ClientTypes
  BY DEF TypeOK, SessionTypes, HistoryTypes, ThreadTypes, AckTypes, ClientTypes
<1> QED BY <1>1, PTL

\* Variables that do not change keep their types.
LEMMA TypesStay ==
  ASSUME TypeOK
  PROVE  /\ UNCHANGED <<sessionVars, mainVars>> => SessionTypes'
         /\ UNCHANGED <<boundVars, outdated, raced>> => HistoryTypes'
         /\ UNCHANGED <<queue, pendingReset, pc, threadVars>> => ThreadTypes'
         /\ UNCHANGED ackVars => AckTypes'
         /\ UNCHANGED clientVars => ClientTypes'
<1>1. SessionTypes /\ HistoryTypes /\ ThreadTypes /\ AckTypes /\ ClientTypes
  BY TypeParts
<1>2. UNCHANGED <<sessionVars, mainVars>> => SessionTypes'
  BY <1>1 DEF SessionTypes, sessionVars, mainVars
<1>3. UNCHANGED <<boundVars, outdated, raced>> => HistoryTypes'
  BY <1>1 DEF HistoryTypes, boundVars
<1>4. UNCHANGED <<queue, pendingReset, pc, threadVars>> => ThreadTypes'
  BY <1>1 DEF ThreadTypes, threadVars
<1>5. UNCHANGED ackVars => AckTypes'
  BY <1>1 DEF AckTypes, ackVars
<1>6. UNCHANGED clientVars => ClientTypes'
  BY <1>1 DEF ClientTypes, clientVars
<1> QED BY <1>2, <1>3, <1>4, <1>5, <1>6

\* The client can have decoded no more frames than were given an id.
LEMMA EndedCount ==
  ASSUME frameId \in Nat, ended \subseteq 0..(frameId - 1)
  PROVE  Cardinality(ended) \in 0..frameId
<1>1. IsFiniteSet(0..(frameId - 1)) /\ Cardinality(0..(frameId - 1)) = frameId
  BY FS_Interval
<1>2. IsFiniteSet(ended) /\ Cardinality(ended) <= frameId
  BY <1>1, FS_Subset
<1> QED BY <1>2, FS_CardinalityType

LEMMA InitTypes == Init => TypeOK /\ ThreadInv
<1> SUFFICES ASSUME Init PROVE TypeOK /\ ThreadInv
  OBVIOUS
<1>1. TypeOK
  BY BoundAssumption DEF Init, TypeOK, SurfaceIds, AnyLayout
<1>2. ThreadInv
  BY DEF Init, ThreadInv
<1> QED BY <1>1, <1>2

LEMMA NextTypeOK == TypeOK /\ ThreadInv /\ [Next]_vars => TypeOK'
<1> SUFFICES ASSUME TypeOK, ThreadInv, [Next]_vars PROVE TypeOK'
  OBVIOUS
<1>a. SessionTypes /\ HistoryTypes /\ ThreadTypes /\ AckTypes /\ ClientTypes
  BY TypeParts
<1>b. SUFFICES SessionTypes' /\ HistoryTypes' /\ ThreadTypes' /\ AckTypes' /\ ClientTypes'
  BY TypeParts
<1> DEFINE Parts == SessionTypes' /\ HistoryTypes' /\ ThreadTypes' /\ AckTypes' /\ ClientTypes'
<1>1. CASE Initialize
  <2>1. SessionTypes'
    BY <1>a, <1>1 DEF Initialize, SessionTypes, mainVars
  <2>2. ThreadTypes'
    BY <1>a, <1>1 DEF Initialize, ThreadTypes, threadVars
  <2> QED BY <1>1, <2>1, <2>2, TypesStay DEF Initialize
<1>2. ASSUME NEW b \in BOOLEAN, SetEnabled(b) PROVE Parts
  <2>1. SessionTypes'
    BY <1>a, <1>2 DEF SetEnabled, SessionTypes, mainVars
  <2> QED BY <1>2, <2>1, TypesStay DEF SetEnabled
<1>3. CASE Close
  <2>1. SessionTypes'
    BY <1>a, <1>3 DEF Close, SessionTypes, mainVars
  <2> QED BY <1>3, <2>1, TypesStay DEF Close
<1>4. CASE Join
  <2>1. SessionTypes'
    BY <1>a, <1>4 DEF Join, SessionTypes, mainVars
  <2> QED BY <1>4, <2>1, TypesStay DEF Join
<1>5. ASSUME NEW adv \in Advertisements, CapsAdvertise(adv) PROVE Parts
  <2>1. confirmed' \in Caps \cup {NoCaps}
    BY <1>a, <1>5, SelectedType DEF CapsAdvertise, SessionTypes
  <2>2. SessionTypes'
    BY <1>a, <1>5, <2>1 DEF CapsAdvertise, SessionTypes, mainVars
  <2> QED BY <1>5, <2>2, TypesStay DEF CapsAdvertise
<1>6. ASSUME NEW id \in ended, NEW decoded \in 1..Cardinality(ended),
             FrameAcknowledge(id, decoded)
      PROVE  Parts
  <2>1. encodedFrames - decoded \in Int
    <3>1. Cardinality(ended) \in Nat
      BY <1>a, EndedCount DEF AckTypes
    <3> QED BY <1>a, <3>1 DEF AckTypes
  <2>2. /\ frameDelay' \in {frameDelay, encodedFrames - decoded}
        /\ acked' = acked \cup {id} /\ pendingFrames' \subseteq pendingFrames
        /\ UNCHANGED <<frameId, encodedFrames, ended>>
    BY <1>6 DEF FrameAcknowledge
  <2>3. AckTypes'
    BY <1>a, <2>1, <2>2 DEF AckTypes
  <2> QED BY <1>6, <2>3, TypesStay DEF FrameAcknowledge
<1>7. ASSUME NEW l \in Layouts, CompositorChanges(l) PROVE Parts
  <2>1. HistoryTypes'
    BY <1>a, <1>7 DEF CompositorChanges, HistoryTypes
  <2> QED BY <1>7, <2>1, TypesStay DEF CompositorChanges
<1>8. ASSUME NEW l \in recent, NEW f \in FramesOf(l) \cup {EmptyFrame}, QueueFrame(f)
      PROVE  Parts
  <2>1. f \in Frames \cup {EmptyFrame}
    BY <1>a, FramesOfType DEF HistoryTypes, SessionTypes
  <2>2. queue' \in Seq(Frames \cup {EmptyFrame})
    <3>1. queue' \in {queue, Append(queue, f)}
      BY <1>8 DEF QueueFrame
    <3> QED BY <1>a, <2>1, <3>1 DEF ThreadTypes
  <2>3. ThreadTypes'
    BY <1>a, <1>8, <2>2 DEF QueueFrame, ThreadTypes, threadVars
  <2>4. HistoryTypes'
    BY <1>a, <1>8 DEF QueueFrame, HistoryTypes
  <2> QED BY <1>8, <2>3, <2>4, TypesStay DEF QueueFrame
<1>9. CASE SetLayout
  <2>1. SessionTypes'
    BY <1>a, <1>9 DEF SetLayout, SessionTypes, HistoryTypes, sessionVars
  <2>2. HistoryTypes'
    BY <1>a, <1>9 DEF SetLayout, HistoryTypes, boundVars
  <2> QED BY <1>9, <2>1, <2>2, TypesStay DEF SetLayout
<1>10. CASE ClearQueue
  <2>1. SessionTypes'
    BY <1>a, <1>10 DEF ClearQueue, AfterClear, SessionTypes, sessionVars
  <2>2. HistoryTypes'
    BY <1>a, <1>10 DEF ClearQueue, HistoryTypes, boundVars
  <2>3. ThreadTypes'
    BY <1>a, <1>10 DEF ClearQueue, ClearedQueue, ThreadTypes, threadVars
  <2> QED BY <1>10, <2>1, <2>2, <2>3, TypesStay DEF ClearQueue
<1>11. CASE Reset
  <2>1. SessionTypes'
    BY <1>a, <1>11 DEF Reset, SessionTypes, sessionVars
  <2>2. HistoryTypes'
    BY <1>a, <1>11 DEF Reset, HistoryTypes, boundVars, Resetting
  <2>3. ThreadTypes'
    BY <1>a, <1>11 DEF Reset, ThreadTypes, threadVars
  <2> QED BY <1>11, <2>1, <2>2, <2>3, TypesStay DEF Reset
<1>12. CASE CheckStop
  <2>1. ThreadTypes'
    BY <1>a, <1>12 DEF CheckStop, ThreadTypes, threadVars
  <2> QED BY <1>12, <2>1, TypesStay DEF CheckStop
<1>13. CASE TakeFrame
  <2>1. pc' \in {"top", "taken"} /\ UNCHANGED <<pendingReset, snap, surfaces, nextSurfaceId>>
    BY <1>13 DEF TakeFrame
  <2>2. /\ queue' \in Seq(Frames \cup {EmptyFrame})
        /\ inHand' \in Frames \cup {EmptyFrame, NoFrame}
    <3>1. CASE queue = <<>>
      BY <1>a, <1>13, <3>1 DEF TakeFrame, ThreadTypes
    <3>2. CASE queue # <<>>
      <4>1. queue' = Tail(queue) /\ inHand' = Head(queue)
        BY <1>13, <3>2 DEF TakeFrame
      <4>2. Head(queue) \in Frames \cup {EmptyFrame} /\ Tail(queue) \in Seq(Frames \cup {EmptyFrame})
        BY <1>a, <3>2 DEF ThreadTypes
      <4> QED BY <4>1, <4>2
    <3> QED BY <3>1, <3>2
  <2>3. ThreadTypes'
    BY <1>a, <2>1, <2>2 DEF ThreadTypes
  <2>4. HistoryTypes'
    BY <1>a, <1>13 DEF TakeFrame, HistoryTypes, boundVars
  <2> QED BY <1>13, <2>3, <2>4, TypesStay DEF TakeFrame
<1>14. CASE CheckReset
  <2>1. ThreadTypes'
    BY <1>a, <1>14 DEF CheckReset, Drop, ThreadTypes, threadVars
  <2> QED BY <1>14, <2>1, TypesStay DEF CheckReset
<1>15. CASE Snapshot
  <2>1. snap' \in AnyLayout
    BY <1>a, <1>15, EffectiveType DEF Snapshot, ThreadInv, ThreadTypes, SessionTypes
  <2>2. ThreadTypes'
    BY <1>a, <1>15, <2>1 DEF Snapshot, Drop, ThreadTypes
  <2> QED BY <1>15, <2>2, TypesStay DEF Snapshot
<1>16. CASE Publish
  <2> PICK gone \in SUBSET {surfaces[i].id : i \in DOMAIN surfaces}, ok \in BOOLEAN :
        /\ client' = [i \in SurfaceIds |-> IF i \in gone THEN NoSize ELSE client[i]]
        /\ mapped' = mapped \ gone
        /\ IF ok THEN published' = snap /\ pc' = "create" /\ UNCHANGED inHand
                 ELSE Drop /\ UNCHANGED published
    BY <1>16 DEF Publish
  <2>1. ClientTypes'
    BY <1>a DEF ClientTypes, ThreadTypes
  <2>2. ThreadTypes'
    BY <1>a, <1>16 DEF Publish, Drop, ThreadTypes
  <2> QED BY <1>16, <2>1, <2>2, TypesStay DEF Publish
<1>17. CASE CreateSurface
  <2> DEFINE sizes == SurfaceSizes(snap, inHand)
             size  == sizes[Len(surfaces) + 1]
             new   == [id |-> nextSurfaceId, size |-> size]
  <2>1. sizes \in Seq(Sizes) /\ Len(sizes) \in 1..(IdMod - 1) /\ Len(surfaces) < Len(sizes)
    BY <1>17, RunningLayoutType DEF CreateSurface, ThreadInv
  <2>2. size \in Sizes /\ new \in Surfaces
    BY <1>a, <2>1, BoundAssumption DEF Surfaces, ThreadTypes
  <2>3. nextSurfaceId' \in SurfaceIds
    BY <1>a, <1>17, BoundAssumption DEF CreateSurface, SurfaceIds, ThreadTypes, NextId
  <2>4. surfaces' \in {surfaces, Append(surfaces, new)}
    BY <1>17 DEF CreateSurface
  <2>5. surfaces' \in Seq(Surfaces)
    BY <1>a, <2>2, <2>4 DEF ThreadTypes
  <2>6. client' \in [SurfaceIds -> Sizes \cup {NoSize}] /\ mapped' \subseteq SurfaceIds
    BY <1>a, <1>17, <2>2 DEF CreateSurface, ClientTypes, ThreadTypes
  <2>7. pc' \in {"top", "store", "create"} /\ inHand' \in {NoFrame, inHand}
    BY <1>17 DEF CreateSurface, Drop
  <2>8. UNCHANGED <<queue, pendingReset, snap, published>>
    BY <1>17 DEF CreateSurface
  <2>9. ThreadTypes' /\ ClientTypes'
    <3> HIDE DEF sizes, size, new
    <3>1. ThreadTypes'
      BY <1>a, <2>3, <2>5, <2>7, <2>8 DEF ThreadTypes
    <3>2. ClientTypes'
      BY <1>a, <2>6, <2>8 DEF ClientTypes
    <3> QED BY <3>1, <3>2
  <2> QED BY <1>17, <2>9, TypesStay DEF CreateSurface
<1>18. CASE StoreReset
  <2>1. ThreadTypes'
    BY <1>a, <1>18 DEF StoreReset, ThreadTypes, threadVars
  <2> QED BY <1>18, <2>1, TypesStay DEF StoreReset
<1>19. CASE Register
  <2>1. ThreadTypes'
    BY <1>a, <1>19 DEF Register, Drop, ThreadTypes
  <2>2. UNCHANGED <<frameDelay, ended, acked>>
    BY <1>19 DEF Register
  <2>3. \/ UNCHANGED <<frameId, encodedFrames, pendingFrames>>
        \/ /\ frameId' = frameId + 1 /\ encodedFrames' = encodedFrames + 1
           /\ pendingFrames' = pendingFrames \cup {frameId}
    BY <1>19 DEF Register, CountFrame, InsertPending
  <2>4. AckTypes'
    <3>1. CASE UNCHANGED <<frameId, encodedFrames, pendingFrames>>
      BY <1>a, <2>2, <3>1 DEF AckTypes
    <3>2. CASE /\ frameId' = frameId + 1 /\ encodedFrames' = encodedFrames + 1
               /\ pendingFrames' = pendingFrames \cup {frameId}
      <4>1. 0..(frameId - 1) \subseteq 0..(frameId' - 1) /\ frameId \in 0..(frameId' - 1)
        BY <1>a, <3>2 DEF AckTypes
      <4>2. pendingFrames' \subseteq 0..(frameId' - 1) /\ ended' \subseteq 0..(frameId' - 1)
        BY <1>a, <2>2, <3>2, <4>1 DEF AckTypes
      <4> QED BY <1>a, <2>2, <3>2, <4>2 DEF AckTypes
    <3> QED BY <2>3, <3>1, <3>2
  <2> QED BY <1>19, <2>1, <2>4, TypesStay DEF Register
<1>20. CASE Send
  <2>1. ThreadTypes'
    BY <1>a, <1>20 DEF Send, Drop, ThreadTypes
  <2>2. frameId > 0
    BY <1>20 DEF Send, ThreadInv
  <2>3. /\ UNCHANGED <<frameId, encodedFrames, pendingFrames, frameDelay, acked>>
        /\ ended' \in {ended, ended \cup {frameId - 1}}
    BY <1>20 DEF Send
  <2>4. AckTypes'
    BY <1>a, <2>2, <2>3 DEF AckTypes
  <2> QED BY <1>20, <2>1, <2>4, TypesStay DEF Send
<1>21. CASE UNCHANGED vars
  BY <1>21, TypesStay DEF vars
<1> QED
  BY <1>1, <1>2, <1>3, <1>4, <1>5, <1>6, <1>7, <1>8, <1>9, <1>10, <1>11, <1>12,
     <1>13, <1>14, <1>15, <1>16, <1>17, <1>18, <1>19, <1>20, <1>21 DEF Next, Submit

LEMMA NextThreadInv == TypeOK /\ ThreadInv /\ [Next]_vars => ThreadInv'
<1> SUFFICES ASSUME TypeOK, ThreadInv, [Next]_vars PROVE ThreadInv'
  OBVIOUS
<1>a. inHand \in Frames \cup {EmptyFrame, NoFrame} /\ layout \in Layouts \cup {EmptyLayout}
  BY DEF TypeOK
<1> USE DEF ThreadInv, sessionVars, mainVars, threadVars
<1>1. CASE Initialize
  BY <1>1 DEF Initialize, ackVars
<1>2. ASSUME NEW b \in BOOLEAN, SetEnabled(b) PROVE ThreadInv'
  BY <1>2 DEF SetEnabled, ackVars
<1>3. CASE Close
  BY <1>3 DEF Close, ackVars
<1>4. CASE Join
  BY <1>4 DEF Join, ackVars
<1>5. ASSUME NEW adv \in Advertisements, CapsAdvertise(adv) PROVE ThreadInv'
  BY <1>5 DEF CapsAdvertise, ackVars
<1>6. ASSUME NEW id \in ended, NEW decoded \in 1..Cardinality(ended),
             FrameAcknowledge(id, decoded)
      PROVE  ThreadInv'
  <2>1. UNCHANGED <<sessionVars, mainVars, pendingReset, pc, threadVars, frameId>>
    BY <1>6 DEF FrameAcknowledge
  <2> QED BY <2>1
<1>7. ASSUME NEW l \in Layouts, CompositorChanges(l) PROVE ThreadInv'
  BY <1>7 DEF CompositorChanges, ackVars
<1>8. ASSUME NEW l \in recent, NEW f \in FramesOf(l) \cup {EmptyFrame}, QueueFrame(f)
      PROVE  ThreadInv'
  BY <1>8 DEF QueueFrame, ackVars
<1>9. CASE SetLayout
  <2>1. layout' # EmptyLayout
    BY <1>9, Distinguished DEF SetLayout, TypeOK
  <2>2. UNCHANGED <<sessionVars, pendingReset, pc, threadVars, frameId>>
    BY <1>9 DEF SetLayout, ackVars
  <2> QED BY <2>1, <2>2
<1>10. CASE ClearQueue
  BY <1>10 DEF ClearQueue, ackVars
<1>11. CASE Reset
  BY <1>11 DEF Reset, ackVars
<1>12. CASE CheckStop
  BY <1>12 DEF CheckStop, ackVars
<1>13. CASE TakeFrame
  <2>1. /\ pc = "poll" /\ pc' \in {"top", "taken"}
        /\ UNCHANGED <<session, gfx, main, layout>>
    BY <1>13 DEF TakeFrame
  <2>2. pc' = "taken" => inHand' # NoFrame
    <3>1. CASE queue = <<>>
      BY <1>13, <3>1 DEF TakeFrame
    <3>2. CASE queue # <<>>
      <4>1. Head(queue) \in Frames \cup {EmptyFrame}
        BY <3>2 DEF TypeOK
      <4>2. inHand' = Head(queue)
        BY <1>13, <3>2 DEF TakeFrame
      <4> QED BY <4>1, <4>2, Distinguished
    <3> QED BY <3>1, <3>2
  <2> QED BY <2>1, <2>2
<1>14. CASE CheckReset
  BY <1>a, <1>14 DEF CheckReset, Drop, ackVars
<1>15. CASE Snapshot
  <2>1. CASE pc' = "top" /\ inHand' = NoFrame
    BY <1>15, <2>1 DEF Snapshot, ackVars
  <2>2. CASE /\ pc' = "publish" /\ UNCHANGED inHand
             /\ snap' = Effective(layout, inHand) /\ Fits(snap', inHand)
    <3>1. snap' \in Layouts \cup {Single(s) : s \in Sizes}
      BY <1>a, <1>15, <2>2, EffectiveType DEF Snapshot
    <3> QED BY <1>15, <2>2, <3>1 DEF Snapshot, ackVars
  <2> QED BY <1>15, <2>1, <2>2 DEF Snapshot, Drop
<1>16. CASE Publish
  <2>1. /\ pc = "publish" /\ surfaces' = <<>>
        /\ UNCHANGED <<sessionVars, mainVars, pendingReset, snap, frameId>>
        /\ (pc' = "create" /\ UNCHANGED inHand) \/ pc' = "top"
    BY <1>16 DEF Publish, Drop, ackVars
  <2>2. Len(surfaces') = 0 /\ Len(SurfaceSizes(snap, inHand)) \in 1..(IdMod - 1)
    BY <2>1, RunningLayoutType
  <2> QED BY <2>1, <2>2, BoundAssumption
<1>17. CASE CreateSurface
  <2> DEFINE sizes == SurfaceSizes(snap, inHand)
             new   == [id |-> nextSurfaceId, size |-> sizes[Len(surfaces) + 1]]
  <2>1. sizes \in Seq(Sizes) /\ Len(surfaces) < Len(sizes) /\ surfaces \in Seq(Surfaces)
    BY <1>17, RunningLayoutType DEF CreateSurface, TypeOK
  <2>2. \/ pc' = "top"
        \/ pc' = "store" /\ UNCHANGED inHand
        \/ pc' = "create" /\ UNCHANGED inHand
             /\ surfaces' = Append(surfaces, new) /\ Len(surfaces) + 1 # Len(sizes)
    BY <1>17 DEF CreateSurface, Drop
  <2>3. pc' = "create" => Len(surfaces') < Len(sizes)
    BY <2>1, <2>2
  <2>4. pc = "create" /\ UNCHANGED <<sessionVars, mainVars, pendingReset, snap, frameId>>
    BY <1>17 DEF CreateSurface, ackVars
  <2> QED BY <2>2, <2>3, <2>4
<1>18. CASE StoreReset
  BY <1>18 DEF StoreReset, ackVars
<1>19. CASE Register
  <2>1. /\ pc = "select" /\ UNCHANGED <<sessionVars, mainVars, pendingReset, snap, surfaces>>
        /\ (pc' = "send" /\ UNCHANGED inHand /\ frameId' = frameId + 1) \/ pc' = "top"
    BY <1>19 DEF Register, Drop
  <2>2. frameId \in Nat
    BY DEF TypeOK
  <2> QED BY <2>1, <2>2
<1>20. CASE Send
  BY <1>20 DEF Send, Drop
<1>21. CASE UNCHANGED vars
  BY <1>21 DEF vars, ackVars
<1> QED
  BY <1>1, <1>2, <1>3, <1>4, <1>5, <1>6, <1>7, <1>8, <1>9, <1>10, <1>11, <1>12,
     <1>13, <1>14, <1>15, <1>16, <1>17, <1>18, <1>19, <1>20, <1>21 DEF Next, Submit

LEMMA NextTypes == TypeOK /\ ThreadInv /\ [Next]_vars => TypeOK' /\ ThreadInv'
  BY NextTypeOK, NextThreadInv

-----------------------------------------------------------------------------
\* How far id b lies ahead of id a on the circle of surface ids.
Distance(a, b) == IF a <= b THEN b - a ELSE b - a + IdMod

\* The k-th surface is alive at the client, mapped, and of the recorded size.
Live(k) == surfaces[k].id \in mapped /\ client[surfaces[k].id] = surfaces[k].size

\* A reset has gone through.
Complete ==
  /\ [i \in DOMAIN surfaces |-> surfaces[i].size] \in {<<published.extent>>, published.outputs}
  /\ \A k \in DOMAIN surfaces : Live(k)
  /\ \A i, j \in DOMAIN surfaces : surfaces[i].id = surfaces[j].id => i = j

\* A reset is under way: the surfaces made so far are live and have the last
\* ids handed out, one after the other.
Partial ==
  \A k \in DOMAIN surfaces :
    /\ Live(k)
    /\ surfaces[k].size = SurfaceSizes(snap, inHand)[k]
    /\ Distance(surfaces[k].id, nextSurfaceId) = Len(surfaces) + 1 - k

SurfaceInv ==
  /\ pc \in {"create", "store"} => published = snap
  /\ pc = "create" => Partial
  /\ pc \in {"store", "select", "send"} \/ ~pendingReset => Complete
  /\ pc = "send" => /\ Index(inHand) \in DOMAIN surfaces
                    /\ surfaces[Index(inHand)].size = inHand.size

\* Ids the same distance behind are the same id, and no id at a distance of
\* 1 .. IdMod - 1 is the next one.
LEMMA DistanceFacts ==
  ASSUME NEW a \in SurfaceIds, NEW b \in SurfaceIds
  PROVE  /\ Distance(a, b) = 0 <=> a = b
         /\ Distance(a, b) < IdMod - 1 => Distance(a, NextId(b)) = Distance(a, b) + 1
         /\ Distance(a, NextId(a)) = 1
  BY BoundAssumption DEF Distance, SurfaceIds

\* A turn of the surface loop that succeeds extends the surfaces made so far,
\* and the last turn completes them.
LEMMA CreateSurfaceInv ==
  ASSUME TypeOK, ThreadInv, SurfaceInv, CreateSurface PROVE SurfaceInv'
<1> USE DEF TypeOK, ThreadInv
<1> DEFINE sizes == SurfaceSizes(snap, inHand)
           n     == Len(surfaces) + 1
           new   == [id |-> nextSurfaceId, size |-> sizes[n]]
<1>1. /\ pc = "create" /\ pendingReset /\ published = snap /\ Partial
      /\ UNCHANGED <<snap, pendingReset, published>>
  BY DEF CreateSurface, SurfaceInv, mainVars, sessionVars
<1>2. sizes \in Seq(Sizes) /\ Len(sizes) \in 1..(IdMod - 1) /\ n <= Len(sizes) /\ n \in Nat
  <2>1. sizes \in Seq(Sizes) /\ Len(sizes) \in 1..(IdMod - 1) /\ Len(surfaces) < Len(sizes)
    BY <1>1, RunningLayoutType
  <2> QED BY <2>1, BoundAssumption
<1>3. CASE Drop
  BY <1>1, <1>3 DEF SurfaceInv
<1>4. CASE ~Drop
  <2>1. /\ surfaces' = Append(surfaces, new)
        /\ client' = [client EXCEPT ![nextSurfaceId] = sizes[n]]
        /\ mapped' = mapped \cup {nextSurfaceId}
        /\ nextSurfaceId' = NextId(nextSurfaceId)
        /\ pc' = (IF n = Len(sizes) THEN "store" ELSE "create") /\ UNCHANGED inHand
    BY <1>4 DEF CreateSurface
  <2>2. sizes[n] \in Sizes /\ new \in Surfaces
    BY <1>2 DEF Surfaces
  <2>3. /\ Len(surfaces') = n /\ DOMAIN surfaces' = 1..n
        /\ surfaces'[n] = new
        /\ \A k \in 1..(n - 1) : surfaces'[k] = surfaces[k] /\ k \in DOMAIN surfaces
    BY <1>2, <2>1, <2>2
  <2>4. Partial'
    <3> SUFFICES ASSUME NEW k \in 1..n
                 PROVE  /\ Live(k)'
                        /\ surfaces'[k].size = sizes[k]
                        /\ Distance(surfaces'[k].id, nextSurfaceId') = n + 1 - k
      BY <1>1, <2>1, <2>3 DEF Partial
    <3>1. CASE k = n
      BY <1>2, <2>1, <2>2, <2>3, <3>1, DistanceFacts DEF Live
    <3>2. CASE k # n
      <4>1. /\ k \in DOMAIN surfaces /\ surfaces'[k] = surfaces[k]
            /\ surfaces[k].id \in SurfaceIds
        <5>1. k \in 1..(n - 1)
          BY <1>2, <3>2
        <5>2. k \in DOMAIN surfaces /\ surfaces'[k] = surfaces[k]
          BY <2>3, <5>1
        <5>3. surfaces[k] \in Surfaces
          BY <5>2
        <5> QED BY <5>2, <5>3 DEF Surfaces
      <4>2. Live(k) /\ surfaces[k].size = sizes[k]
            /\ Distance(surfaces[k].id, nextSurfaceId) = n - k
        BY <1>1, <4>1 DEF Partial
      <4>3. n - k \in 1..(IdMod - 2)
        BY <1>2, <3>2, BoundAssumption
      <4>4. surfaces[k].id # nextSurfaceId
        BY <4>1, <4>2, <4>3, DistanceFacts
      <4>5. Distance(surfaces[k].id, nextSurfaceId') = n + 1 - k
        <5>1. Distance(surfaces[k].id, NextId(nextSurfaceId)) = n - k + 1
          BY <4>1, <4>2, <4>3, BoundAssumption, DistanceFacts
        <5> QED BY <1>2, <2>1, <5>1
      <4> QED BY <2>1, <4>1, <4>2, <4>4, <4>5 DEF Live
    <3> QED BY <3>1, <3>2
  <2>5. CASE n = Len(sizes)
    <3>1. pc' = "store"
      BY <2>1, <2>5
    <3>2. [i \in DOMAIN surfaces' |-> surfaces'[i].size] = sizes
      <4>1. \A i \in 1..n : surfaces'[i].size = sizes[i]
        BY <1>1, <2>1, <2>3, <2>4 DEF Partial
      <4>2. sizes = [i \in 1..n |-> sizes[i]]
        BY <1>2, <2>5
      <4> QED BY <2>3, <4>1, <4>2
    <3>3. sizes \in {<<published'.extent>>, published'.outputs}
      BY <1>1 DEF SurfaceSizes
    <3>4. \A k \in DOMAIN surfaces' : Live(k)'
      BY <2>4 DEF Partial
    <3>5. \A i, j \in DOMAIN surfaces' : surfaces'[i].id = surfaces'[j].id => i = j
      <4> SUFFICES ASSUME NEW i \in 1..n, NEW j \in 1..n, surfaces'[i].id = surfaces'[j].id
                   PROVE  i = j
        BY <2>3
      <4>1. n + 1 - i = n + 1 - j
        BY <2>3, <2>4 DEF Partial
      <4> QED BY <1>2, <4>1
    <3> QED BY <1>1, <3>1, <3>2, <3>3, <3>4, <3>5 DEF SurfaceInv, Complete
  <2>6. CASE n # Len(sizes)
    BY <1>1, <2>1, <2>4, <2>6 DEF SurfaceInv
  <2> QED BY <2>5, <2>6
<1> QED BY <1>3, <1>4

\* Steps that touch neither the surfaces nor the client keep what is known of
\* them; they can only matter through pc, the reset flag and the frame in hand.
LEMMA QuietStep ==
  ASSUME UNCHANGED <<surfaces, client, mapped, published>>
  PROVE  Complete' = Complete
  BY DEF Complete, Live

LEMMA NextSurfaceInv ==
  TypeOK /\ ThreadInv /\ SurfaceInv /\ [Next]_vars => SurfaceInv'
<1> SUFFICES ASSUME TypeOK, ThreadInv, SurfaceInv, [Next]_vars PROVE SurfaceInv'
  OBVIOUS
<1> USE DEF sessionVars, mainVars, threadVars, ackVars, clientVars, boundVars
<1> DEFINE Seen == <<pc, pendingReset, inHand, snap, surfaces, nextSurfaceId,
                     published, client, mapped>>
<1>1. CASE UNCHANGED Seen
  BY <1>1 DEF SurfaceInv, Partial, Complete, Live
<1>2. CASE Initialize
  BY <1>2, QuietStep DEF Initialize, SurfaceInv, ThreadInv
<1>3. CASE Reset
  <2>1. pendingReset' /\ UNCHANGED <<pc, inHand, snap, surfaces, nextSurfaceId,
                                     published, client, mapped>>
    BY <1>3 DEF Reset
  <2> QED BY <2>1 DEF SurfaceInv, Partial, Complete, Live
<1>4. CASE CheckStop
  BY <1>4, QuietStep DEF CheckStop, SurfaceInv
<1>5. CASE TakeFrame
  BY <1>5, QuietStep DEF TakeFrame, SurfaceInv
<1>6. CASE CheckReset
  BY <1>6, QuietStep DEF CheckReset, SurfaceInv, TypeOK
<1>7. CASE Snapshot
  BY <1>7, QuietStep DEF Snapshot, SurfaceInv
<1>8. CASE Publish
  <2>1. /\ surfaces' = <<>> /\ pendingReset' = pendingReset /\ pendingReset
        /\ UNCHANGED snap
        /\ \/ pc' = "create" /\ published' = snap
           \/ pc' = "top"
    BY <1>8 DEF Publish, ThreadInv
  <2>2. Partial'
    BY <2>1 DEF Partial
  <2> QED BY <2>1, <2>2 DEF SurfaceInv
<1>9. CASE CreateSurface
  BY <1>9, CreateSurfaceInv
<1>10. CASE StoreReset
  BY <1>10, QuietStep DEF StoreReset, SurfaceInv
<1>11. CASE Register
  BY <1>11, QuietStep DEF Register, SurfaceInv
<1>12. CASE Send
  BY <1>12, QuietStep DEF Send, SurfaceInv
<1>13. ASSUME Next, ~Initialize, ~Reset, ~Submit PROVE UNCHANGED Seen
  BY <1>13 DEF Next, SetEnabled, Close, Join, CapsAdvertise, FrameAcknowledge,
               CompositorChanges, QueueFrame, SetLayout, ClearQueue
<1>14. CASE UNCHANGED vars
  BY <1>1, <1>14 DEF vars
<1> QED
  BY <1>1, <1>2, <1>3, <1>4, <1>5, <1>6, <1>7, <1>8, <1>9, <1>10, <1>11, <1>12,
     <1>13, <1>14 DEF Submit

-----------------------------------------------------------------------------
\* The layout a running reset has copied is the one set, unless the main thread
\* has yet to ask for another reset, or has asked in vain.
SnapInv ==
  pc \in {"publish", "create", "store"} =>
    \/ snap.topology = layout.topology
    \/ main \in {"clear", "reset"}
    \/ raced

LEMMA NextSnapInv ==
  /\ TypeOK /\ ThreadInv /\ SurfaceInv /\ SnapInv /\ ResetPendingUnlessRaced
  /\ [Next]_vars
  => SnapInv' /\ ResetPendingUnlessRaced'
<1> SUFFICES ASSUME TypeOK, ThreadInv, SurfaceInv, SnapInv, ResetPendingUnlessRaced,
                    [Next]_vars
             PROVE  SnapInv' /\ ResetPendingUnlessRaced'
  OBVIOUS
<1> USE DEF sessionVars, mainVars, threadVars, ackVars, clientVars, boundVars, SnapInv,
            ResetPendingUnlessRaced
<1> DEFINE Seen == <<pc, pendingReset, snap, published, layout, main, raced>>
<1>1. CASE UNCHANGED Seen
  BY <1>1
<1>2. CASE Initialize
  BY <1>2 DEF Initialize
<1>3. CASE SetLayout
  BY <1>3 DEF SetLayout
<1>4. CASE ClearQueue
  BY <1>4 DEF ClearQueue
<1>5. CASE Reset
  BY <1>5 DEF Reset, Resetting
<1>6. CASE Snapshot
  <2>1. inHand \in Frames /\ layout \in Layouts \cup {EmptyLayout}
    BY <1>6 DEF Snapshot, ThreadInv, TypeOK
  <2> QED BY <1>6, <2>1, EffectiveType DEF Snapshot
<1>7. CASE Publish
  BY <1>7 DEF Publish, ThreadInv
<1>8. CASE StoreReset
  BY <1>8 DEF StoreReset, SurfaceInv
<1>9. CASE CheckStop \/ TakeFrame \/ CheckReset \/ CreateSurface \/ Register \/ Send
  BY <1>9 DEF CheckStop, TakeFrame, CheckReset, CreateSurface, Register, Send
<1>10. ASSUME Next, ~Initialize, ~SetLayout, ~ClearQueue, ~Reset, ~Submit
       PROVE  UNCHANGED Seen
  BY <1>10 DEF Next, SetEnabled, Close, Join, CapsAdvertise, FrameAcknowledge,
               CompositorChanges, QueueFrame
<1>11. CASE UNCHANGED vars
  BY <1>1, <1>11 DEF vars
<1> QED
  BY <1>1, <1>2, <1>3, <1>4, <1>5, <1>6, <1>7, <1>8, <1>9, <1>10, <1>11 DEF Submit

-----------------------------------------------------------------------------
LEMMA NextAckInv ==
  /\ TypeOK /\ ThreadInv /\ encodedFrames = frameId
  /\ PendingAreUnacknowledged /\ DelayWithinSent /\ [Next]_vars
  => /\ encodedFrames' = frameId'
     /\ PendingAreUnacknowledged' /\ DelayWithinSent'
<1> SUFFICES ASSUME TypeOK, ThreadInv, encodedFrames = frameId, PendingAreUnacknowledged,
                    DelayWithinSent, [Next]_vars
             PROVE  /\ encodedFrames' = frameId'
                    /\ PendingAreUnacknowledged' /\ DelayWithinSent'
  OBVIOUS
<1> USE DEF PendingAreUnacknowledged, DelayWithinSent
<1> DEFINE Seen == <<frameId, encodedFrames, pendingFrames, frameDelay, acked>>
<1>1. CASE UNCHANGED Seen
  BY <1>1
<1>2. ASSUME NEW id \in ended, NEW decoded \in 1..Cardinality(ended),
             FrameAcknowledge(id, decoded)
      PROVE  /\ encodedFrames' = frameId'
             /\ PendingAreUnacknowledged' /\ DelayWithinSent'
  <2>1. encodedFrames - decoded \in 0..encodedFrames
    <3>1. Cardinality(ended) \in 0..frameId /\ frameId \in Nat
      BY EndedCount DEF TypeOK
    <3> QED BY <3>1
  <2>2. /\ frameDelay' \in {frameDelay, encodedFrames - decoded}
        /\ UNCHANGED <<encodedFrames, frameId>>
    BY <1>2 DEF FrameAcknowledge
  <2>3. pendingFrames' = pendingFrames \ {id} /\ acked' = acked \cup {id}
    BY <1>2 DEF FrameAcknowledge
  <2> QED BY <2>1, <2>2, <2>3
<1>3. CASE Register
  <2>1. CASE UNCHANGED Seen
    BY <1>1, <2>1
  <2>2. CASE ~UNCHANGED Seen
    <3>1. /\ frameId' = frameId + 1 /\ encodedFrames' = encodedFrames + 1
          /\ pendingFrames' = pendingFrames \cup {frameId}
          /\ UNCHANGED <<frameDelay, acked>>
      BY <1>3, <2>2 DEF Register
    <3>2. frameId \notin acked /\ frameId \in Nat /\ frameDelay \in Int
      BY DEF TypeOK
    <3>3. 0..(frameId' - 1) = (0..(frameId - 1)) \cup {frameId}
      BY <3>1, <3>2
    <3> QED BY <3>1, <3>2, <3>3
  <2> QED BY <2>1, <2>2
<1>4. ASSUME Next, ~Register,
             ~ \E id \in ended, decoded \in 1..Cardinality(ended) : FrameAcknowledge(id, decoded)
      PROVE  UNCHANGED Seen
  BY <1>4 DEF Next, Submit, Initialize, SetEnabled, Close, Join, CapsAdvertise,
              CompositorChanges, QueueFrame, SetLayout, ClearQueue, Reset, CheckStop,
              TakeFrame, CheckReset, Snapshot, Publish, CreateSurface, StoreReset,
              Send, ackVars
<1>5. CASE UNCHANGED vars
  BY <1>1, <1>5 DEF vars, ackVars
<1> QED BY <1>1, <1>2, <1>3, <1>4, <1>5

-----------------------------------------------------------------------------
(* Frames queued under an old layout. *)

Shows(f) == f \in Frames => f.under = layout.topology

\* What is queued since the queue was cleared, and what was taken from it since,
\* was queued under the layout set.
FrameInv ==
  /\ pc \in {"absent", "top", "poll", "exited"} => inHand = NoFrame
  /\ main # "clear" => \A i \in DOMAIN queue : Shows(queue[i])
  /\ main # "clear" /\ ~outdated => Shows(inHand)

\* A frame that arrives now is queued under the layout now set.
LEMMA FramesOfShow ==
  ASSUME NEW l \in Layouts, NEW f \in FramesOf(l) \cup {EmptyFrame} PROVE Shows(f)
BY Distinguished DEF FramesOf, Frame, Shows

LEMMA NextFrameInv ==
  TypeOK /\ ThreadInv /\ FrameInv /\ [Next]_vars => FrameInv'
<1> SUFFICES ASSUME TypeOK, ThreadInv, FrameInv, [Next]_vars PROVE FrameInv'
  OBVIOUS
<1> USE DEF sessionVars, mainVars, threadVars, ackVars, clientVars, boundVars
<1>1. queue \in Seq(Frames \cup {EmptyFrame}) /\ NoFrame \notin Frames
  BY Distinguished DEF TypeOK
<1>2. ASSUME UNCHANGED <<layout, main, queue, outdated, inHand, pc>>
      PROVE  FrameInv'
  BY <1>1, <1>2 DEF FrameInv, Shows
<1>3. ASSUME NEW l \in Layouts, CompositorChanges(l) PROVE FrameInv'
  BY <1>2, <1>3 DEF CompositorChanges
<1>4. ASSUME NEW l \in recent, NEW f \in FramesOf(l) \cup {EmptyFrame}, QueueFrame(f)
      PROVE  FrameInv'
  <2>1. Shows(f)
    BY FramesOfShow DEF TypeOK
  <2>2. queue' \in {queue, Append(queue, f)} /\ main # "clear"
    BY <1>4 DEF QueueFrame
  <2>3. \A i \in DOMAIN queue' : Shows(queue'[i])
    BY <1>1, <2>1, <2>2 DEF FrameInv
  <2> QED BY <1>4, <2>1, <2>3 DEF QueueFrame, FrameInv, Shows
<1>5. CASE SetLayout
  BY <1>5 DEF SetLayout, FrameInv
<1>6. CASE ClearQueue
  <2>1. queue' = <<>> /\ UNCHANGED <<inHand, pc, layout>>
    BY <1>6 DEF ClearQueue
  <2>2. ~outdated' => inHand = NoFrame
    BY <1>6 DEF ClearQueue
  <2> QED BY <1>1, <2>1, <2>2 DEF FrameInv, Shows
<1>7. CASE TakeFrame
  <2>1. CASE queue = <<>>
    <3>1. UNCHANGED <<queue, inHand, layout, main>> /\ inHand = NoFrame
      BY <1>7, <2>1 DEF TakeFrame, FrameInv
    <3> QED BY <1>1, <3>1 DEF FrameInv, Shows
  <2>2. CASE queue # <<>>
    <3>1. /\ pc' = "taken" /\ inHand' = Head(queue) /\ queue' = Tail(queue)
          /\ UNCHANGED <<layout, main>>
      BY <1>7, <2>2 DEF TakeFrame
    <3>2. /\ 1 \in DOMAIN queue /\ inHand' = queue[1]
          /\ \A i \in DOMAIN queue' : i + 1 \in DOMAIN queue /\ queue'[i] = queue[i + 1]
      BY <1>1, <2>2, <3>1
    <3> QED BY <3>1, <3>2 DEF FrameInv, Shows
  <2> QED BY <2>1, <2>2
<1>8. CASE Reset
  BY <1>8 DEF Reset, FrameInv, Shows
<1>9. ASSUME UNCHANGED vars PROVE FrameInv'
  BY <1>2, <1>9 DEF vars
<1>10. CASE Initialize
  <2>1. pc = "absent"
    BY <1>10 DEF Initialize, ThreadInv
  <2> QED BY <1>10, <2>1 DEF Initialize, FrameInv, Shows
<1>11. CASE (\E b \in BOOLEAN : SetEnabled(b)) \/ Close \/ Join
            \/ (\E adv \in Advertisements : CapsAdvertise(adv))
            \/ (\E id \in ended, decoded \in 1..Cardinality(ended) : FrameAcknowledge(id, decoded))
  <2>1. UNCHANGED <<layout, main, queue, outdated, inHand, pc>>
    BY <1>11 DEF SetEnabled, Close, Join, CapsAdvertise, FrameAcknowledge
  <2> QED BY <1>2, <2>1
<1>12. CASE CheckStop \/ CheckReset \/ Snapshot \/ Publish \/ CreateSurface \/ StoreReset
            \/ Register \/ Send
  <2>1. UNCHANGED <<layout, main, queue, outdated>>
    BY <1>12 DEF CheckStop, CheckReset, Snapshot, Publish, CreateSurface, StoreReset,
                 Register, Send
  <2>2. \/ pc' \in {pc, "poll", "exited"} /\ pc \in {pc', "top"} /\ inHand' = inHand
        \/ pc' = "top" /\ inHand' = NoFrame
        \/ pc' \in {"snapshot", "publish", "create", "store", "select", "send"} /\ inHand' = inHand
    BY <1>12 DEF CheckStop, CheckReset, Snapshot, Publish, CreateSurface, StoreReset,
                 Register, Send
  <2> QED BY <1>1, <2>1, <2>2 DEF FrameInv, Shows
<1> QED BY <1>3, <1>4, <1>5, <1>6, <1>7, <1>8, <1>9, <1>10, <1>11, <1>12 DEF Next, Submit

-----------------------------------------------------------------------------
\* The inductive invariant.
StreamInv ==
  /\ TypeOK
  /\ ThreadInv
  /\ SurfaceInv
  /\ SnapInv
  /\ ResetPendingUnlessRaced
  /\ encodedFrames = frameId
  /\ PendingAreUnacknowledged
  /\ DelayWithinSent
  /\ FrameInv

\* StreamInv holds in every state VideoStream can reach.
THEOREM StreamInvariance == Spec => []StreamInv
<1>1. Init => StreamInv
  <2> SUFFICES ASSUME Init PROVE StreamInv
    OBVIOUS
  <2>1. TypeOK /\ ThreadInv
    BY InitTypes
  <2>2. SurfaceInv /\ SnapInv /\ ResetPendingUnlessRaced
    BY DEF Init, SurfaceInv, SnapInv, ResetPendingUnlessRaced
  <2>3. encodedFrames = frameId /\ PendingAreUnacknowledged /\ DelayWithinSent
    BY DEF Init, PendingAreUnacknowledged, DelayWithinSent
  <2>4. FrameInv
    BY Distinguished DEF Init, FrameInv, Shows
  <2> QED BY <2>1, <2>2, <2>3, <2>4 DEF StreamInv
<1>2. StreamInv /\ [Next]_vars => StreamInv'
  BY NextTypes, NextSurfaceInv, NextSnapInv, NextAckInv, NextFrameInv DEF StreamInv
<1> QED BY <1>1, <1>2, PTL DEF Spec

\* Every member of VideoStream::Private keeps its type.
THEOREM TypeInvariance == Spec => []TypeOK
<1>1. StreamInv => TypeOK
  BY DEF StreamInv
<1> QED BY <1>1, StreamInvariance, PTL

\* sendFrame names only surfaces that are alive at the client, mapped, and of
\* the frame's size, whatever earlier resets failed at.
THEOREM FramesLandOnSurfaces == Spec => []FrameOnMappedSurface
<1>1. StreamInv => FrameOnMappedSurface
  BY DEF StreamInv, SurfaceInv, Complete, Live, FrameOnMappedSurface
<1> QED BY <1>1, StreamInvariance, PTL

\* A reset that performReset reports done covers the published topology.
THEOREM ResetsCover == Spec => []SurfacesCoverPublished
<1>1. StreamInv => SurfacesCoverPublished
  BY DEF StreamInv, SurfaceInv, Complete, SurfacesCoverPublished
<1> QED BY <1>1, StreamInvariance, PTL

\* The only interleaving in which setMonitorLayout loses a topology is a reset()
\* that lands between performReset's copy of the layout and
\* pendingReset.store(false).
THEOREM LayoutsLostOnlyInRace == Spec => []ResetPendingUnlessRaced
<1>1. StreamInv => ResetPendingUnlessRaced
  BY DEF StreamInv
<1> QED BY <1>1, StreamInvariance, PTL

\* onFrameAcknowledge knows every frame it is told of for the first time, and the
\* delay the frame rate is computed from stays between zero and the frames sent.
THEOREM AcksAlwaysAddUp == Spec => []AcksAddUp
<1>1. StreamInv => AcksAddUp
  BY DEF StreamInv, AcksAddUp
<1> QED BY <1>1, StreamInvariance, PTL

\* Once setMonitorLayout has cleared the queue, no frame queued under an older
\* layout is submitted, except the one that was out of the queue already.
THEOREM NoFrameEverOutlivesItsLayout == Spec => []NoFrameOutlivesItsLayout
<1>1. StreamInv => NoFrameOutlivesItsLayout
  <2> SUFFICES ASSUME StreamInv, pc = "send", main # "clear", ~outdated
               PROVE  inHand.under = layout.topology
    BY DEF NoFrameOutlivesItsLayout
  <2>1. inHand \in Frames
    BY DEF StreamInv, ThreadInv
  <2> QED BY <2>1 DEF StreamInv, FrameInv, Shows
<1> QED BY <1>1, StreamInvariance, PTL

\* After close() has returned, the submission thread never runs again.
THEOREM ClosedIsFinal == Spec => NothingAfterClosed
<1> DEFINE Work == <<pc, inHand, surfaces, nextSurfaceId, frameId, published, client>>
<1>1. StreamInv /\ [Next]_vars => [session = "closed" => UNCHANGED Work]_vars
  <2> SUFFICES ASSUME StreamInv, [Next]_vars, session = "closed" PROVE UNCHANGED Work
    OBVIOUS
  <2>1. pc \in {"absent", "exited"}
    BY DEF StreamInv, ThreadInv
  <2>2. ~Submit /\ ~Initialize
    BY <2>1 DEF Submit, Initialize, CheckStop, TakeFrame, CheckReset, Snapshot, Publish,
                CreateSurface, StoreReset, Register, Send
  <2>3. ASSUME Next PROVE UNCHANGED Work
    BY <2>2, <2>3 DEF Next, SetEnabled, Close, Join, CapsAdvertise, FrameAcknowledge,
       CompositorChanges, QueueFrame, SetLayout, ClearQueue, Reset, threadVars,
       ackVars, clientVars
  <2>4. CASE UNCHANGED vars
    BY <2>4 DEF vars, threadVars, ackVars, clientVars
  <2> QED BY <2>3, <2>4
<1> QED BY <1>1, StreamInvariance, PTL DEF Spec, NothingAfterClosed
=============================================================================
