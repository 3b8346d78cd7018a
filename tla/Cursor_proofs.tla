---------------------------- MODULE Cursor_proofs ----------------------------
(***************************************************************************)
(* Proofs about Cursor for every cache size and every set of images.  The  *)
(* invariant says, beside the types, that the two caches agree, that no    *)
(* image is cached twice, that lastUsedCursor is what the client shows,    *)
(* and that the time an entry carries is when its image was last asked     *)
(* for, all of them before the present.                                    *)
(***************************************************************************)
EXTENDS Cursor, SequenceTheorems, TLAPS

\* The entry marked as shown is shown and was asked for; without one it is the
\* client's default.
LastIsShown ==
  /\ shown = requested
  /\ lastUsedCursor = None => shown = Default /\ cursorType = "SystemDefault"
  /\ lastUsedCursor # None => shown = cursorCache[lastUsedCursor].image /\ cursorType = "Image"

\* Each entry's time is when its image was last asked for.
TimesAreSeen ==
  /\ \A i \in DOMAIN cursorCache : cursorCache[i].lastUsed = lastSeen[cursorCache[i].image]
  /\ \A image \in Images : lastSeen[image] < clock

CursorInv ==
  TypeOK /\ CachesAgree /\ ImagesAreDistinct /\ LastIsShown /\ TimesAreSeen /\ RecentAreCached

\* The shape of the cache.
LEMMA CacheShape ==
  ASSUME TypeOK
  PROVE  /\ cursorCache \in Seq(Entries)
         /\ DOMAIN cursorCache = 1 .. Len(cursorCache)
         /\ \A j \in DOMAIN cursorCache : cursorCache[j] \in Entries
  BY DEF TypeOK

\* What putting an entry in the place of another one leaves.
LEMMA PutEntry ==
  ASSUME TypeOK, NEW i \in DOMAIN cursorCache, NEW e \in Entries,
         cursorCache' = [cursorCache EXCEPT ![i] = e]
  PROVE  /\ cursorCache' \in Seq(Entries) /\ Len(cursorCache') = Len(cursorCache)
         /\ DOMAIN cursorCache' = DOMAIN cursorCache
         /\ cursorCache'[i] = e
         /\ \A j \in DOMAIN cursorCache \ {i} : cursorCache'[j] = cursorCache[j]
  BY CacheShape, ExceptSeq

USE DEF Images, None, CacheIds, Entries, Entry, Cached, Tick, Requested, Forgotten, UsedNow,
        HasRoom, NewId, LeastRecent, PointerSystem, PointerCached, PointerNew

LEMMA InitInv == Init => CursorInv
  <1> SUFFICES ASSUME Init PROVE CursorInv
    OBVIOUS
  <1>1. cursorCache \in Seq(Entries) /\ Len(cursorCache) = 0 /\ DOMAIN cursorCache = {}
    BY DEF Init
  <1> QED
    BY <1>1, CursorAssumption
    DEF Init, CursorInv, TypeOK, CachesAgree, ImagesAreDistinct, LastIsShown, TimesAreSeen,
        RecentAreCached

\* Marking an entry as used now, which ShowAgain and ShowCached do.
LEMMA UseKeeps ==
  ASSUME CursorInv, NEW image \in Images, NEW i \in Cached(image),
         Requested(image), Tick, cursorCache' = UsedNow(i), lastUsedCursor' = i,
         clientCache' = clientCache, shown' = image
  PROVE  CursorInv'
  <1> USE DEF CursorInv, TypeOK
  <1>1. /\ DOMAIN cursorCache = 1 .. Len(cursorCache) /\ i \in DOMAIN cursorCache
        /\ cursorCache[i].image = image
        /\ \A j \in DOMAIN cursorCache : cursorCache[j] \in Entries
    <2>1. i \in DOMAIN cursorCache /\ cursorCache[i].image = image
      OBVIOUS
    <2> HIDE DEF Entries, TypeOK
    <2> QED
      BY <2>1, CacheShape
  <1>0. Entry(image) \in Entries /\ cursorCache' = [cursorCache EXCEPT ![i] = Entry(image)]
    <2>1. clock \in Nat
      BY CursorAssumption
    <2>2. \A e \in Entries : e.image = image => [e EXCEPT !.lastUsed = clock] = Entry(image)
      BY <2>1
    <2>3. [cursorCache EXCEPT ![i].lastUsed = clock] = [cursorCache EXCEPT ![i] = Entry(image)]
      BY <1>1, <2>2
    <2> QED
      BY <2>1, <2>3
  <1>2. /\ cursorCache' \in Seq(Entries) /\ Len(cursorCache') = Len(cursorCache)
        /\ DOMAIN cursorCache' = DOMAIN cursorCache
    <2> HIDE DEF Entry, Entries, TypeOK, UsedNow, Requested, Tick
    <2> QED
      BY <1>1, <1>0, PutEntry
  <1>3. \A j \in DOMAIN cursorCache :
          /\ cursorCache'[j].image = cursorCache[j].image
          /\ cursorCache'[j].lastUsed = IF j = i THEN clock ELSE cursorCache[j].lastUsed
    BY <1>1
  <1>4. TypeOK'
    <2>1. lastSeen' \in [Images -> Nat] /\ clock' \in 1 .. MaxUpdates + 1
      BY CursorAssumption
    <2> QED
      BY <1>1, <1>2, <2>1
  <1>5. CachesAgree' /\ ImagesAreDistinct'
    <2>1. UNCHANGED clientCache /\ DOMAIN cursorCache' = DOMAIN cursorCache
      BY <1>2
    <2>2. CachesAgree'
      BY <1>3, <2>1 DEF CachesAgree
    <2>3. ImagesAreDistinct'
      BY <1>3, <2>1 DEF ImagesAreDistinct
    <2> QED
      BY <2>2, <2>3
  <1>6. LastIsShown'
    BY <1>1, <1>2, <1>3 DEF LastIsShown
  <1>7. TimesAreSeen'
    BY <1>1, <1>2, <1>3 DEF TimesAreSeen, ImagesAreDistinct
  <1>8. RecentAreCached'
    <2> SUFFICES ASSUME NEW other \in Images, Cached(other)' = {}, NEW j \in DOMAIN cursorCache'
                 PROVE  lastSeen'[other] <= lastSeen'[cursorCache'[j].image]
      BY DEF RecentAreCached
    <2>1. Cached(other) = {} /\ other # image
      BY <1>1, <1>2, <1>3
    <2>2. lastSeen[other] <= lastSeen[cursorCache[j].image] /\ lastSeen'[other] = lastSeen[other]
      BY <1>2, <2>1 DEF RecentAreCached
    <2> QED
      BY <1>1, <1>2, <1>3, <2>2 DEF TimesAreSeen
  <1> QED
    BY <1>4, <1>5, <1>6, <1>7, <1>8

\* A new image in a place of its own or of the least recent one.
LEMMA NewKeeps ==
  ASSUME CursorInv, NEW image \in Images, Cached(image) = {}, NEW i \in CacheIds,
         Requested(image), Tick, PointerNew(i, image), lastUsedCursor' = i,
         \/ i = Len(cursorCache) + 1 /\ cursorCache' = Append(cursorCache, Entry(image))
         \/ /\ i \in DOMAIN cursorCache /\ LeastRecent(i)
            /\ cursorCache' = [cursorCache EXCEPT ![i] = Entry(image)],
         \* an image that is not cached was asked for before those that are
         \A other \in Images : Cached(other)' = {} =>
           other # image /\ \A j \in DOMAIN cursorCache \ {i} : lastSeen[other] <= lastSeen[cursorCache[j].image]
  PROVE  CursorInv'
  <1> USE DEF CursorInv, TypeOK
  <1>1. /\ DOMAIN cursorCache = 1 .. Len(cursorCache)
        /\ \A j \in DOMAIN cursorCache : cursorCache[j] \in Entries /\ cursorCache[j].image # image
        /\ Entry(image) \in Entries
    <2>1. clock \in Nat
      BY CursorAssumption
    <2>2. Entry(image) \in Entries
      BY <2>1
    <2>3. /\ DOMAIN cursorCache = 1 .. Len(cursorCache)
          /\ \A j \in DOMAIN cursorCache : cursorCache[j] \in Entries
      <3> HIDE DEF Entries, TypeOK
      <3> QED
        BY CacheShape
    <2>4. \A j \in DOMAIN cursorCache : cursorCache[j].image # image
      OBVIOUS
    <2> QED
      BY <2>2, <2>3, <2>4
  <1>2. /\ cursorCache' \in Seq(Entries) /\ Len(cursorCache') <= PointerCacheSize
        /\ DOMAIN cursorCache' = DOMAIN cursorCache \cup {i}
        /\ cursorCache'[i] = Entry(image)
        /\ \A j \in DOMAIN cursorCache \ {i} : cursorCache'[j] = cursorCache[j]
    <2>1. CASE i = Len(cursorCache) + 1 /\ cursorCache' = Append(cursorCache, Entry(image))
      BY <1>1, <2>1, CursorAssumption
    <2>2. CASE i \in DOMAIN cursorCache /\ cursorCache' = [cursorCache EXCEPT ![i] = Entry(image)]
      <3>1. TypeOK /\ Len(cursorCache) <= PointerCacheSize
        OBVIOUS
      <3> HIDE DEF Entry, Entries, TypeOK, CursorInv, Requested, Tick, LeastRecent, PointerNew,
                   Cached, CacheIds
      <3>2. /\ cursorCache' \in Seq(Entries) /\ Len(cursorCache') = Len(cursorCache)
            /\ DOMAIN cursorCache' = DOMAIN cursorCache /\ cursorCache'[i] = Entry(image)
            /\ \A j \in DOMAIN cursorCache \ {i} : cursorCache'[j] = cursorCache[j]
        BY <1>1, <2>2, <3>1, PutEntry
      <3> QED
        BY <2>2, <3>1, <3>2
    <2> QED
      BY <2>1, <2>2
  <1>3. TypeOK'
    <2>1. lastSeen' \in [Images -> Nat] /\ clock' \in 1 .. MaxUpdates + 1
      BY CursorAssumption
    <2>2. clientCache' \in [CacheIds -> Images \cup {Default}]
      OBVIOUS
    <2> QED
      BY <1>2, <2>1, <2>2
  <1>4. CachesAgree' /\ ImagesAreDistinct'
    <2>1. clientCache'[i] = image /\ \A j \in CacheIds \ {i} : clientCache'[j] = clientCache[j]
      OBVIOUS
    <2>2. DOMAIN cursorCache \subseteq CacheIds
      BY <1>1, CursorAssumption
    <2> QED
      BY <1>1, <1>2, <2>1, <2>2 DEF CachesAgree, ImagesAreDistinct
  <1>5. LastIsShown'
    BY <1>2 DEF LastIsShown
  <1>6. TimesAreSeen'
    <2>1. lastSeen'[image] = clock /\ \A other \in Images \ {image} : lastSeen'[other] = lastSeen[other]
      OBVIOUS
    <2> QED
      BY <1>1, <1>2, <2>1 DEF TimesAreSeen
  <1>7. RecentAreCached'
    <2> SUFFICES ASSUME NEW other \in Images, Cached(other)' = {}, NEW j \in DOMAIN cursorCache'
                 PROVE  lastSeen'[other] <= lastSeen'[cursorCache'[j].image]
      BY DEF RecentAreCached
    <2>1. other # image /\ lastSeen'[other] = lastSeen[other] /\ lastSeen'[image] = clock
      OBVIOUS
    <2>2. CASE j = i
      BY <1>2, <2>1, <2>2 DEF TimesAreSeen
    <2>3. CASE j # i
      BY <1>1, <1>2, <2>1, <2>3
    <2> QED
      BY <2>2, <2>3
  <1> QED
    BY <1>3, <1>4, <1>5, <1>6, <1>7

LEMMA NextInv == CursorInv /\ [Next]_vars => CursorInv'
  <1> SUFFICES ASSUME CursorInv, [Next]_vars PROVE CursorInv'
    OBVIOUS
  <1> USE DEF CursorInv, TypeOK
  <1>1. ASSUME ShowDefault PROVE CursorInv'
    BY <1>1 DEF ShowDefault, serverVars, clientVars, CachesAgree, ImagesAreDistinct, LastIsShown,
                TimesAreSeen, RecentAreCached
  <1>2. ASSUME NEW image \in Images, ShowAgain(image) PROVE CursorInv'
    <2>1. shown = image /\ shown' = image /\ clientCache' = clientCache
      BY <1>2 DEF ShowAgain, clientVars, LastIsShown
    <2> QED
      BY <1>2, <2>1, UseKeeps DEF ShowAgain
  <1>3. ASSUME NEW image \in Images, ShowCached(image) PROVE CursorInv'
    <2> PICK i \in Cached(image) :
          Requested(image) /\ Tick /\ lastUsedCursor' = i /\ cursorCache' = UsedNow(i) /\ PointerCached(i)
      BY <1>3 DEF ShowCached
    <2>1. shown' = image /\ clientCache' = clientCache
      BY DEF CachesAgree
    <2> QED
      BY <2>1, UseKeeps
  <1>4. ASSUME NEW image \in Images, ShowNew(image) PROVE CursorInv'
    <2> DEFINE i == Len(cursorCache) + 1
    <2>1. i \in CacheIds /\ DOMAIN cursorCache = 1 .. Len(cursorCache)
      BY <1>4, CursorAssumption DEF ShowNew
    <2>2. ASSUME NEW other \in Images, Cached(other)' = {}
          PROVE  other # image /\ Cached(other) = {}
      <3>1. cursorCache' = Append(cursorCache, Entry(image))
        BY <1>4 DEF ShowNew
      <3>2. DOMAIN cursorCache' = DOMAIN cursorCache \cup {i} /\ cursorCache'[i] = Entry(image)
            /\ \A j \in DOMAIN cursorCache : cursorCache'[j] = cursorCache[j]
        BY <2>1, <3>1
      <3> QED
        BY <2>2, <3>2
    <2>3. \A other \in Images : Cached(other)' = {} =>
            other # image /\ \A j \in DOMAIN cursorCache \ {i} : lastSeen[other] <= lastSeen[cursorCache[j].image]
      BY <2>2 DEF RecentAreCached
    <2> QED
      BY <1>4, <2>1, <2>3, NewKeeps DEF ShowNew
  <1>5. ASSUME NEW image \in Images, ReplaceOldest(image) PROVE CursorInv'
    <2> PICK i \in DOMAIN cursorCache :
          /\ LeastRecent(i) /\ Requested(image) /\ Tick /\ lastUsedCursor' = i
          /\ cursorCache' = [cursorCache EXCEPT ![i] = Entry(image)] /\ PointerNew(i, image)
      BY <1>5 DEF ReplaceOldest
    <2>1. i \in CacheIds /\ DOMAIN cursorCache' = DOMAIN cursorCache /\ cursorCache'[i] = Entry(image)
          /\ \A j \in DOMAIN cursorCache \ {i} : cursorCache'[j] = cursorCache[j]
      BY CursorAssumption
    <2>2. ASSUME NEW other \in Images, Cached(other)' = {}, NEW j \in DOMAIN cursorCache \ {i}
          PROVE  other # image /\ lastSeen[other] <= lastSeen[cursorCache[j].image]
      <3>1. other # image
        BY <2>1, <2>2
      <3>2. CASE Cached(other) = {}
        BY <3>1, <3>2 DEF RecentAreCached
      <3>3. CASE cursorCache[i].image = other
        <4>1. cursorCache[i].lastUsed <= cursorCache[j].lastUsed
          OBVIOUS
        <4> QED
          BY <3>1, <3>3, <4>1 DEF TimesAreSeen
      <3> QED
        BY <2>1, <2>2, <3>2, <3>3
    <2>3. \A other \in Images : Cached(other)' = {} => other # image
      BY <2>1
    <2>4. Cached(image) = {} /\ CursorInv
      BY <1>5 DEF ReplaceOldest
    <2> HIDE DEF CursorInv, TypeOK, Cached, Entry, Requested, Tick, LeastRecent, PointerNew, CacheIds
    <2> QED
      BY <2>1, <2>2, <2>3, <2>4, NewKeeps
  <1>6. CASE UNCHANGED vars
    BY <1>6 DEF vars, serverVars, clientVars, CachesAgree, ImagesAreDistinct, LastIsShown,
                TimesAreSeen, RecentAreCached
  <1> QED
    BY <1>1, <1>2, <1>3, <1>4, <1>5, <1>6 DEF Next

\* The whole invariant holds of every behaviour of the cursor.
THEOREM CursorInvariance == Spec => []CursorInv
  BY InitInv, NextInv, PTL DEF Spec

\* Every update of the cursor keeps the server's state in its types, the cache no
\* larger than the client's.
THEOREM TypeInvariance == Spec => []TypeOK
  <1>1. CursorInv => TypeOK
    BY DEF CursorInv
  <1> QED
    BY <1>1, CursorInvariance, PTL

\* After any updates an id means the same image to the server and to the client,
\* and no image has two.
THEOREM AlwaysOneIdPerImage == Spec => []OneIdPerImage
  <1>1. CursorInv => OneIdPerImage
    BY DEF CursorInv, OneIdPerImage
  <1> QED
    BY <1>1, CursorInvariance, PTL

\* Eviction always takes the image asked for longest ago.
THEOREM RecentAlwaysCached == Spec => []RecentAreCached
  <1>1. CursorInv => RecentAreCached
    BY DEF CursorInv
  <1> QED
    BY <1>1, CursorInvariance, PTL

\* The cursor implements Pointer: whatever the cache does, the client shows what
\* the last update asked for.
THEOREM Refinement == Spec => Refines
  <1>1. Init => Abstract!Init
    BY DEF Init, Abstract!Init
  <1>2. CursorInv /\ CursorInv' /\ [Next]_vars => [Abstract!Next]_<<requested, shown>>
    BY DEF CursorInv, LastIsShown, TypeOK, Abstract!Next, Abstract!Show
  <1> QED
    BY <1>1, <1>2, CursorInvariance, PTL DEF Spec, Refines, Abstract!Spec
=============================================================================
