------------------------------- MODULE Cursor --------------------------------
(***************************************************************************)
(* KRdp::Cursor (src/Cursor.cpp): which pointer images the client has in   *)
(* its cache, which one it shows, and which one the next new image is to   *)
(* replace.  All of it runs on the main thread.                            *)
(*                                                                         *)
(* An image stands for a pair of image and hotspot, which the code         *)
(* compares together.  The cache is indexed from 1, and the index is the   *)
(* id the client knows an image by (cacheId + 1).                          *)
(***************************************************************************)
EXTENDS Integers, Sequences

CONSTANTS
  Small, Large,       \* images below 96 pixels, and up to 384
  Oversized,          \* images beyond
  Default,            \* the client's own pointer
  PointerCacheSize,   \* of the client; at least 1, see onCapabilities
  MaxUpdates          \* bound: updates with an image

Images == Small \cup Large
None   == 0

ASSUME CursorAssumption ==
  /\ PointerCacheSize \in Nat \ {0} /\ MaxUpdates \in Nat
  /\ Default \notin Images \cup Oversized
  /\ Images \cap Oversized = {}

VARIABLES
  cursorType,      \* CursorType: SystemDefault or Image; Hidden is never set
  cursorCache,     \* sequence of [image, lastUsed]
  lastUsedCursor,  \* the index of the one shown, or None
  clock,           \* steady_clock
  clientCache,     \* external: the client's cache
  shown,           \* external: the client's pointer
  requested,       \* history: the pointer the last update asked for
  lastSeen         \* history: when each image was last asked for; 0 is never

serverVars == <<cursorType, cursorCache, lastUsedCursor>>
clientVars == <<clientCache, shown>>
vars == <<serverVars, clock, clientVars, requested, lastSeen>>

CacheIds == 1 .. PointerCacheSize

Init ==
  /\ cursorType = "SystemDefault" /\ cursorCache = <<>> /\ lastUsedCursor = None
  /\ clock = 1
  /\ clientCache = [i \in CacheIds |-> Default] /\ shown = Default
  /\ requested = Default /\ lastSeen = [i \in Images |-> 0]

-----------------------------------------------------------------------------
(* The client *)

PointerSystem == shown' = Default /\ UNCHANGED clientCache
PointerCached(i) == shown' = clientCache[i] /\ UNCHANGED clientCache
\* PointerNew or PointerLarge, and PointerCached for the same index
PointerNew(i, image) ==
  clientCache' = [clientCache EXCEPT ![i] = image] /\ shown' = image

-----------------------------------------------------------------------------
Tick == clock <= MaxUpdates /\ clock' = clock + 1

Entry(image) == [image |-> image, lastUsed |-> clock]

Cached(image) == {i \in DOMAIN cursorCache : cursorCache[i].image = image}

\* Mutant: the pointer is not forgotten when the default is shown.
Kept == lastUsedCursor
Forgotten == None

\* setCursorType(SystemDefault): too big an image
ShowDefault ==
  /\ cursorType' = "SystemDefault"
  /\ IF cursorType # "SystemDefault"
       THEN lastUsedCursor' = Forgotten /\ PointerSystem
       ELSE UNCHANGED <<lastUsedCursor, clientVars>>
  /\ requested' = Default
  /\ UNCHANGED <<cursorCache, clock, lastSeen>>

Requested(image) ==
  /\ cursorType' = "Image" /\ requested' = image
  /\ lastSeen' = [lastSeen EXCEPT ![image] = clock]

\* Mutant: an image shown again does not count as used.
UsedOnce(i) == cursorCache
UsedNow(i) == [cursorCache EXCEPT ![i].lastUsed = clock]

\* The image is shown already.
ShowAgain(image) ==
  /\ lastUsedCursor \in Cached(image)
  /\ Requested(image) /\ Tick
  /\ cursorCache' = UsedNow(lastUsedCursor)
  /\ UNCHANGED <<lastUsedCursor, clientVars>>

ShowCached(image) ==
  /\ lastUsedCursor \notin Cached(image)
  /\ \E i \in Cached(image) :
       /\ Requested(image) /\ Tick
       /\ lastUsedCursor' = i
       /\ cursorCache' = UsedNow(i)
       /\ PointerCached(i)

\* Mutant: the cache has one place more than the client's.
AnyIndex == Len(cursorCache) <= PointerCacheSize
HasRoom == Len(cursorCache) < PointerCacheSize

\* Mutant: the id is one less than the size.
LastId == IF cursorCache = <<>> THEN 1 ELSE Len(cursorCache)
NewId == Len(cursorCache) + 1

\* A new image, with room for it.
ShowNew(image) ==
  /\ Cached(image) = {} /\ HasRoom
  /\ Requested(image) /\ Tick
  /\ lastUsedCursor' = Len(cursorCache) + 1
  /\ cursorCache' = Append(cursorCache, Entry(image))
  /\ PointerNew(NewId, image)

LeastRecent(i) == \A j \in DOMAIN cursorCache : cursorCache[i].lastUsed <= cursorCache[j].lastUsed

\* A new image, in the place of the least recently used one.
ReplaceOldest(image) ==
  /\ Cached(image) = {} /\ ~HasRoom
  /\ \E i \in DOMAIN cursorCache :
       /\ LeastRecent(i)
       /\ Requested(image) /\ Tick
       /\ lastUsedCursor' = i
       /\ cursorCache' = [cursorCache EXCEPT ![i] = Entry(image)]
       /\ PointerNew(i, image)

\* update.  Updates before the session streams, and updates without an image
\* (only the position has changed), do nothing.
Next ==
  \/ \E image \in Oversized : ShowDefault
  \/ \E image \in Images :
       ShowAgain(image) \/ ShowCached(image) \/ ShowNew(image) \/ ReplaceOldest(image)

Spec == Init /\ [][Next]_vars

-----------------------------------------------------------------------------
Entries == [image : Images, lastUsed : Nat]

TypeOK ==
  /\ cursorType \in {"SystemDefault", "Image"}
  /\ cursorCache \in Seq(Entries) /\ Len(cursorCache) <= PointerCacheSize
  /\ lastUsedCursor \in {None} \cup DOMAIN cursorCache
  /\ clock \in 1 .. MaxUpdates + 1
  /\ clientCache \in [CacheIds -> Images \cup {Default}]
  /\ shown \in Images \cup {Default}
  /\ requested \in Images \cup {Default}
  /\ lastSeen \in [Images -> Nat]

\* The client shows what was last asked for, whether it has to be sent, is in
\* the cache, is shown already or the default was shown in between.
Abstract == INSTANCE Pointer WITH Images <- Images, Default <- Default,
                                  requested <- requested, shown <- shown
Refines == Abstract!Spec

\* An id means the same image to the server and to the client.
CachesAgree == \A i \in DOMAIN cursorCache : clientCache[i] = cursorCache[i].image

\* No image is in the cache twice, or it would be evicted under one id and shown
\* under the other.
ImagesAreDistinct ==
  \A i, j \in DOMAIN cursorCache : cursorCache[i].image = cursorCache[j].image => i = j

\* So the images and the ids the client knows them by are one to one.
OneIdPerImage == CachesAgree /\ ImagesAreDistinct

\* The cache holds the images asked for most recently: one that is not in it has
\* been asked for before all that are.
RecentAreCached ==
  \A image \in Images : Cached(image) = {} =>
    \A i \in DOMAIN cursorCache : lastSeen[image] <= lastSeen[cursorCache[i].image]
=============================================================================
