---------------------------- MODULE MonitorLayout ----------------------------
(***************************************************************************)
(* DisplayControl::decodeMonitorLayout (src/DisplayControl.cpp): a fold    *)
(* over the monitor records, then the checks on the whole.  The optional   *)
(* attributes (physical size, orientation, scale) cannot make a layout     *)
(* invalid and are left out.                                               *)
(***************************************************************************)
EXTENDS Integers, SequencesExt

CONSTANTS
  Lists,           \* the lists of monitor records a client may send
  NoLayout,        \* what decoding an invalid list leaves
  MaximumMonitorCount, MaximumDesktopExtent,
  MinSize, MaxSize \* DISPLAY_CONTROL_{MIN,MAX}_MONITOR_{WIDTH,HEIGHT}

MonitorRecord == [left : Int, top : Int, width : Nat, height : Nat, primary : BOOLEAN]

ASSUME ListsAssumption == Lists \subseteq Seq(MonitorRecord)
ASSUME LimitsAssumption ==
  /\ {MaximumMonitorCount, MaximumDesktopExtent, MaxSize} \subseteq Nat
  /\ MinSize \in Nat \ {0}

Right(m)  == m.left + m.width
Bottom(m) == m.top + m.height

\* QRect::intersects: the two share a pixel.
Intersects(a, b) ==
  /\ a.left < Right(b) /\ b.left < Right(a)
  /\ a.top < Bottom(b) /\ b.top < Bottom(a)

\* Mutant: ranges that only touch are not enough.
StrictlyWithin(a, b) == a < b
Reaches(a, b) == a <= b

\* An edge of one lies on the opposite edge of the other, at least at a point.
Adjacent(a, b) ==
  \/ /\ Right(a) = b.left \/ Right(b) = a.left
     /\ Reaches(Max({a.top, b.top}), Min({Bottom(a), Bottom(b)}))
  \/ /\ Bottom(a) = b.top \/ Bottom(b) = a.top
     /\ Reaches(Max({a.left, b.left}), Min({Right(a), Right(b)}))

SupportedSize(w) ==
  /\ w.width \in MinSize..MaxSize /\ w.width % 2 = 0
  /\ w.height \in MinSize..MaxSize

MisplacedPrimary(w) == w.primary /\ (w.left # 0 \/ w.top # 0)

Overlaps(ms, w) == \E i \in DOMAIN ms : Intersects(w, ms[i])

-----------------------------------------------------------------------------
\* The variables of the loop: decoded, primaryCount and the bounding box.
Box(w) == [minX |-> w.left, minY |-> w.top, maxX |-> Right(w), maxY |-> Bottom(w)]

Extend(b, w) == [minX |-> Min({b.minX, w.left}), minY |-> Min({b.minY, w.top}),
                 maxX |-> Max({b.maxX, Right(w)}), maxY |-> Max({b.maxY, Bottom(w)})]

Begin == [valid |-> TRUE, decoded |-> <<>>, primaryCount |-> 0, box |-> [empty |-> TRUE]]

\* One turn of the loop; a record that fails a check ends it.
Turn(d, w) ==
  IF d.valid /\ SupportedSize(w) /\ ~MisplacedPrimary(w) /\ ~Overlaps(d.decoded, w)
    THEN [valid |-> TRUE,
          decoded |-> Append(d.decoded, w),
          primaryCount |-> d.primaryCount + (IF w.primary THEN 1 ELSE 0),
          box |-> IF d.decoded = <<>> THEN Box(w) ELSE Extend(d.box, w)]
    ELSE [d EXCEPT !.valid = FALSE]

SupportedCount(n) == n # 0 /\ n <= MaximumMonitorCount

FitsDesktop(b) ==
  /\ b.maxX - b.minX <= MaximumDesktopExtent
  /\ b.maxY - b.minY <= MaximumDesktopExtent

\* Every monitor of a layout of several is adjacent to another one.
NoneAlone(ms) ==
  Len(ms) > 1 =>
    \A i \in DOMAIN ms : \E j \in DOMAIN ms \ {i} : Adjacent(ms[i], ms[j])

\* What is decoded from the records, NoLayout when that fails.
decodeMonitorLayout(records) ==
  LET d == FoldLeft(Turn, Begin, records)
  IN IF /\ SupportedCount(Len(records))
        /\ d.valid /\ d.primaryCount = 1
        /\ FitsDesktop(d.box) /\ NoneAlone(d.decoded)
       THEN d.decoded ELSE NoLayout

-----------------------------------------------------------------------------
(* A reference by pixels: a monitor is the set of pixels it shows.          *)

Pixels(w) == (w.left..(Right(w) - 1)) \X (w.top..(Bottom(w) - 1))
\* The pixels together with those around them.
Halo(w) == ((w.left - 1)..Right(w)) \X ((w.top - 1)..Bottom(w))

Span(S) == Max(S) - Min(S) + 1

ValidLayout(ms) ==
  LET Each == DOMAIN ms
      AllPixels == UNION {Pixels(ms[i]) : i \in Each}
  IN /\ Cardinality(Each) \in 1..MaximumMonitorCount
     /\ \A i \in Each : SupportedSize(ms[i])
     /\ \E i \in Each : \A j \in Each : ms[j].primary <=> i = j
     /\ \A i \in Each : ms[i].primary => <<ms[i].left, ms[i].top>> = <<0, 0>>
     /\ \A i, j \in Each : i # j => Pixels(ms[i]) \cap Pixels(ms[j]) = {}
     /\ Span({p[1] : p \in AllPixels}) <= MaximumDesktopExtent
     /\ Span({p[2] : p \in AllPixels}) <= MaximumDesktopExtent
     /\ Cardinality(Each) > 1 =>
          \A i \in Each : \E j \in Each \ {i} : Halo(ms[i]) \cap Pixels(ms[j]) # {}

\* What decoding the list should give.
Expected(ms) == IF ValidLayout(ms) THEN ms ELSE NoLayout
=============================================================================
