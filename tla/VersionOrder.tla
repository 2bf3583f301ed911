---------------------------- MODULE VersionOrder ----------------------------
(***************************************************************************)
(* The order of version strings: cmp_version and best_version of           *)
(* src/src/db.rs, and the two ways packages.latest_version is found.  The  *)
(* other modules number versions in this order.                            *)
(*                                                                         *)
(* A version is the sequence of its segments, split at ".", "-" and "_".   *)
(* A segment has the number u64 parses it as, if it does, and a rank among *)
(* texts.                                                                  *)
(***************************************************************************)
EXTENDS Integers, Sequences

CONSTANTS
    Segments,
    NotANumber     \* num of a segment that is not one, or too large

ASSUME SegmentsAssumption ==
    /\ Segments \subseteq [num : Nat \cup {NotANumber}, text : Nat]
    /\ NotANumber \notin Nat

VersionStrings == Seq(Segments) \ {<<>>}

\* Ordering: Less, Equal and Greater.
Compare(a, b) == IF a < b THEN -1 ELSE IF a > b THEN 1 ELSE 0

IsNumber(s) == s.num # NotANumber

\* Numbers compare as numbers with each other, and as text with anything else.
CmpSegment(s, t) ==
    IF IsNumber(s) /\ IsNumber(t) THEN Compare(s.num, t.num)
                                  ELSE Compare(s.text, t.text)

\* Positions both versions have and differ at.
Differences(v, w) ==
    {i \in DOMAIN v \cap DOMAIN w : CmpSegment(v[i], w[i]) # 0}

\* The first difference decides, and without one the longer version is greater.
CmpVersion(v, w) ==
    IF Differences(v, w) = {}
      THEN Compare(Len(v), Len(w))
      ELSE LET i == CHOOSE i \in Differences(v, w) :
                       \A j \in Differences(v, w) : i <= j
           IN CmpSegment(v[i], w[i])

\* Iterator::max_by: of equals, the last.
MaxBy(versions) ==
    LET best[i \in DOMAIN versions] ==
            IF i > 1 /\ CmpVersion(best[i - 1], versions[i]) > 0
              THEN best[i - 1] ELSE versions[i]
    IN best[Len(versions)]

\* Rows are yanked or not; the first is the answer when all are.
BestVersion(rows) ==
    LET listed == SelectSeq(rows, LAMBDA r : ~r.yanked)
        Version(r) == r.version
    IN IF listed # <<>> THEN MaxBy([i \in DOMAIN listed |-> Version(listed[i])])
                        ELSE Version(rows[1])

\* latest_version when the versions are published in this order: it changes for a
\* greater one only.
LatestOf(versions) ==
    LET latest[i \in DOMAIN versions] ==
            IF i > 1 /\ CmpVersion(versions[i], latest[i - 1]) # 1
              THEN latest[i - 1] ELSE versions[i]
    IN latest[Len(versions)]

-----------------------------------------------------------------------------

\* Versions all of whose segments are numbers.
Releases == {v \in VersionStrings : \A i \in DOMAIN v : IsNumber(v[i])}

=============================================================================
