------------------------------ MODULE MCImport ------------------------------
(* Small instances of Import for TLC, and of VersionOrder, whose order the   *)
(* numbers in Versions stand for, as assumptions that TLC evaluates.         *)
EXTENDS Import, VersionOrder, TLC

\* Every name is spelt in lower case.
Plain == [s \in Spellings |-> s]

\* The first version of every name, and the second one of some.
SomeStubs ==
    {[name |-> s, vers |-> 1] : s \in Spellings}
        \cup {[name |-> CHOOSE s \in Spellings : TRUE, vers |-> 2]}

\* "10", "1a", "2" and "02": texts rank as bytes do.
SomeSegments ==
    {[num |-> 10, text |-> 2], [num |-> NotANumber, text |-> 3],
     [num |-> 2, text |-> 4], [num |-> 2, text |-> 1]}

Short(segments) == {<<s>> : s \in segments} \cup segments \X segments

NothingAbove(v, S) == \A w \in S : CmpVersion(v, w) # -1
Triples(S) == {<<v, w, x>> : v \in S, w \in S, x \in S}

\* Any two versions compare one way or the other.
ASSUME \A v, w \in Short(SomeSegments) : CmpVersion(w, v) = -CmpVersion(v, w)

\* Among releases the version that max_by finds, and the one that publishing them in
\* any order leaves as the latest, has nothing above it.
ASSUME LET R == Short({s \in SomeSegments : IsNumber(s)}) IN
       \A t \in Triples(R) :
          \A best \in {MaxBy(t), LatestOf(t)} : NothingAbove(best, {t[i] : i \in 1..3})

\* Among all versions neither holds: "2" < "10" < "1a" < "2".
ASSUME \E t \in Triples(Short(SomeSegments)) :
          /\ CmpVersion(t[1], t[2]) = -1 /\ CmpVersion(t[2], t[3]) = -1
          /\ CmpVersion(t[3], t[1]) = -1
          /\ ~ NothingAbove(MaxBy(t), {t[i] : i \in 1..3})
          /\ MaxBy(t) # MaxBy(<<t[2], t[3], t[1]>>)

\* A yanked version is the best only when all are yanked.
ASSUME \A v, w \in Short(SomeSegments) :
          /\ BestVersion(<<[version |-> v, yanked |-> TRUE],
                           [version |-> w, yanked |-> FALSE]>>) = w
          /\ BestVersion(<<[version |-> v, yanked |-> TRUE],
                           [version |-> w, yanked |-> TRUE]>>) = v
=============================================================================
