------------------------------ MODULE Listing -------------------------------
(***************************************************************************)
(* What readers are shown of the packages of module Registry: search       *)
(* (src/src/api/search.rs), the page of a package and the dependency graph *)
(* (src/src/api/packages.rs), each with a way of its own to say which      *)
(* version of a package is the current one (src/src/db.rs).                *)
(*                                                                         *)
(* They write nothing.  Matching and the order of the answers are left     *)
(* out: a query is one that matches every name, on a page that holds all.  *)
(***************************************************************************)
EXTENDS Registry, FiniteSetsExt

Rows(k)      == {v \in Versions : HasRow(k, v)}
Published(k) == {v \in Versions : status[k][v] = "published"}
Unyanked(k)  == {v \in Rows(k) : ~yanked[k][v]}

\* COALESCE(latest_version, ...): without one, the last created of some versions.
\* created_at counts seconds, so that any of them may be it.
LatestOr(k, versions) == IF latest[k] # NULL THEN {latest[k]} ELSE versions

-----------------------------------------------------------------------------
(* Search. *)

Live(k) == Published(k) \cap Unyanked(k)

\* The version joined to a package: the latest one, if it is live.
SearchVersions(k) == LatestOr(k, Live(k)) \cap Live(k)

\* A package without such a version is read and then dropped from the answer.
Found(k) == SearchVersions(k) # {}

\* What the mirror's upstream offers is added, unless the answer has that name.
Search(channels, offered) ==
    LET local == {k \in Keys : k[2] \in channels /\ Found(k)} IN
    [local    |-> local,
     upstream |-> {s \in offered : \A k \in local : k[1] # Lower[s]}]

\* The total beside it, of the packages that match: count_sql asks for a row of
\* versions with package_id = id, where id is the row's own.
Total(matches, rows) ==
    Cardinality({p \in matches : \E v \in rows : v.package_id = v.id})

-----------------------------------------------------------------------------
(* The page of a package, and the graph. *)

\* best_version of the published versions; the greatest when all are yanked.
DetailLatest(k) ==
    IF Published(k) = {} THEN NULL
    ELSE IF Live(k) # {} THEN Max(Live(k))
    ELSE Max(Published(k))

\* The version whose dependencies are drawn, published or not.
GraphVersions(k) == LatestOr(k, Unyanked(k)) \cap Unyanked(k)

-----------------------------------------------------------------------------

\* While nothing waits for a verdict, is yanked or deleted, search finds every
\* package that has a version and offers no package of that name from elsewhere.
\* latest_version hides a package when it names no version, and publish handlers and
\* imports write it from rows they have read before.
SearchFindsPackages ==
    /\ deletes = 0
    /\ \A k \in Keys : Rows(k) = Live(k)
    => \A channels \in SUBSET Channels :
          LET answer == Search(channels, Spellings) IN
          \A k \in Keys : k[2] \in channels /\ Rows(k) # {} =>
              /\ k \in answer.local
              /\ \A s \in answer.upstream : Lower[s] # k[1]

\* Search and graph go by latest_version, which publish handlers maintain one
\* comparison at a time; the page of a package compares all of its versions anew.
\* After publishes that did not race, what search finds is what the page calls
\* latest, and the graph draws the dependencies of that version.
SearchAgreesWithDetail ==
    Quiet => \A k \in Keys : Found(k) =>
                /\ SearchVersions(k) = {DetailLatest(k)}
                /\ GraphVersions(k) = SearchVersions(k)

-----------------------------------------------------------------------------
(* The inductive strengthening of SearchAgreesWithDetail, for one slot.    *)

\* The handler that inserted a version has yet to make it the latest if it is.
Comparing(k) == \E r \in Requests : pc[r] \in {"read_latest", "set_latest"} /\ HasId(k, r)

IsGreatest(k, v, versions) == v \in versions /\ \A w \in versions : w <= v

\* latest_version names the greatest version, except that a handler past its insert has
\* to compare its own version with it: it is the greatest of the others until then.
LatestIsGreatest ==
    \A k \in Keys :
        /\ Rows(k) = {} => latest[k] = NULL
        /\ ~Comparing(k) /\ Rows(k) # {} => IsGreatest(k, latest[k], Rows(k))
        /\ \A r \in Requests : HasId(k, r) =>
              LET v == req[r].vers others == Rows(k) \ {v} IN
              /\ pc[r] = "read_latest" =>
                    /\ v \in Rows(k)
                    /\ IF others = {} THEN latest[k] = NULL
                                      ELSE IsGreatest(k, latest[k], others)
              /\ pc[r] = "set_latest" => IsGreatest(k, v, Rows(k))

=============================================================================
