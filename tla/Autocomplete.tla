---------------------------- MODULE Autocomplete ----------------------------
(***************************************************************************)
(* What the URL bar completes to: the pages with their scores, the origins *)
(* the triggers keep beside them, the input history and the tags (places/  *)
(* src/api/matcher.rs, storage/tags.rs and the parts of storage/history.rs *)
(* and storage/bookmarks.rs that write these tables).                      *)
(*                                                                         *)
(* A URL is a string without its scheme, and everything before its first   *)
(* slash is its host.  The triggers of moz_places do not update            *)
(* moz_origins: they stage the change in temp tables of the connection,    *)
(* and delete_pending_temp_tables applies what is staged.  Every operation *)
(* is one transaction of the writer ("main") or of a sync ("sync").        *)
(***************************************************************************)
EXTENDS StringMatch, Frecency, Functions, TLC

CONSTANTS
    Urls,         \* the URLs that are visited, bookmarked and deleted
    Types,        \* the transitions of visits
    Boosts,       \* get_redirect_frecency_boost: "Normal" or "Redirect"
    Tags,         \* tags a URL may get
    Queries,      \* the strings typed into the URL bar
    Limits,       \* the limits of a search
    MaxVisits,    \* bound on the visits of a page
    MaxOps,       \* bound on the operations: an origin's frecency may drift without end
    MaxRecalc     \* URLs per chunk of update_frecencies: 400 in the code

VARIABLES
    db,           \* the tables, and per connection what is staged
    ops           \* the operations so far

vars == <<db, ops>>

Conns == {"main", "sync"}
Slash == {"slash"}

\* The index of the first of these characters, or one past the end.
FirstOf(str, chars) == Min({i \in 1..Len(str) : str[i] \in chars} \cup {Len(str) + 1})
Before(str, i) == SubSeq(str, 1, i - 1)
From(str, i) == SubSeq(str, i, Len(str))
Host(url) == Before(url, FirstOf(url, Slash))
Hosts == {Host(u) : u \in Urls}
Pos(n) == IF n > 0 THEN n ELSE 0

(***************************************************************************)
(* The tables.  pages[u]: its row id, its visits (newest first), how often *)
(* it was typed, what refers to it (a bookmark, tags), its frecency and    *)
(* the host its origin_id points to.  inputs[<<u, q>>]: the use count of   *)
(* query q for u, in thousandths.  stale: moz_places_stale_frecencies, the *)
(* last marked first.                                                      *)
(***************************************************************************)
NoRows == <<>>
NothingStaged == [ins |-> NoRows, del |-> NoRows, upd |-> NoRows]

Init ==
    /\ db = [pages |-> NoRows, origins |-> NoRows, inputs |-> NoRows, stale |-> <<>>,
             temp |-> [c \in Conns |-> NothingStaged]]
    /\ ops = 0

TypeOK ==
    /\ DOMAIN db.pages \subseteq Urls
    /\ DOMAIN db.origins \subseteq Hosts
    /\ \A r \in DOMAIN db.inputs : r[1] \in DOMAIN db.pages /\ r[2] \in Queries
    /\ Range(db.stale) \subseteq DOMAIN db.pages

Pages == DOMAIN db.pages
IdsOf(d) == {d.pages[u].id : u \in DOMAIN d.pages}
AddDelta(f, h, n) == (h :> (n + IF h \in DOMAIN f THEN f[h] ELSE 0)) @@ f

Scored(p) == [visits |-> [i \in 1..Len(p.visits) |->
                            [type |-> p.visits[i], age |-> 0, target |-> "None"]],
              typed |-> p.typed, foreign_count |-> Cardinality(p.refs),
              is_query |-> FALSE]
Score(p, most_recent) ==
    calculate_frecency(DEFAULT_FRECENCY_SETTINGS, Scored(p), most_recent)

(***************************************************************************)
(* Statements on moz_places, with what their triggers do.                  *)
(***************************************************************************)
\* INSERT INTO moz_places: the row id is the largest one plus 1; the origin is
\* created at the frecency of the new page, -1, and the change is staged.
new_page_info(d, c, u) ==
    LET id == Max(IdsOf(d) \cup {0}) + 1
    IN  [d EXCEPT
           !.pages = (u :> [id |-> id, visits |-> <<>>, typed |-> 0, refs |-> {},
                            frec |-> -1, origin |-> Host(u)]) @@ @,
           !.origins = @ @@ (Host(u) :> -1),
           !.temp[c].ins = @ @@ (id :> Host(u))]

WithPage(d, c, u) == IF u \in DOMAIN d.pages THEN d ELSE new_page_info(d, c, u)

SetFrecency(d, c, u, f) ==
    [d EXCEPT !.pages[u].frec = f,
              !.temp[c].upd = AddDelta(@, Host(u), Pos(f) - Pos(d.pages[u].frec))]

update_frecency(d, c, u, most_recent) ==
    SetFrecency(d, c, u, Score(d.pages[u], most_recent))

\* DELETE FROM moz_places; the input history, the tags and the stale mark of
\* the page go with it.
DeletePage(d, c, u) ==
    [d EXCEPT !.pages = Restrict(@, DOMAIN @ \ {u}),
              !.inputs = Restrict(@, {r \in DOMAIN @ : r[1] # u}),
              !.stale = SelectSeq(@, LAMBDA v : v # u),
              !.temp[c].del = AddDelta(@, Host(u), -Pos(d.pages[u].frec))]


\* The staged changes: first the frecencies, then the deletions, which remove
\* an origin no page points to, then the insertions, which create the origin
\* that is not there and point the page with that row id to it.
delete_pending_temp_tables(d, c) ==
    LET t == d.temp[c]
        Plus(f, h) == IF h \in DOMAIN f THEN f[h] ELSE 0
        updated == [h \in DOMAIN d.origins |-> d.origins[h] + Plus(t.upd, h) + Plus(t.del, h)]
        unused  == {h \in DOMAIN t.del : \A u \in DOMAIN d.pages : d.pages[u].origin # h}
        kept    == DOMAIN updated \ unused
    IN  [d EXCEPT
           !.origins = [h \in kept \cup Range(t.ins) |-> IF h \in kept THEN updated[h] ELSE 0],
           !.pages = [u \in DOMAIN @ |->
                        IF @[u].id \in DOMAIN t.ins
                        THEN [@[u] EXCEPT !.origin = t.ins[d.pages[u].id]] ELSE @[u]],
           !.temp[c] = NothingStaged]

(***************************************************************************)
(* Operations.                                                             *)
(***************************************************************************)
AddVisit(d, u, t) == [d EXCEPT !.pages[u].visits = <<t>> \o @,
                               !.pages[u].typed = IF t = "Typed" THEN @ + 1 ELSE @]

\* apply_observation: a title only; a visit that failed, which does not
\* change the score; or a visit.  What the triggers stage is not applied.
ObserveTitle(u) ==
    /\ db' = WithPage(db, "main", u)

ObserveError(u, t) ==
    /\ u \in Pages => Len(db.pages[u].visits) < MaxVisits
    /\ db' = AddVisit(WithPage(db, "main", u), u, t)

ObserveVisit(u, t, boost) ==
    /\ u \in Pages => Len(db.pages[u].visits) < MaxVisits
    /\ db' = update_frecency(AddVisit(WithPage(db, "main", u), u, t), "main", u, boost)

\* apply_synced_visits, in the transaction of a sync.  It does not count the
\* visit as typed.
ApplySyncedVisit(u, t) ==
    /\ u \in Pages => Len(db.pages[u].visits) < MaxVisits
    /\ LET d == WithPage(db, "sync", u)
       IN  db' = update_frecency([d EXCEPT !.pages[u].visits = <<t>> \o @], "sync", u, "Unknown")

\* apply_synced_deletion; a bookmark forbids it (ON DELETE RESTRICT).
ApplySyncedDeletion(u) ==
    /\ u \in Pages /\ "bookmark" \notin db.pages[u].refs
    /\ db' = DeletePage(db, "sync", u)

FinishIncoming ==
    /\ db.temp["sync"] # NothingStaged
    /\ db' = delete_pending_temp_tables(db, "sync")

\* delete_place_by_guid; it fails on a bookmarked page.
DeletePlace(u) ==
    /\ u \in Pages /\ "bookmark" \notin db.pages[u].refs
    /\ db' = delete_pending_temp_tables(DeletePage(db, "main", u), "main")

\* cleanup_pages, for one page.
CleanupPage(d, c, u) ==
    IF d.pages[u].refs = {} /\ d.pages[u].visits = <<>> THEN DeletePage(d, c, u)
    ELSE update_frecency(d, c, u, "Unknown")

\* delete_place_visit_at_time, or delete_visits_between on one visit.
DeleteVisit(u, i) ==
    /\ u \in Pages /\ i \in DOMAIN db.pages[u].visits
    /\ db' = delete_pending_temp_tables(
               CleanupPage([db EXCEPT !.pages[u].visits = RemoveAt(@, i)], "main", u), "main")

\* wipe_local, which delete_everything ends with: the origins that are not
\* used any more go before the staged changes are applied.
WipeLocal ==
    LET gone == {u \in Pages : db.pages[u].refs = {}}
        d1 == FoldSet(LAMBDA u, d : DeletePage(d, "main", u), db, gone)
        d2 == [d1 EXCEPT !.pages = [u \in DOMAIN @ |-> [@[u] EXCEPT !.visits = <<>>]],
                         !.inputs = NoRows,
                         !.origins = Restrict(@, {d1.pages[u].origin : u \in DOMAIN d1.pages})]
        d3 == FoldSet(LAMBDA u, d : update_frecency(d, "main", u, "Unknown"), d2, DOMAIN d2.pages)
    IN  /\ db.pages # NoRows
        /\ db' = delete_pending_temp_tables(d3, "main")

\* insert_bookmark and delete_bookmark.
InsertBookmark(u) ==
    /\ u \in Pages => "bookmark" \notin db.pages[u].refs
    /\ LET d == WithPage(db, "main", u)
       IN  db' = delete_pending_temp_tables([d EXCEPT !.pages[u].refs = @ \cup {"bookmark"}], "main")

DeleteBookmark(u) ==
    /\ u \in Pages /\ "bookmark" \in db.pages[u].refs
    /\ db' = delete_pending_temp_tables([db EXCEPT !.pages[u].refs = @ \ {"bookmark"}], "main")

\* A bookmark a sync brings (or changes): maybe_store_url, and the trigger that
\* marks the frecency of its page as stale.
MarkStale(d, u) ==
    [d EXCEPT !.stale = IF d.pages[u].frec = 0 THEN @
                        ELSE <<u>> \o SelectSeq(@, LAMBDA v : v # u)]

ApplySyncedBookmark(u) ==
    LET d == WithPage(db, "sync", u)
    IN  db' = MarkStale([d EXCEPT !.pages[u].refs = @ \cup {"bookmark"}], u)

\* removeLocalItems, for a bookmark that is deleted on the server.
RemoveSyncedBookmark(u) ==
    /\ u \in Pages /\ "bookmark" \in db.pages[u].refs
    /\ db' = [MarkStale(db, u) EXCEPT !.pages[u].refs = @ \ {"bookmark"}]

\* update_frecencies, one chunk.  The subquery of the UPDATE compares the id of
\* its own row with itself, so that every page gets the score of the first one.
UpdateFrecencies ==
    LET n == Min({Len(db.stale), MaxRecalc})
        chunk == Range(SubSeq(db.stale, 1, n))
        score == Score(db.pages[db.stale[1]], "Normal")
    IN  /\ db.stale # <<>>
        /\ db' = [FoldSet(LAMBDA u, d : SetFrecency(d, "sync", u, score), db, chunk)
                     EXCEPT !.stale = From(@, n + 1)]

\* A connection is closed: its temp tables go with it.
Close(c) ==
    /\ db.temp[c] # NothingStaged
    /\ db' = [db EXCEPT !.temp[c] = NothingStaged]

(***************************************************************************)
(* Tags.  A tag is trimmed before it is stored, looked up or removed from  *)
(* a URL, but not before it is removed from all of them.                   *)
(***************************************************************************)
tag_url(u, t) ==
    /\ u \in Pages
    /\ db' = [db EXCEPT !.pages[u].refs = @ \cup {t}]

untag_url(u, t) ==
    /\ u \in Pages
    /\ db' = [db EXCEPT !.pages[u].refs = @ \ {t}]

remove_all_tags_from_url(u) ==
    /\ u \in Pages
    /\ db' = [db EXCEPT !.pages[u].refs = @ \ Tags]

remove_tag(t, padded) ==
    /\ db' = IF padded THEN db
             ELSE [db EXCEPT !.pages = [u \in DOMAIN @ |-> [@[u] EXCEPT !.refs = @ \ {t}]]]

(***************************************************************************)
(* Search.  A result has its URL and the reason it matched.  Two origins   *)
(* of the same frecency are ordered by a row id the model does not keep,   *)
(* so that a search has a set of possible answers.                         *)
(***************************************************************************)
www == <<"w", "w", "w", "dot">>

split_after_prefix(q) ==
    LET i == FirstOf(q, {"colon"}) + 1
    IN  IF i > Len(q) + 1 THEN q
        ELSE IF IsPrefix(<<"slash", "slash">>, From(q, i)) THEN From(q, i + 2) ELSE From(q, i)

\* The host and what follows it, without the user name.
split_after_host_and_port(q) ==
    LET r == split_after_prefix(q)
        i == FirstOf(r, {"at"})
        rest == IF i > Len(r) THEN r ELSE From(r, i + 1)
        end == FirstOf(rest, Slash)
    IN  [host |-> Before(rest, end), remainder |-> From(rest, end)]

looks_like_origin(q) == q # <<>> /\ \A i \in DOMAIN q : Ascii(q[i]) /\ q[i] \notin Slash

\* ORIGIN_SQL: the best origins whose host begins with the query, or with the
\* query after www.
OriginMatches(q) ==
    LET found == {h \in DOMAIN db.origins : /\ IsPrefix(q, h) \/ IsPrefix(www \o q, h)
                                            /\ db.origins[h] >= -1}
    IN  {h \in found : \A o \in found : db.origins[o] <= db.origins[h]}

Better(u, v) == \/ db.pages[u].frec > db.pages[v].frec
                \/ /\ db.pages[u].frec = db.pages[v].frec
                   /\ db.pages[u].id > db.pages[v].id

\* URL_SQL: the best page of that host whose URL begins with the query.
UrlMatches(host, stripped) ==
    {u \in Pages : \/ db.pages[u].origin = host /\ IsPrefix(stripped, u)
                   \/ db.pages[u].origin = www \o host /\ IsPrefix(www \o stripped, u)}

\* from_url_row: the URL is completed up to the next slash only.
UpToSlash(u, n) == LET i == FirstOf(From(u, n + 1), Slash)
                   IN  Before(u, Min({n + i, Len(u)}) + 1)
from_url_row(u, stripped) ==
    LET at == Min({i \in 0..(Len(u) - Len(stripped)) : IsPrefix(stripped, From(u, i + 1))})
    IN  [url |-> UpToSlash(u, at + Len(stripped)), reason |-> "Url"]

OriginOrUrl(q) ==
    IF looks_like_origin(q)
    THEN IF OriginMatches(q) = {} THEN {<<>>}
         ELSE {<<[url |-> h \o <<"slash">>, reason |-> "Origin"]>> : h \in OriginMatches(q)}
    ELSE LET parts == split_after_host_and_port(q)
             stripped == parts.host \o parts.remainder
             found == UrlMatches(parts.host, stripped)
             best == CHOOSE u \in found : \A v \in found \ {u} : Better(u, v)
         IN  IF FirstOf(q, Slash \cup {"colon"}) > Len(q) \/ found = {} THEN {<<>>}
             ELSE {<<from_url_row(best, stripped)>>}

\* AUTOCOMPLETE_MATCH for the default behaviours; the tags are not passed on.
autocomplete_match(q, u) ==
    LET p == db.pages[u]
    IN  invoke(IF q = <<>> THEN <<>> ELSE <<q>>,
               [url |-> u, title |-> <<>>, tags |-> <<>>, typed |-> p.typed > 0,
                visit_count |-> visit_count(Scored(p).visits),
                bookmarked |-> "bookmark" \in p.refs, open_page_count |-> 0,
                javascript |-> FALSE],
               "Anywhere", SearchBehaviorDefault)

\* The rank of a page among the inputs that begin with the query: twice the
\* use count if the most used one is the query itself, to one decimal.
Rank(d, q, u) ==
    LET rows == {r \in DOMAIN d.inputs : r[1] = u /\ IsPrefix(q, r[2])}
        most == Max({d.inputs[r] : r \in rows} \cup {0})
        exact == <<u, q>> \in rows /\ d.inputs[<<u, q>>] = most
    IN  (50 + most * (IF exact THEN 2 ELSE 1)) \div 100

\* LIMIT, and the conversion of a row.
Results(sorted, reason, limit) ==
    [i \in 1..Min({limit, Len(sorted)}) |-> [url |-> sorted[i], reason |-> reason]]

\* Pages of equal rank and frecency, whose order the statement leaves open, come
\* in that of Suggestions.
Adaptive(q, limit) ==
    Results(SetToSortSeq({u \in Pages : Rank(db, q, u) > 0 /\ autocomplete_match(q, u)},
                         LAMBDA u, v : \/ Rank(db, q, u) > Rank(db, q, v)
                                       \/ Rank(db, q, u) = Rank(db, q, v) /\ Better(u, v)),
            "PreviousUse", limit)

Suggestions(q, limit) ==
    Results(SetToSortSeq({u \in Pages : /\ db.pages[u].frec > 0
                                        /\ visit_count(Scored(db.pages[u]).visits) > 0
                                        /\ autocomplete_match(q, u)},
                         Better),
            "Bookmark", limit)

\* saturating_sub, of all the results so far.
Remaining(rem, results) == Pos(rem - Len(results))

match_with_limit(first, q, limit) ==
    LET r1 == IF limit = 0 THEN <<>> ELSE first
        m1 == Remaining(limit, r1)
        r2 == IF m1 = 0 THEN r1 ELSE r1 \o Adaptive(q, m1)
        m2 == Remaining(m1, r2)
    IN  IF m1 = 0 \/ m2 = 0 THEN r2 ELSE r2 \o Suggestions(q, m2)

search_frecent(q, limit) == {match_with_limit(first, q, limit) : first \in OriginOrUrl(q)}

\* accept_result, for a result of a search; the use counts decay by a tenth.
accept_result(q, u) ==
    /\ u \in Pages
    /\ LET used == IF <<u, q>> \in DOMAIN db.inputs THEN db.inputs[<<u, q>>] ELSE 0
       IN  db' = [db EXCEPT !.inputs = (<<u, q>> :> ((used * 9) \div 10 + 1000)) @@ @]

Operation ==
    \/ \E u \in Urls :
         \/ ObserveTitle(u) \/ ApplySyncedDeletion(u) \/ DeletePlace(u)
         \/ InsertBookmark(u) \/ DeleteBookmark(u) \/ ApplySyncedBookmark(u)
         \/ RemoveSyncedBookmark(u) \/ remove_all_tags_from_url(u)
         \/ \E t \in Types : \/ ObserveError(u, t) \/ ApplySyncedVisit(u, t)
                              \/ \E b \in Boosts : ObserveVisit(u, t, b)
         \/ \E i \in 1..MaxVisits : DeleteVisit(u, i)
         \/ \E t \in Tags : tag_url(u, t) \/ untag_url(u, t)
    \/ \E q \in Queries, limit \in Limits : \E r \in search_frecent(q, limit) :
         \E i \in DOMAIN r : accept_result(q, r[i].url)
    \/ \E t \in Tags, padded \in BOOLEAN : remove_tag(t, padded)
    \/ \E c \in Conns : Close(c)
    \/ FinishIncoming \/ WipeLocal \/ UpdateFrecencies

Next == ops < MaxOps /\ Operation /\ ops' = ops + 1

Spec == Init /\ [][Next]_vars

(***************************************************************************)
(* Properties.                                                             *)
(***************************************************************************)
\* A search answers with at most the number of results it was asked for, and
\* every one of them can be opened: an origin of the table, or the address of
\* a page that is still stored, or of a directory above it.
SearchSound ==
    \A q \in Queries, limit \in Limits : \A r \in search_frecent(q, limit) :
      /\ Len(r) <= limit
      /\ \A i \in DOMAIN r :
           CASE r[i].reason = "Origin" -> Host(r[i].url) \in DOMAIN db.origins
             [] r[i].reason = "Url"    -> \E u \in Pages : IsPrefix(r[i].url, u)
             [] OTHER                  -> r[i].url \in Pages


\* "Deletes all information about the given URL." (PlacesConnection.kt:679):
\* after deletePlace of the last page of a host, moz_origins does not have the
\* host any more, which the search would offer.
DeletedIsForgotten ==
    [][\A u \in Urls :
         /\ DeletePlace(u)
         /\ \A v \in Pages \ {u} : Host(v) # Host(u)
         => Host(u) \notin DOMAIN db'.origins]_vars

\* "Maintenance and Sync periodically recalculate frecencies for Place IDs in
\* this table" (create_shared_schema.sql:52): a page whose stale mark is
\* removed has the frecency of its own visits.
RecalculatedIsOwn ==
    [][\A u \in Range(db.stale) :
         UpdateFrecencies /\ u \notin Range(db'.stale)
         => db'.pages[u].frec = Score(db.pages[u], "Normal")]_vars
=============================================================================
