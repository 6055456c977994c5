------------------------------ MODULE Frecency ------------------------------
(***************************************************************************)
(* The score of a page (places/src/frecency.rs): a sample of its last      *)
(* visits, weighted by age and by how the page was reached, scaled up to   *)
(* all of its visits.  Points are kept in hundredths: the code divides the *)
(* bonus by 100, in f32, which is exact for the bonuses of the settings.   *)
(***************************************************************************)
EXTENDS Integers, Sequences, FiniteSets, SequencesExt

DEFAULT_FRECENCY_SETTINGS ==
    [num_visits |-> 10,
     cutoff |-> <<4, 14, 31, 90>>, weight |-> <<100, 70, 50, 30>>,
     default_bucket_weight |-> 10,
     bonus |-> [Link |-> 100, Embed |-> 0, FramedLink |-> 0,
                RedirectPermanent |-> 0, RedirectTemporary |-> 0,
                Download |-> 0, Reload |-> 0, Typed |-> 2000, Bookmark |-> 75],
     redirect_source_visit_bonus |-> 25,
     default_visit_bonus |-> 0,
     unvisited_bookmark_bonus |-> 140,
     unvisited_typed_bonus |-> 200]

Transitions == DOMAIN DEFAULT_FRECENCY_SETTINGS.bonus

\* The visits the triggers of moz_historyvisits count: all but the excluded
\* types 4, 7, 8 and 9.
Counted == Transitions \ {"Embed", "Download", "FramedLink", "Reload"}
visit_count(visits) == Len(SelectSeq(visits, LAMBDA v : v.type \in Counted))

\* The two redirect bonuses are swapped in the code, and both are 0.
get_transition_bonus(s, type, visited, redirect) ==
    CASE redirect -> s.redirect_source_visit_bonus
      [] ~redirect /\ type = "None" -> s.default_visit_bonus
      [] ~redirect /\ ~visited /\ type = "Typed" -> s.unvisited_typed_bonus
      [] ~redirect /\ ~visited /\ type = "Bookmark" -> s.unvisited_bookmark_bonus
      [] OTHER -> s.bonus[type]

get_frecency_aged_weight(s, age) ==
    LET b == {i \in 1..4 : age <= s.cutoff[i]}
    IN  IF b = {} THEN s.default_bucket_weight
        ELSE s.weight[CHOOSE i \in b : \A j \in b : i <= j]

\* Division and rounding up.
Ceil(n, d) == (n + d - 1) \div d

(***************************************************************************)
(* The computation, on a page with                                         *)
(*   visits: its visits, newest first, each with its type, its age in days *)
(*           and the type of a redirect that led away from it (target)     *)
(*   typed, foreign_count, is_query                                        *)
(* and with the redirect bonus of the newest visit: "Unknown", "Redirect"  *)
(* or "Normal".                                                            *)
(***************************************************************************)
has_bookmark(page) == page.foreign_count > 0

UsesRedirectBonus(v, i, most_recent) ==
    IF most_recent = "Unknown" \/ i > 1
    THEN \/ v.target = "RedirectPermanent"
         \/ v.target = "RedirectTemporary" /\ v.type # "Typed"
    ELSE most_recent = "Redirect"

Points(s, page, i, most_recent) ==
    LET v == page.visits[i]
        bonus == get_transition_bonus(s, v.type, TRUE, UsesRedirectBonus(v, i, most_recent))
                 + IF has_bookmark(page)
                   THEN get_transition_bonus(s, "Bookmark", TRUE, FALSE) ELSE 0
    IN  get_frecency_aged_weight(s, v.age) * bonus

\* The number of sampled visits and their points, in hundredths.
score_recent_visits(s, page, most_recent) ==
    LET n == IF Len(page.visits) < s.num_visits THEN Len(page.visits) ELSE s.num_visits
    IN  [num |-> n,
         score |-> FoldSeq(LAMBDA x, y : x + y, 0,
                           [i \in 1..n |-> Points(s, page, i, most_recent)])]


get_frecency_for_sample(page, num, score) ==
    IF score = 0 THEN -1
    ELSE Ceil(visit_count(page.visits) * Ceil(score, 100), num)

compute_unvisited_bookmark_frecency(s, page) ==
    LET bonus == get_transition_bonus(s, "Bookmark", FALSE, FALSE)
                 + IF page.typed > 0
                   THEN get_transition_bonus(s, "Typed", FALSE, FALSE) ELSE 0
    IN  Ceil(s.weight[1] * bonus, 100)

calculate_frecency(s, page, most_recent) ==
    LET sample == IF visit_count(page.visits) > 0
                  THEN score_recent_visits(s, page, most_recent)
                  ELSE [num |-> 0, score |-> 0]
    IN  IF sample.num > 0 THEN get_frecency_for_sample(page, sample.num, sample.score)
        ELSE IF ~has_bookmark(page) \/ page.is_query THEN 0
        ELSE compute_unvisited_bookmark_frecency(s, page)

\* A page that was visited never scores 0, which would hide it from the
\* suggestions (the reason the code gives for ceil() and for -1); a bookmark
\* that is not a query scores above 0 without visits; and a further visit
\* that counts never lowers the score while all the visits are sampled.
ScoreKeepsPages(s, page) ==
    LET f == calculate_frecency(s, page, "Unknown")
        more(t) == [page EXCEPT !.visits =
                      <<[type |-> t, age |-> 0, target |-> "None"]>> \o @]
    IN  /\ visit_count(page.visits) > 0 => f # 0
        /\ page.visits = <<>> /\ has_bookmark(page) /\ ~page.is_query => f > 0
        /\ visit_count(page.visits) > 0 /\ Len(page.visits) < s.num_visits =>
             \A t \in Counted : calculate_frecency(s, more(t), "Normal") >= f
=============================================================================
