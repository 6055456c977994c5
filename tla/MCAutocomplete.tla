--------------------------- MODULE MCAutocomplete ---------------------------
(***************************************************************************)
(* Autocomplete on two hosts, and beside it the matching of strings and    *)
(* the scores on every small input: probe is chosen in the initial state   *)
(* and the tables stay empty, or probe is "none" and the tables are used.  *)
(***************************************************************************)
EXTENDS Autocomplete

VARIABLE probe

CONSTANTS Alphabet, MaxToken, MaxSource, SampledTypes, Targets, Ages, MaxSampled

MCUrls == {<<"a", "slash">>, <<"a", "slash", "b">>, <<"b", "slash">>}
MCQueries == {<<"a">>, <<"a", "slash">>}

None == [kind |-> "none"]

Pairs == {[kind |-> "match", token |-> t, src |-> s] :
            t \in UNION {[1..n -> Alphabet] : n \in 1..MaxToken},
            s \in UNION {[1..n -> Alphabet] : n \in 0..MaxSource}}

Visits == [type : SampledTypes, age : Ages, target : Targets]
Samples == {[kind |-> "score",
             page |-> [visits |-> v, typed |-> t, foreign_count |-> f, is_query |-> q]] :
              v \in UNION {[1..n -> Visits] : n \in 0..MaxSampled},
              t \in 0..1, f \in 0..1, q \in BOOLEAN}

MCInit == Init /\ probe \in Pairs \cup Samples \cup {None}
MCNext == probe = None /\ Next /\ UNCHANGED probe
MCSpec == MCInit /\ [][MCNext]_<<vars, probe>>

\* A search finds no page too few, none too many: every string match is found
\* by the scan over the bytes (StringMatch), and every result can be opened
\* (Autocomplete).
SearchExact ==
    /\ probe.kind = "match" => ScanFindsMatches(probe.token, probe.src)
    /\ SearchSound

=============================================================================
