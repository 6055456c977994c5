----------------------------- MODULE StringMatch -----------------------------
(***************************************************************************)
(* Matching a search token against a URL or a title (places/src/           *)
(* match_impl.rs).  A string is a sequence of characters.  The scan works  *)
(* on the UTF-8 bytes, so a character has its bytes, its first lower case  *)
(* codepoint and its case folding.  The alphabet holds one character of    *)
(* each kind the scan treats in its own way.                               *)
(***************************************************************************)
EXTENDS Integers, Sequences, SequencesExt, FiniteSetsExt

\* Kelvin is U+212A, which lower-cases to an ASCII letter; sharp is U+00DF,
\* whose folding is two letters; at and tick differ in the bit 0x20 only.
Utf8 == [k   |-> <<107>>, K |-> <<75>>, Kelvin |-> <<226, 132, 170>>,
         s   |-> <<115>>, sharp |-> <<195, 159>>, a |-> <<97>>, b |-> <<98>>,
         w   |-> <<119>>, at |-> <<64>>, tick |-> <<96>>, slash |-> <<47>>,
         colon |-> <<58>>, dot |-> <<46>>]

char_to_lower_single(c) == IF c \in {"K", "Kelvin"} THEN "k" ELSE c

default_case_fold(c) == IF c \in {"K", "Kelvin"} THEN <<"k">>
                        ELSE IF c = "sharp" THEN <<"s", "s">> ELSE <<c>>

Bytes(str) == FlattenSeq([i \in 1..Len(str) |-> Utf8[str[i]]])
Folded(str) == FlattenSeq([i \in 1..Len(str) |-> default_case_fold(str[i])])
Ascii(c) == Len(Utf8[c]) = 1

(***************************************************************************)
(* Bytes.                                                                  *)
(***************************************************************************)
dubious_to_ascii_lower(c) == IF (c \div 32) % 2 = 1 THEN c ELSE c + 32

\* The subtraction wraps around at 256.
is_ascii_lower_alpha(c) == (c - 97) % 256 <= 25

\* The first byte of the characters, not ASCII, that lower-case to target.
SpecialByte(target) == CASE target = 105 -> 196 [] target = 107 -> 226 [] OTHER -> 255

\* Mutation: the Kelvin sign is forgotten.
CandidateAscii(x, c) ==
    IF Ascii(c) THEN dubious_to_ascii_lower(x) = dubious_to_ascii_lower(Utf8[c][1])
    ELSE x >= 128

\* Whether the scan for character c stops at byte x.
Candidate(x, c) ==
    IF Ascii(c)
    THEN LET target == dubious_to_ascii_lower(Utf8[c][1])
         IN  dubious_to_ascii_lower(x) = target \/ x = SpecialByte(target)
    ELSE x >= 128

(***************************************************************************)
(* Strings.  An offset counts bytes from 0.                                *)
(***************************************************************************)
Offset(str, i) == Len(Bytes(SubSeq(str, 1, i - 1)))

\* The offset, at or after from, of the next byte the scan stops at, or the
\* length of the string.
next_search_candidate(str, from, c) ==
    LET bytes == Bytes(str)
    IN  Min({i \in from..(Len(bytes) - 1) : Candidate(bytes[i + 1], c)} \cup {Len(bytes)})

is_on_boundary(str, off) ==
    LET bytes == Bytes(str)
    IN  off = 0 \/ (is_ascii_lower_alpha(bytes[off + 1])
                     => ~is_ascii_lower_alpha(dubious_to_ascii_lower(bytes[off])))

string_match(token, src) ==
    /\ Len(Bytes(src)) >= Len(Bytes(token))
    /\ IsPrefix(Folded(token), Folded(src))

\* The loop of find_in_string from an offset on.  A candidate is the first
\* byte of a character, and the scan goes on after that character.
find_in_string(token, src, only_boundary) ==
    LET first == char_to_lower_single(token[1])
        len   == Len(Bytes(src))
        From[off \in 0..len] ==
          LET cur == next_search_candidate(src, off, first)
              at  == CHOOSE i \in 1..Len(src) : Offset(src, i) = cur
          IN  /\ cur < len
              /\ \/ /\ char_to_lower_single(src[at]) = first
                    /\ ~only_boundary \/ is_on_boundary(src, cur)
                    /\ string_match(token, SubSeq(src, at, Len(src)))
                 \/ From[cur + Len(Utf8[src[at]])]
    IN  len >= Len(Bytes(token)) /\ From[0]

(***************************************************************************)
(* MatchBehavior and SearchBehavior.                                       *)
(***************************************************************************)
search_fn(behavior, token, src) ==
    CASE behavior \in {"Anywhere", "AnywhereUnmodified"} -> find_in_string(token, src, FALSE)
      [] behavior = "Beginning" -> string_match(token, src)
      [] behavior = "BeginningCaseSensitive" -> IsPrefix(token, src)
      [] OTHER -> find_in_string(token, src, TRUE)

SearchBehaviorDefault == {"HISTORY", "BOOKMARK", "OPENPAGE", "SEARCHES"}

\* The filter on what the page is; page has visit_count, typed, bookmarked,
\* tags (a string) and open_page_count.
Searched(page, behavior) ==
    LET has == [HISTORY  |-> page.visit_count > 0, TYPED |-> page.typed,
                BOOKMARK |-> page.bookmarked,      TAG   |-> page.tags # <<>>,
                OPENPAGE |-> page.open_page_count > 0]
        asked == DOMAIN has \cap behavior
    IN  IF "RESTRICT" \in behavior THEN \A b \in asked : has[b]
        ELSE \E b \in asked : has[b]

\* AutocompleteMatch::invoke, for a URL without its scheme (fixup_url_str) and
\* strings within the 255 characters that are searched.  The search string is
\* a sequence of tokens, and every one of them has to match; a javascript: URL
\* is only looked at when asked for.
invoke(tokens, page, behavior, search) ==
    /\ ~ /\ behavior = "AnywhereUnmodified" /\ page.javascript
         /\ "JAVASCRIPT" \notin search
    /\ Searched(page, search)
    /\ \A i \in 1..Len(tokens) :
         LET found(s) == search_fn(behavior, tokens[i], s)
             name == found(page.title) \/ found(page.tags)
         IN  CASE {"TITLE", "URL"} \subseteq search -> name /\ found(page.url)
               [] "TITLE" \in search -> name
               [] "URL" \in search -> found(page.url)
               [] OTHER -> found(page.url) \/ name

\* What find_in_string is to compute: some character of the string begins the
\* token, whichever way the scan skips over the bytes.
FoundAt(token, src, i) ==
    /\ char_to_lower_single(src[i]) = char_to_lower_single(token[1])
    /\ string_match(token, SubSeq(src, i, Len(src)))

\* The byte scan of next_search_candidate never skips over a match, at a
\* boundary or anywhere, also when the match begins with a character that is
\* not ASCII; what it returns is a match.
ScanFindsMatches(token, src) ==
    \A only_boundary \in BOOLEAN :
      find_in_string(token, src, only_boundary) <=>
        \E i \in 1..Len(src) :
          /\ FoundAt(token, src, i)
          /\ only_boundary => is_on_boundary(src, Offset(src, i))
=============================================================================
