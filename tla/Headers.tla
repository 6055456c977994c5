------------------------------ MODULE Headers ------------------------------
(***************************************************************************)
(* The header list of requests and responses (viaduct/src/headers.rs and   *)
(* headers/name.rs).  A name as it is written is a record of the name in   *)
(* lower case (a number, for the order of names), whether it is written in *)
(* lower case, and whether all of its characters are allowed.  A value is  *)
(* a text, what it is padded with (nothing, a blank or a newline) and      *)
(* whether a character inside it is not allowed.                           *)
(***************************************************************************)
EXTENDS Naturals, Sequences, SequencesExt

\* Results, and values that may be missing.
Ok(x) == [ok |-> TRUE, val |-> x]
Err == [ok |-> FALSE]

\* partialeq_boilerplate: names are compared without regard to case.
SameName(written, name) == written.name = name

\* HeaderName::new, with the table VALID_HEADER_LUT: a name that is accepted
\* is kept in lower case.
validate_header(written) == IF written.valid THEN Ok(written.name) ELSE Err

\* HeaderName::from, for a name this code specifies itself.
FromPanics(written) == ~validate_header(written).ok

trim_string(value) == [value EXCEPT !.pad = "none"]

is_valid_header_value(value) == ~value.illegal /\ value.pad # "newline"

\* Header::new trims the value before it looks at it.
HeaderNew(written, value) ==
    LET v == trim_string(value)
    IN  IF is_valid_header_value(v) THEN Ok([name |-> written.name, value |-> v]) ELSE Err

\* Header::set_value looks at the value before it trims it.
set_value(header, value) ==
    IF is_valid_header_value(value) THEN Ok([header EXCEPT !.value = trim_string(value)])
    ELSE Err

Find(headers, written) == {i \in DOMAIN headers : SameName(written, headers[i].name)}
First(found) == CHOOSE i \in found : \A j \in found : i <= j

\* Mutation: names are compared as they are written.
InsertCaseSensitive(headers, written, value) ==
    LET found == IF written.lower THEN Find(headers, written) ELSE {}
        new == IF found # {} THEN set_value(headers[First(found)], value)
               ELSE HeaderNew(written, value)
    IN  IF ~new.ok THEN Err
        ELSE IF found # {} THEN Ok([headers EXCEPT ![First(found)] = new.val])
        ELSE Ok(Append(headers, new.val))

\* The list after Headers::insert; an error leaves it as it was.
insert(headers, written, value) ==
    LET found == Find(headers, written)
        new == IF found # {} THEN set_value(headers[First(found)], value)
               ELSE HeaderNew(written, value)
    IN  IF ~new.ok THEN Err
        ELSE IF found # {} THEN Ok([headers EXCEPT ![First(found)] = new.val])
        ELSE Ok(Append(headers, new.val))

insert_if_missing(headers, written, value) ==
    IF Find(headers, written) # {} THEN Ok(headers)
    ELSE LET new == HeaderNew(written, value)
         IN  IF new.ok THEN Ok(Append(headers, new.val)) ELSE Err

insert_header(headers, new) ==
    LET found == {i \in DOMAIN headers : headers[i].name = new.name}
    IN  IF found # {} THEN [headers EXCEPT ![First(found)].value = new.value]
        ELSE Append(headers, new)

extend(headers, list) == FoldLeft(insert_header, headers, list)

get_header(headers, written) ==
    LET found == Find(headers, written)
    IN  IF found = {} THEN Err ELSE Ok(headers[First(found)])

get(headers, written) ==
    LET h == get_header(headers, written) IN IF h.ok THEN Ok(h.val.value) ELSE Err

\* FromIterator: a stable sort by name, reversed, of which the first of every
\* name stays.
from_iter(list) ==
    LET before(i, j) == \/ list[i].name < list[j].name
                        \/ list[i].name = list[j].name /\ i < j
        rev == Reverse(SetToSortSeq(DOMAIN list, before))
        kept == SelectSeq([k \in DOMAIN rev |-> k],
                          LAMBDA k : k = 1 \/ list[rev[k]].name # list[rev[k - 1]].name)
    IN  [k \in DOMAIN kept |-> list[rev[kept[k]]]]
=============================================================================
