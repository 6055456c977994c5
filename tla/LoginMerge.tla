----------------------------- MODULE LoginMerge -----------------------------
(***************************************************************************)
(* The field-by-field three way merge of the logins component              *)
(* (logins/src/login.rs: LoginDelta, Login::delta, LoginDelta::merge,      *)
(* Login::apply_delta, and UpdatePlan::plan_three_way_merge, which strings *)
(* them together).  A login is changed on two devices; `shared` is what    *)
(* both started from (the mirror row), `local` and `upstream` are the two  *)
(* results.                                                                *)
(*                                                                         *)
(* The code treats every field of a login in one of four ways, and this    *)
(* module has one pair of operators for each:                              *)
(*   - plain text (hostname, username, password, the field names);         *)
(*   - optional text (http_realm, form_submit_url), where the delta uses   *)
(*     the empty string to say "becomes None";                             *)
(*   - timestamps, where zero means "unknown" and is never propagated;     *)
(*   - times_used, a counter whose deltas add up.                          *)
(***************************************************************************)
EXTENDS Integers

CONSTANTS
    Unset,      \* a delta that does not touch the field (Option::None)
    NoText,     \* an optional text field that is absent
    EmptyText   \* the empty string

ASSUME UnsetAssumption == Unset \notin Int /\ Unset # NoText /\ Unset # EmptyText
ASSUME EmptyAssumption == NoText # EmptyText

-----------------------------------------------------------------------------
(* Login::delta: what `new` changes with respect to `old`.                 *)

TextDelta(new, old) == IF new # old THEN new ELSE Unset

OptTextDelta(new, old) ==
    IF new # old THEN (IF new = NoText THEN EmptyText ELSE new) ELSE Unset

TimeDelta(new, old) == IF new > 0 /\ new # old THEN new ELSE Unset

UsedDelta(new, old) == IF new > 0 /\ new # old THEN new - old ELSE 0

(* LoginDelta::merge of one non-commutative field (macro merge_field!).    *)
MergeField(a, b, bIsNewer) ==
    IF b = Unset THEN a
    ELSE IF a = Unset \/ bIsNewer THEN b ELSE a

(* Login::apply_delta of one field.                                        *)
ApplyField(old, d) == IF d = Unset THEN old ELSE d

ApplyOptText(old, d) ==
    IF d = Unset THEN old ELSE IF d = EmptyText THEN NoText ELSE d

-----------------------------------------------------------------------------
(* plan_three_way_merge, one field of each kind.  `newer` is the code's    *)
(* remote_age < local_age.                                                 *)

MergeText(local, shared, upstream, newer) ==
    ApplyField(shared, MergeField(TextDelta(local, shared),
                                  TextDelta(upstream, shared), newer))

MergeOptText(local, shared, upstream, newer) ==
    ApplyOptText(shared, MergeField(OptTextDelta(local, shared),
                                    OptTextDelta(upstream, shared), newer))

MergeTime(local, shared, upstream, newer) ==
    ApplyField(shared, MergeField(TimeDelta(local, shared),
                                  TimeDelta(upstream, shared), newer))

MergeUsed(local, shared, upstream) ==
    shared + UsedDelta(local, shared) + UsedDelta(upstream, shared)

(* perform_mirror_updates keeps the old value of a numeric column when the *)
(* incoming record has a zero there: coalesce(nullif(:value, 0), column).  *)
MirrorNumber(upstream, old) == IF upstream = 0 THEN old ELSE upstream
=============================================================================
