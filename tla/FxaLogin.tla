------------------------------ MODULE FxaLogin ------------------------------
(* The login state machine of an account that signed in with its password:   *)
(* fxa-client/src/login_sm.rs and browser_id.rs.                             *)
(*                                                                           *)
(* advance() takes the state out of the account, leaving Unknown behind,     *)
(* and lets advance_one() run on it until the state keeps its variant; the   *)
(* result is stored back.  `login` is the account's field and `cur` the      *)
(* state the running advance() holds.  Tokens, keys and certificates are     *)
(* left out of the states: what the machine tells apart is the variant and   *)
(* whether the key pair and the certificate have expired (`expired`).        *)
EXTENDS Naturals, FiniteSets

CONSTANTS
    MaxAges,        \* how often a key pair or a certificate expires
    MaxFaults       \* how many requests fail, processes die and tokens are revoked

VARIABLES
    login,      \* StateV2.login_state, the variant
    cur,        \* the state inside a running advance(), or Resting
    expired,    \* which of "pair" and "cert" are past their date
    ages,       \* expiries so far
    faults      \* faults so far

loginVars == <<login, cur, expired, ages, faults>>

Resting == "Resting"

\* enum LoginState.
LoginState == {"Married", "CohabitingBeforeKeyPair", "CohabitingAfterKeyPair",
               "EngagedBeforeVerified", "EngagedAfterVerified", "Separated", "Unknown"}

ReadyForKeys == {"EngagedBeforeVerified", "EngagedAfterVerified"}
Cohabiting == {"CohabitingBeforeKeyPair", "CohabitingAfterKeyPair"}

LoginTypeOK ==
    /\ login \in LoginState
    /\ cur \in LoginState \cup {Resting}
    /\ expired \subseteq {"pair", "cert"}
    /\ ages \in 0..MaxAges
    /\ faults \in 0..MaxFaults

\* from_credentials: the login answer says whether the address is verified;
\* with_config leaves the machine Unknown.
LoginInit ==
    /\ login \in ReadyForKeys \cup {"Unknown"}
    /\ cur = Resting
    /\ expired = {}
    /\ ages = 0
    /\ faults = 0

Fault ==
    /\ faults < MaxFaults
    /\ faults' = faults + 1

\* The round that returns the same variant ends advance().
Stay ==
    /\ login' = cur
    /\ cur' = Resting
    /\ UNCHANGED expired

Become(state) ==
    /\ cur' = state
    /\ UNCHANGED login

\* An error other than those advance_one() handles leaves through `?`; the
\* account keeps the Unknown that advance() put in its place.
Bail ==
    /\ cur' = Resting
    /\ UNCHANGED <<login, expired>>

\* browser_id.rs advance(): mem::replace(&mut login_state, Unknown).
\* Advancing from Unknown changes nothing and is left out.
Advance ==
    /\ cur = Resting
    /\ login # "Unknown"
    /\ cur' = login
    /\ login' = "Unknown"
    /\ UNCHANGED <<expired, ages, faults>>

\* advance_one() on Separated, and on a Married one whose key pair and
\* certificate are both good.
StepRest ==
    /\ \/ cur = "Separated"
       \/ cur = "Married" /\ expired = {}
    /\ Stay
    /\ UNCHANGED <<ages, faults>>

\* Mutant: an expired key pair is signed again.
StepResign ==
    /\ cur = "Married"
    /\ expired # {}
    /\ Become("CohabitingAfterKeyPair")
    /\ UNCHANGED <<expired, ages, faults>>

\* advance_one() on Married: an expired key pair costs the certificate too.
StepMarried ==
    /\ cur = "Married"
    /\ expired # {}
    /\ Become(IF "pair" \in expired THEN "CohabitingBeforeKeyPair" ELSE "CohabitingAfterKeyPair")
    /\ UNCHANGED <<expired, ages, faults>>

\* handle_ready_for_key_state(): the keys are there; or the address is still
\* unverified (errno 104) or the error is not the server's, and nothing
\* changes; or the server refuses, and the session is given up.  Keys that do
\* not unwrap keep the state.
StepReadyForKeys ==
    /\ cur \in ReadyForKeys
    /\ \/ Become("CohabitingBeforeKeyPair") /\ UNCHANGED <<expired, faults>>
       \/ Stay /\ (UNCHANGED faults \/ Fault)
       \/ Become("Separated") /\ Fault /\ UNCHANGED expired
       \/ Bail /\ Fault
    /\ UNCHANGED ages

\* advance_one() on CohabitingBeforeKeyPair: a new key pair, or Separated when
\* none can be made.
StepNewKeyPair ==
    /\ cur = "CohabitingBeforeKeyPair"
    /\ \/ Become("CohabitingAfterKeyPair") /\ expired' = expired \ {"pair"} /\ UNCHANGED faults
       \/ Become("Separated") /\ Fault /\ UNCHANGED expired
    /\ UNCHANGED ages

\* advance_one() on CohabitingAfterKeyPair: the server signs the key, refuses,
\* or is out of reach.
StepSign ==
    /\ cur = "CohabitingAfterKeyPair"
    /\ \/ Become("Married") /\ expired' = expired \ {"cert"} /\ UNCHANGED faults
       \/ Become("Separated") /\ Fault /\ UNCHANGED expired
       \/ Stay /\ Fault
    /\ UNCHANGED ages

AdvanceOne ==
    \/ StepRest
    \/ StepMarried
    \/ StepReadyForKeys
    \/ StepNewKeyPair
    \/ StepSign

\* A key pair (thirty days) or a certificate (one day) that the state holds
\* reaches its date.
Age ==
    /\ ages < MaxAges
    /\ ages' = ages + 1
    /\ \E what \in {"pair", "cert"} \ expired :
          /\ {login, cur} \cap {"Married", "CohabitingAfterKeyPair"} # {}
          /\ what = "cert" => "Married" \in {login, cur}
          /\ expired' = expired \cup {what}
    /\ UNCHANGED <<login, cur, faults>>
=============================================================================
