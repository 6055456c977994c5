--------------------------- MODULE TokenProvider ---------------------------
(* TokenProviderImpl (components/sync15/src/token.rs): the state a storage   *)
(* client keeps about its token.  Time is what is left until valid_until or  *)
(* the end of the backoff.  A node stands for an api_endpoint; 0 is none.    *)
EXTENDS Integers

CONSTANT Duration       \* of a token

NoNode == 0

State(kind, node, left) == [kind |-> kind, node |-> node, left |-> left]

\* TokenProviderImpl::new()
NoToken == State("NoToken", NoNode, 0)

\* What fetch_context() comes back with: a token for a node, an order to wait,
\* another error.
Granted(node) == [kind |-> "token", node |-> node]
Wait == [kind |-> "backoff", node |-> NoNode]
Error == [kind |-> "error", node |-> NoNode]

is_valid(state) == state.left > 0

\* until.duration_since(now) is an error only once now is past it.
BackoffOver(state) == state.left < 0

\* Mutant: a failure forgets the endpoint.
FetchForgets(answer, previous) ==
    CASE answer.kind = "token" /\ previous \in {NoNode, answer.node} ->
            State("Token", answer.node, Duration)
      [] answer.kind = "token" -> State("NodeReassigned", previous, 0)
      [] answer.kind = "backoff" -> State("Backoff", NoNode, 1)
      [] OTHER -> State("Failed", NoNode, 0)

\* TokenProviderImpl::fetch_token(): a token for another endpoint than before
\* is of no use to this client; a failure keeps the endpoint in mind.
fetch_token(answer, previous) ==
    CASE answer.kind = "token" /\ previous \in {NoNode, answer.node} ->
            State("Token", answer.node, Duration)
      [] answer.kind = "token" -> State("NodeReassigned", previous, 0)
      [] answer.kind = "backoff" -> State("Backoff", previous, 1)
      [] OTHER -> State("Failed", previous, 0)

\* TokenProviderImpl::advance_state(): whether a token is fetched.
Fetches(state) ==
    \/ state.kind \in {"NoToken", "Failed"}
    \/ state.kind = "Token" /\ ~is_valid(state)
    \/ state.kind = "Backoff" /\ BackoffOver(state)

advance_state(state, answer) ==
    IF Fetches(state) THEN fetch_token(answer, state.node) ELSE state

\* A unit of time passes.
Aged(state) ==
    CASE state.kind = "Token" /\ state.left > 0 -> [state EXCEPT !.left = @ - 1]
      [] state.kind = "Backoff" /\ state.left >= 0 -> [state EXCEPT !.left = @ - 1]
      [] OTHER -> state
=============================================================================
