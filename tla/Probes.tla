------------------------------- MODULE Probes -------------------------------
(***************************************************************************)
(* How an answer of TeslaMate's web UI (src/src/http_check.py) and the     *)
(* lines of its log (src/src/log_classifier.py) become what evaluate()     *)
(* looks at.                                                               *)
(***************************************************************************)
EXTENDS States, Integers, FiniteSets, Sequences

CONSTANT MaxBodyChunks      \* MAX_BODY_BYTES, in chunks

ASSUME BodyIsRead == MaxBodyChunks \in Nat \ {0}

\* A page is a sequence of chunks, told apart by what _find_signin_marker()
\* finds in them; of a Location it matters whether the sign-in pattern matches.
Chunk == {"plain", "marker"}

\* What becomes of a request: a response, or one of the two groups of
\* exceptions, be it before the headers or in the middle of the body.
Outcome == [raised : {"nothing", "connection_error", "other_error"},
            status : 100..599, location : {"sign_in", "elsewhere"}, body : Seq(Chunk)]

\* _read_body() and _find_signin_marker()
SigninMarker(body) ==
    \E i \in 1..Len(body) : i <= MaxBodyChunks /\ body[i] = "marker"

\* _classify()
Classify(response) ==
    CASE response.status \in 300..399 ->
             IF response.location = "sign_in" THEN "logged_out" ELSE "unknown"
      [] response.status = 200 ->
             IF SigninMarker(response.body) THEN "logged_out" ELSE "authenticated"
      [] response.status >= 500 -> "application_error"
      [] OTHER -> "unknown"

\* check()
HttpCheck(outcome) ==
    CASE outcome.raised = "connection_error" -> "unreachable"
      [] outcome.raised = "other_error"      -> "unknown"
      [] OTHER                               -> Classify(outcome)

-----------------------------------------------------------------------------
(* The log.                                                                *)

\* The categories of patterns.yaml that signals() reads, each with its signal.
Signal == [auth_lost        |-> "auth_lost",
           refresh_failure  |-> "auth_refresh_failing",
           database_failure |-> "database_failure",
           token_decryption |-> "token_decryption_failure",
           refresh_success  |-> "refresh_success"]

\* The thresholds of patterns.yaml, over DEFAULT_THRESHOLDS.
Threshold == [auth_lost        |-> 1,
              refresh_failure  |-> 3,
              database_failure |-> 3,
              token_decryption |-> 1,
              refresh_success  |-> 1]

\* classify() and signals(), of the number of lines in each category.
Signals(counts) ==
    {Signal[category] : category \in
        {c \in DOMAIN Signal : counts[c] >= Threshold[c]}}
=============================================================================
