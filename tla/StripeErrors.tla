---------------------------- MODULE StripeErrors ----------------------------
(***************************************************************************)
(* What a failed Stripe call means: a code, and whether the call may be    *)
(* made again.  Stripe's API names a failure in rawType, its SDK in the    *)
(* error's class; an error that came from the API has the class            *)
(* StripeAPIError whatever the failure was.                                *)
(***************************************************************************)
EXTENDS TLC

Verdict(code, retryable) == [code |-> code, retryable |-> retryable]

Declined == Verdict("card_declined", FALSE)
Limited == Verdict("rate_limited", TRUE)
Down == Verdict("stripe_unavailable", TRUE)
KeyRejected == Verdict("stripe_auth_failed", FALSE)
KeyReused == Verdict("idempotency_conflict", FALSE)
Invalid == Verdict("invalid_request", FALSE)

\* The failures the API reports, by rawType.
ByWire ==
  "card_error" :> Declined @@ "rate_limit_error" :> Limited @@ "api_error" :> Down
    @@ "authentication_error" :> KeyRejected @@ "idempotency_error" :> KeyReused
    @@ "invalid_request_error" :> Invalid

\* The failures the SDK raises, by class.
ByClass ==
  "StripeCardError" :> Declined @@ "StripeRateLimitError" :> Limited @@ "StripeAPIError" :> Down
    @@ "StripeAuthenticationError" :> KeyRejected @@ "StripeIdempotencyError" :> KeyReused
    @@ "StripeInvalidRequestError" :> Invalid
    @@ "StripeConnectionError" :> Verdict("stripe_unreachable", TRUE)

\* mapStripeError: the wire name first, the class only where there is none.
MapStripeError(wire, class) ==
  IF wire \in DOMAIN ByWire THEN ByWire[wire]
  ELSE IF class \in DOMAIN ByClass THEN ByClass[class]
  ELSE Verdict("stripe_error", FALSE)

Wires == DOMAIN ByWire \cup {"none"}
Classes == DOMAIN ByClass \cup {"other"}

\* What the wire says is final or passing stays so under every class the SDK wraps it in, and
\* what is tried again is only what Stripe did not decide: a declined card, a rejected key, a
\* request it found invalid or a key sent with other parameters is never retried.
RetriesOnlyUndecided ==
  \A wire \in Wires, class \in Classes :
    LET v == MapStripeError(wire, class)
    IN /\ wire # "none" => v = ByWire[wire]
       /\ v.retryable => v.code \in {"rate_limited", "stripe_unavailable", "stripe_unreachable"}
=============================================================================
