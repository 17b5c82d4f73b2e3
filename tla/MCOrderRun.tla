------------------------------ MODULE MCOrderRun ------------------------------
(***************************************************************************)
(* Instances of OrderRun for TLC: two runs of one task, with any of eight  *)
(* flow scripts.                                                           *)
(***************************************************************************)
EXTENDS OrderRun, TLC

MCVariants == {1, 2}
MCPrices == {1, 2}

\* The first variant is a fallback, the second one is required.
MCWanted == <<{2}, {1}>>

MCOrders == {1, 2}

Step(id, action, method, asks, retry, captureAs, when) ==
  [id |-> id, action |-> action, method |-> method, asks |-> asks,
   retry |-> retry, captureAs |-> captureAs, when |-> when]

Validate(asks) ==
  Step("validate_reservation", "navigate_with_state", "GET", asks, 0, "none", TRUE)

\* The script of the repository's tests, with retries.
Plain ==
  [version |-> 2,
   acquire |-> <<Step("reserve", "navigate", "GET", TRUE, 1, "none", TRUE),
                 Step("capture_token", "capture", "GET", FALSE, 0, "reservation_token", TRUE)>>,
   settle |-> <<Validate(FALSE),
                Step("pay", "tap", "POST", TRUE, 1, "none", TRUE),
                Step("verify", "assert", "GET", FALSE, 0, "none", TRUE),
                Step("order", "capture", "GET", FALSE, 1, "order_confirmation", TRUE)>>]

\* Reserving by a navigation that posts, steps that are skipped or local, and
\* a payment whose answer carries the confirmation.
Busy ==
  [version |-> 2,
   acquire |-> <<Step("pause", "wait", "GET", FALSE, 0, "none", TRUE),
                 Step("reserve", "navigate", "POST", TRUE, 0, "reservation_token", TRUE)>>,
   settle |-> <<Validate(TRUE),
                Step("give_up", "abort", "GET", FALSE, 0, "none", FALSE),
                Step("pay", "tap", "POST", TRUE, 1, "order_confirmation", TRUE)>>]

\* Steps the engine has no means for.
Odd ==
  [version |-> 2,
   acquire |-> <<Step("token", "navigate_with_state", "GET", FALSE, 0, "none", FALSE),
                 Step("choose", "condition", "GET", FALSE, 0, "none", FALSE),
                 Step("reserve", "navigate", "GET", TRUE, 0, "none", TRUE),
                 Step("capture_token", "condition", "GET", FALSE, 0, "reservation_token", TRUE)>>,
   settle |-> <<Validate(FALSE),
                Step("pick", "tap", "POST", FALSE, 0, "none", TRUE)>>]

\* A token that is never captured.
Tokenless ==
  [version |-> 2,
   acquire |-> <<Step("stop", "abort", "GET", FALSE, 1, "none", FALSE),
                 Step("token", "capture", "GET", FALSE, 0, "reservation_token", FALSE)>>,
   settle |-> <<Validate(FALSE)>>]

Expired == [Tokenless EXCEPT
  !.acquire = <<Step("stop", "navigate_with_state", "GET", TRUE, 0, "none", TRUE), @[2]>>]

Aborted == [Tokenless EXCEPT
  !.acquire = <<Step("stop", "abort", "GET", FALSE, 1, "none", TRUE), @[2]>>]

Unfinished == [Tokenless EXCEPT !.settle = <<Step("pay", "tap", "POST", TRUE, 0, "none", TRUE)>>]

Newer == [Plain EXCEPT !.version = 3]

MCFlows == {Plain, Busy, Odd, Tokenless, Expired, Aborted, Unfinished, Newer}
=============================================================================
