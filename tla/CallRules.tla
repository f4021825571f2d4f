------------------------------ MODULE CallRules ------------------------------
(***************************************************************************)
(* The rules of package analyze that look at one call, and what of a call  *)
(* they look at.  A call is a record:                                      *)
(*   marks      cache_control markers in the request                       *)
(*   prefix     the marked prefix against the model's minimum: "below",    *)
(*              "enough", or "unknown" without a body or for a model the   *)
(*              table does not list                                        *)
(*   thinking   what the request asked for: "off", "on", or "budget" when  *)
(*              it sent budget_tokens                                      *)
(*   thought    thinking tokens were billed                                *)
(*   blocks     the answer has a thinking block;  blames: it names thinking *)
(*   failed     the answer is an error object                              *)
(*   encoded    the body is kept under a Content-Encoding                  *)
(*   messages   the call is to the Messages API                            *)
(*   status, stop, stream, whole, auth, mode, priced   as on the row       *)
(*   input, w5, w1, read                               the prompt's tokens *)
(***************************************************************************)
EXTENDS Integers

MaxBreakpoints == 4

Writes(c) == c.w5 + c.w1

Total(c) == c.input + c.w5 + c.w1 + c.read

\* The rules look for text in the body as it was captured, and the captured
\* bytes are the ones that were on the wire.
Legible(c) == ~ c.encoded

BreakpointsExceeded(c) == c.marks > MaxBreakpoints

BelowMinimum(c) ==
    c.marks > 0 /\ Writes(c) = 0 /\ c.read = 0 /\ c.prefix = "below"

BudgetRejected(c) ==
    c.thinking = "budget" /\ c.status = 400 /\ Legible(c) /\ c.blames

DisplayOmitted(c) ==
    c.thinking # "off" /\ c.thought /\ ~ (Legible(c) /\ c.blocks)

StreamIncomplete(c) == c.stream /\ ~ c.whole

ErrorBody(c) == c.status = 200 /\ Legible(c) /\ c.failed

AuthKindAnomaly(c) ==
    \/ c.auth = "admin" /\ c.messages
    \/ c.auth = "api_key" /\ c.mode = "subscription"

EquivalentCost(c) == c.mode = "subscription" /\ c.priced

\* perEventRules, by the kind of warning each raises.
PerEventRules(c) ==
    [cache_breakpoints_exceeded |-> BreakpointsExceeded(c),
     cache_prefix_below_minimum |-> BelowMinimum(c),
     thinking_budget_rejected   |-> BudgetRejected(c),
     thinking_display_omitted   |-> DisplayOmitted(c),
     max_tokens_truncation      |-> c.stop = "max_tokens",
     refusal                    |-> c.stop = "refusal",
     stream_incomplete          |-> StreamIncomplete(c),
     rate_limited               |-> c.status = 429,
     overloaded                 |-> c.status = 529,
     upstream_error             |-> ErrorBody(c),
     auth_kind_anomaly          |-> AuthKindAnomaly(c),
     api_equivalent_cost        |-> EquivalentCost(c)]

Analyze(c) == {k \in DOMAIN PerEventRules(c) : PerEventRules(c)[k]}
=============================================================================
