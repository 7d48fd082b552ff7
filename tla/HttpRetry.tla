------------------------------ MODULE HttpRetry ------------------------------
(***************************************************************************)
(* The HTTP helpers of contrib/http.py: which responses are retried, and   *)
(* the delay that a Retry-After header asks for.                           *)
(*                                                                         *)
(* A trigger, the exception or the result that is to be retried, is a      *)
(* record of its attributes, None where it has none.  Its headers are a    *)
(* function from the spelling of a field's name to its value; a value is   *)
(* [form |-> "seconds", value |-> number], [form |-> "date", value |-> time *)
(* from now to that date], or [form |-> "garbage"].  A number may be NaN,  *)
(* which float("nan") is and which is neither above nor below any other;   *)
(* an infinity behaves like a number above (below) every bound.            *)
(***************************************************************************)
EXTENDS Integers, Sequences

CONSTANTS None, NaN

ASSUME NaNAssumption == NaN \notin Int /\ None \notin Int /\ None # NaN

-----------------------------------------------------------------------------
(* Python's comparisons and built-in functions on floats.  max(a, b) is a   *)
(* unless b is above it, min(a, b) is a unless b is below it.               *)

Below(a, b) == a # NaN /\ b # NaN /\ a < b

PyMax(a, b) == IF Below(a, b) THEN b ELSE a

PyMin(a, b) == IF Below(b, a) THEN b ELSE a

-----------------------------------------------------------------------------
(* Faulty variants, used only by mutation runs. *)

ClampLowFirst(delay, max_wait) == PyMin(PyMax(delay, 0), max_wait)

-----------------------------------------------------------------------------
\* retry_on_status(*codes): the status is status_code if there is one, else status.
\* A status that is not an integer is no code.
RetryOnStatus(codes, obj) ==
  (IF obj.status_code # None THEN obj.status_code ELSE obj.status) \in codes

Spellings == <<"Retry-After", "retry-after", "RETRY-AFTER">>

\* Headers of the trigger itself come first; only when it has none are those of its
\* response looked at.
HeadersOf(trigger) ==
  IF trigger.headers # None THEN trigger.headers ELSE trigger.response

\* _get_retry_after_header
RetryAfterHeader(trigger) ==
  LET headers == HeadersOf(trigger)
      spelt == {i \in DOMAIN Spellings : headers # None /\ Spellings[i] \in DOMAIN headers}
      first == CHOOSE i \in spelt : \A j \in spelt : i <= j
  IN IF spelt = {} THEN None ELSE headers[Spellings[first]]

\* _parse_retry_after
ParsedRetryAfter(raw) == IF raw.form = "garbage" THEN None ELSE raw.value

\* The clamp at the end of _delay_func.
ClampedTo(delay, max_wait) == PyMax(0, PyMin(delay, max_wait))

\* retry_after_delay(max_wait): None leaves the delay to the backoff.
RetryAfterDelay(max_wait, trigger) ==
  LET raw == RetryAfterHeader(trigger)
      delay == IF raw = None THEN None ELSE ParsedRetryAfter(raw)
  IN IF delay = None THEN None ELSE ClampedTo(delay, max_wait)

=============================================================================
