---------------------------- MODULE ServiceCall ----------------------------
(***************************************************************************)
(* One request to the user or the policy service: what the service did and *)
(* what executeServiceRequest makes of the reply.  The caller learns less  *)
(* than happened: an error does not mean that the request was not carried  *)
(* out, and a good answer may come without its data.                       *)
(***************************************************************************)

CONSTANT Faults     \* TRUE: any call may fail or go unanswered

ASSUME CallAssumption == Faults \in BOOLEAN

\* No reply or an unreadable one, a status outside 2xx, an empty body, a body
\* that is no JSON, "success": false, "success": true with data.
Replies == {"none", "non2xx", "empty", "garbled", "refused", "data"}

\* What may come back from a service that did, or did not do, what was asked.
RepliesTo(applied) ==
    IF applied THEN Replies \ {"refused"} ELSE Replies \ {"empty", "data"}

\* executeServiceRequest returns an error,
IsError(reply) == reply \in {"none", "non2xx", "garbled", "refused"}

\* or the data, which are the zero value of their type for an empty body.
DataOf(reply, data, zero) == IF reply = "empty" THEN zero ELSE data
=============================================================================
