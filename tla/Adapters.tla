------------------------------ MODULE Adapters ------------------------------
(***************************************************************************)
(* The provider adapters: internal/providers.  How a request is classified *)
(* before it may be forwarded, and how the usage object of a vendor's      *)
(* answer becomes tokens per category.                                     *)
(***************************************************************************)
EXTENDS Pricing, FiniteSetsExt

CONSTANT MaxRequestBody   \* the longest body that is looked into

(***************************************************************************)
(* Requests.  What a body holds that is charged beyond text tokens, and is *)
(* in no price book, is a set of features: media and files, tools that run *)
(* at the vendor, a modifier (service_tier, speed, inference_geo) with a   *)
(* value that is not known to be ordinary.                                 *)
(***************************************************************************)

Feature == {"media", "hosted tool", "modifier"}

(* The class of each kind of route the adapters tell apart.                *)
Billing == [models |-> "no_spend", count_tokens |-> "no_spend", text |-> "token",
            embeddings |-> "token", other |-> "unsupported"]

NoOutput(q) == q.route = "embeddings"

(* A longer body is forwarded from where it was left off, unread.          *)
Inspectable(q) == q.bytes <= MaxRequestBody

(* What ParseRequest finds: a body that is not read, or is not JSON, names *)
(* no model and shows no feature.                                          *)
ModelFound(q)         == Inspectable(q) /\ q.json
UnsupportedBilling(q) == Inspectable(q) /\ q.json /\ q.features # {}

Metered(q) == Billing[q.route] = "token" /\ ModelFound(q) /\ ~UnsupportedBilling(q)

(* ServeHTTP has a reason why the request cannot be metered.               *)
Unmetered(q) ==
  \/ Billing[q.route] = "unsupported"
  \/ Billing[q.route] = "token" /\ ~ModelFound(q)
  \/ UnsupportedBilling(q)

(* The body is changed to ask for usage on a stream.  Anthropic reports it *)
(* unasked.                                                                *)
EnableStreamUsage(q) == q.stream /\ ~q.wantsUsage

-----------------------------------------------------------------------------
(***************************************************************************)
(* Usage objects.  A field that is missing, or not positive, is 0.         *)
(***************************************************************************)

NoReport == [shape |-> "none"]

(* Some vendors report the reasoning beside the output, not within it: the *)
(* total tells.                                                            *)
OpenAIUsageFrom(raw) ==
  LET beside == raw.reasoning > 0 /\ raw.total - raw.prompt - raw.output = raw.reasoning
  IN  [NoUsage EXCEPT
         !["input"]   = IF raw.miss > 0 THEN raw.miss ELSE Max({0, raw.prompt - raw.cached - raw.write}),
         !["cached"]  = raw.cached,
         !["write5m"] = raw.write,
         !["output"]  = raw.output + (IF beside THEN raw.reasoning ELSE 0)]

(* Anthropic: cache writes whose lifetime is not told are short ones.      *)
usageFrom(raw) ==
  [NoUsage EXCEPT
     !["input"]   = raw.input,
     !["cached"]  = raw.cached,
     !["write5m"] = raw.write5m + Max({0, raw.creation - raw.write5m - raw.write1h}),
     !["write1h"] = raw.write1h,
     !["output"]  = raw.output]

(* UsageFromResponse, UsageFromStreamEvent.                                *)
UsageFrom(raw) ==
  CASE raw.shape = "openai"    -> OpenAIUsageFrom(raw)
    [] raw.shape = "anthropic" -> usageFrom(raw)
    [] raw.shape = "none"      -> NoUsage

(* Merge: vendors report in pieces, the later number of a category counts. *)
Merge(u, v) == [c \in Category |-> IF v[c] > 0 THEN v[c] ELSE u[c]]
=============================================================================
