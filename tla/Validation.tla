------------------------------ MODULE Validation ------------------------------
(***************************************************************************)
(* middleware/validation/validation.go: what ValidateRequest accepts.      *)
(*                                                                         *)
(* A decoded JSON value is its kind and what the checks look at: the       *)
(* length of a string or an array, the formats a string has ("pattern" and  *)
(* "allowed" are those of its field), and twice the value of a number, so   *)
(* that a half is the number that is not whole.                            *)
(* Options are DefaultOptions; their int64 limits exclude nothing.         *)
(***************************************************************************)
EXTENDS Integers

CONSTANT Malformed  \* a body ctx.Bind cannot turn into a map

Text(len, formats) == [kind |-> "string", len |-> len, formats |-> formats]
Number(halves)     == [kind |-> "number", halves |-> halves]
List(len)          == [kind |-> "array", len |-> len]
Kind(k)            == [kind |-> k]

allowEmptyString == FALSE
maxStringLen     == 10000
maxArrayLen      == 1000

Field(name, type) ==
    [name |-> name, type |-> type, required |-> FALSE, min |-> 0, max |-> 0,
     minLen |-> 0, maxLen |-> 0, patterned |-> FALSE, allowed |-> FALSE]

Formats == {"email", "url", "ip", "ipv6", "hostname", "apikey"}

validateType(value, type) ==
    value.kind = CASE type \in {"int", "float"} -> "number"
                   [] type \in Formats -> "string"
                   [] OTHER -> type

\* Mutation of Within: an exclusive upper bound.
WithinBelow(low, high, x) == (low > 0 => x >= low) /\ (high > 0 => x < high)

\* Each limit is looked at only if it is greater than zero.
Within(low, high, x) == (low > 0 => x >= low) /\ (high > 0 => x <= high)

\* An empty string skips every other check.
validateString(value, field) ==
    IF value.len = 0
    THEN allowEmptyString \/ ~field.required
    ELSE /\ Within(field.minLen, field.maxLen, value.len)
         /\ value.len <= maxStringLen
         /\ field.patterned => "pattern" \in value.formats

validateFloat(value, field) == Within(2 * field.min, 2 * field.max, value.halves)

validateInt(value, field) == value.halves % 2 = 0 /\ validateFloat(value, field)

validateArray(value, field) ==
    Within(field.minLen, field.maxLen, value.len) /\ value.len <= maxArrayLen

\* A field that is absent, or of the right type and within its limits; nothing is
\* asked of the inside of objects.
validateField(data, field) ==
    IF field.name \notin DOMAIN data
    THEN ~field.required
    ELSE LET value == data[field.name] IN
         /\ validateType(value, field.type)
         /\ field.type = "string" => validateString(value, field)
         /\ field.type = "int" => validateInt(value, field)
         /\ field.type = "float" => validateFloat(value, field)
         /\ field.type = "array" => validateArray(value, field)
         /\ field.type \in Formats => field.type \in value.formats
         /\ field.allowed => "allowed" \in value.formats

ValidateRequest(data, schema) ==
    /\ data # Malformed
    /\ schema.required \subseteq DOMAIN data
    /\ \A field \in schema.fields : validateField(data, field)

LLMChatCompletionSchema ==
    [required |-> {"model", "messages"},
     fields |->
       {[Field("model", "string") EXCEPT !.required = TRUE, !.minLen = 1, !.maxLen = 100],
        [Field("messages", "array") EXCEPT !.required = TRUE, !.minLen = 1, !.maxLen = 100],
        [Field("max_tokens", "int") EXCEPT !.min = 1, !.max = 32000],
        [Field("temperature", "float") EXCEPT !.max = 2],
        [Field("top_p", "float") EXCEPT !.max = 1],
        Field("stream", "bool"),
        [Field("stop", "array") EXCEPT !.maxLen = 4]}]

QueueJobSchema ==
    [required |-> {"job_type", "payload"},
     fields |->
       {[Field("job_type", "string") EXCEPT !.required = TRUE, !.minLen = 1, !.maxLen = 50],
        [Field("payload", "object") EXCEPT !.required = TRUE],
        [Field("queue", "string") EXCEPT !.maxLen = 50],
        [Field("max_retries", "int") EXCEPT !.max = 10],
        [Field("timeout", "string") EXCEPT !.patterned = TRUE]}]

TenantCreateSchema ==
    [required |-> {"name", "email"},
     fields |->
       {[Field("name", "string") EXCEPT !.required = TRUE, !.minLen = 1, !.maxLen = 100],
        [Field("email", "email") EXCEPT !.required = TRUE, !.maxLen = 255],
        [Field("plan", "string") EXCEPT !.allowed = TRUE]}]

APIKeyCreateSchema ==
    [required |-> {"name"},
     fields |->
       {[Field("name", "string") EXCEPT !.required = TRUE, !.minLen = 1, !.maxLen = 100],
        [Field("expires_at", "string") EXCEPT !.patterned = TRUE]}]
-------------------------------------------------------------------------------
(* What the schemas say, field by field: all of it if `strict`, and without what the
   code never looks at if not.                                             *)

WholeIn(value, low, high) == \E n \in low .. high : value.halves = 2 * n

Optional(data, name, Rule(_)) == name \in DOMAIN data => Rule(data[name])

\* A minimum of zero: Within takes it for none.
NotBelowZero(value, strict) == strict => value.halves >= 0

\* A pattern: validateString returns before it comes to that of an empty text.
Formed(value, strict) ==
    /\ value.kind = "string" /\ value.len <= 10000
    /\ strict \/ value.len > 0 => "pattern" \in value.formats

\* A chat request.
ChatBodyOK(data, strict) ==
    /\ {"model", "messages"} \subseteq DOMAIN data
    /\ data["model"].kind = "string" /\ data["model"].len \in 1 .. 100
    /\ data["messages"].kind = "array" /\ data["messages"].len \in 1 .. 100
    /\ Optional(data, "max_tokens", LAMBDA v : v.kind = "number" /\ WholeIn(v, 1, 32000))
    /\ Optional(data, "temperature",
         LAMBDA v : v.kind = "number" /\ NotBelowZero(v, strict) /\ v.halves <= 4)
    /\ Optional(data, "top_p",
         LAMBDA v : v.kind = "number" /\ NotBelowZero(v, strict) /\ v.halves <= 2)
    /\ Optional(data, "stream", LAMBDA v : v.kind = "bool")
    /\ Optional(data, "stop", LAMBDA v : v.kind = "array" /\ v.len <= 4)

\* A job.
JobBodyOK(data, strict) ==
    /\ {"job_type", "payload"} \subseteq DOMAIN data
    /\ data["job_type"].kind = "string" /\ data["job_type"].len \in 1 .. 50
    /\ data["payload"].kind = "object"
    /\ Optional(data, "queue", LAMBDA v : v.kind = "string" /\ v.len <= 50)
    /\ Optional(data, "max_retries",
         LAMBDA v : /\ v.kind = "number" /\ v.halves % 2 = 0
                    /\ NotBelowZero(v, strict) /\ v.halves <= 20)
    /\ Optional(data, "timeout", LAMBDA v : Formed(v, strict))

\* A tenant: no length is looked at where the form of an email is.
TenantBodyOK(data, strict) ==
    /\ {"name", "email"} \subseteq DOMAIN data
    /\ data["name"].kind = "string" /\ data["name"].len \in 1 .. 100
    /\ data["email"].kind = "string" /\ "email" \in data["email"].formats
    /\ strict => data["email"].len <= 255
    /\ Optional(data, "plan",
         LAMBDA v : v.kind = "string" /\ v.len <= 10000 /\ "allowed" \in v.formats)

\* An API key.
KeyBodyOK(data, strict) ==
    /\ "name" \in DOMAIN data
    /\ data["name"].kind = "string" /\ data["name"].len \in 1 .. 100
    /\ Optional(data, "expires_at", LAMBDA v : Formed(v, strict))

\* A body is valid, or it breaks only rules nobody looks at, or it is invalid.
Worth(strictly, loosely) ==
    IF strictly THEN "valid" ELSE IF loosely THEN "overlooked" ELSE "invalid"
===============================================================================
