--------------------------- MODULE MCMiddlewareChain ---------------------------
(* Small instances of MiddlewareChain for TLC. *)
EXTENDS MiddlewareChain, TLC

CONSTANTS k1, r1

\* The chain of NewServer, with the validation that a route may put before its handler.
MCChain == <<"requestid", "security", "cors", "limiter", "pool", "breaker",
             "validation", "handler">>

\* The API key bucket and the tenant bucket of the composite limiter are one here.
MCLimitsOf == [r \in Request |-> <<k1, k1>>]

Body(schema, body, worth) == [schema |-> schema, body |-> body, worth |-> worth]

Chat(b)   == Body(LLMChatCompletionSchema, b, Worth(ChatBodyOK(b, TRUE), ChatBodyOK(b, FALSE)))
Job(b)    == Body(QueueJobSchema, b, Worth(JobBodyOK(b, TRUE), JobBodyOK(b, FALSE)))
Tenant(b) == Body(TenantCreateSchema, b, Worth(TenantBodyOK(b, TRUE), TenantBodyOK(b, FALSE)))
APIKey(b) == Body(APIKeyCreateSchema, b, Worth(KeyBodyOK(b, TRUE), KeyBodyOK(b, FALSE)))

NoField == [x \in {} |-> Kind("null")]

\* On and next to every limit of the four schemas, and of the wrong type.
MCSubmissions ==
    LET chat == { NoField, "model" :> Text(100, {}), "model" :> Text(101, {}),
                  "model" :> Text(0, {}), "messages" :> List(0), "messages" :> List(101),
                  "max_tokens" :> Number(2), "max_tokens" :> Number(3),
                  "max_tokens" :> Number(0), "max_tokens" :> Number(64002),
                  "temperature" :> Number(-1), "temperature" :> Number(5),
                  "top_p" :> Number(2), "top_p" :> Number(-1), "top_p" :> Text(1, {}),
                  "stream" :> Kind("bool"), "stop" :> Text(1, {}), "stop" :> List(5) }
        job == { NoField, "payload" :> List(0), "queue" :> Text(0, {}),
                 "max_retries" :> Number(22), "max_retries" :> Number(1),
                 "max_retries" :> Number(-2), "timeout" :> Text(2, {}),
                 "timeout" :> Text(2, {"pattern"}), "timeout" :> Text(0, {}) }
        tenant == { NoField, "email" :> Text(6, {}), "email" :> Text(256, {"email"}),
                    "plan" :> Text(4, {"allowed"}), "plan" :> Text(4, {}), "plan" :> Text(0, {}) }
        key == { NoField, "name" :> Kind("object"), "expires_at" :> Text(10, {}),
                 "expires_at" :> Text(0, {}) }
    IN {Body(LLMChatCompletionSchema, Malformed, "invalid"),
        Chat("model" :> Text(5, {})), Chat("messages" :> List(1)),
        Job("payload" :> Kind("object")), Tenant("name" :> Text(5, {})), APIKey(NoField)}
       \cup {Chat(e @@ ("model" :> Text(5, {}) @@ "messages" :> List(1))) : e \in chat}
       \cup {Job(e @@ ("job_type" :> Text(5, {}) @@ "payload" :> Kind("object"))) : e \in job}
       \cup {Tenant(e @@ ("name" :> Text(5, {}) @@ "email" :> Text(6, {"email"}))) : e \in tenant}
       \cup {APIKey(e @@ ("name" :> Text(5, {}))) : e \in key}
===============================================================================
