--------------------------- MODULE ValidationProofs ---------------------------
(***************************************************************************)
(* What the schemas accept, for every decoded body: bodies of any size     *)
(* with any further fields, and every value a field may have.              *)
(***************************************************************************)
EXTENDS Validation, TLAPS

\* What encoding/json makes of a value.
JSONValue(v) ==
    \/ \E len \in Nat, formats \in SUBSET (Formats \cup {"pattern", "allowed"}) :
          v = Text(len, formats)
    \/ \E halves \in Int : v = Number(halves)
    \/ \E len \in Nat : v = List(len)
    \/ \E k \in {"bool", "object", "null"} : v = Kind(k)

\* A value of a kind has that kind's parts.
LEMMA Parts ==
    ASSUME NEW v, JSONValue(v)
    PROVE  /\ v.kind \in {"string", "number", "array", "bool", "object", "null"}
           /\ v.kind = "string" => v.len \in Nat
           /\ v.kind = "number" => v.halves \in Int
           /\ v.kind = "array" => v.len \in Nat
  BY DEF JSONValue, Text, Number, List, Kind

\* The types the verdict on a chat body needs, one by one.
LEMMA Kinds ==
    ASSUME NEW v
    PROVE  /\ validateType(v, "string") <=> v.kind = "string"
           /\ validateType(v, "int") <=> v.kind = "number"
           /\ validateType(v, "float") <=> v.kind = "number"
           /\ validateType(v, "bool") <=> v.kind = "bool"
           /\ validateType(v, "array") <=> v.kind = "array"
           /\ validateType(v, "object") <=> v.kind = "object"
  BY DEF validateType, Formats

\* The fields of the schemas, by the checks they ask for.
RequiredText(field) ==
    /\ field.type = "string" /\ field.minLen = 1 /\ field.maxLen \in 1 .. 10000
    /\ field.patterned = FALSE /\ field.required = TRUE /\ field.allowed = FALSE

SizedArray(field) ==
    /\ field.type = "array" /\ field.minLen \in Nat /\ field.maxLen \in 1 .. 1000
    /\ field.allowed = FALSE

CappedFloat(field) ==
    field.type = "float" /\ field.min = 0 /\ field.max \in Nat \ {0} /\ field.allowed = FALSE

PositiveInt(field) ==
    field.type = "int" /\ field.min = 1 /\ field.max \in Nat \ {0} /\ field.allowed = FALSE

NotRequired(field) == field.required = FALSE

OptionalText(field) ==
    field.type = "string" /\ field.minLen = 0 /\ field.maxLen \in Nat /\ NotRequired(field)

FormedText(field) ==
    /\ field.maxLen = 0 /\ field.patterned = TRUE /\ field.allowed = FALSE
    /\ OptionalText(field)

CappedInt(field) ==
    field.type = "int" /\ field.min = 0 /\ field.max \in Nat \ {0} /\ field.allowed = FALSE

\* Limits, on plain numbers.
LEMMA WithinRange ==
    ASSUME NEW low \in Nat, NEW high \in Nat \ {0}, NEW x \in Nat
    PROVE  Within(low, high, x) <=> x \in low .. high
  BY DEF Within

LEMMA WithinHalves ==
    ASSUME NEW low \in Nat, NEW high \in Nat \ {0}, NEW x \in Int
    PROVE  Within(2 * low, 2 * high, x) <=> (low > 0 => x >= 2 * low) /\ x <= 2 * high
  BY DEF Within

LEMMA WholeHalves ==
    ASSUME NEW high \in Nat \ {0}, NEW x \in Int
    PROVE  x % 2 = 0 /\ x >= 2 /\ x <= 2 * high <=> \E n \in 1 .. high : x = 2 * n
<1>1. ASSUME x % 2 = 0, x >= 2, x <= 2 * high
      PROVE  \E n \in 1 .. high : x = 2 * n
  <2>1. x \div 2 \in 1 .. high /\ x = 2 * (x \div 2)
    BY <1>1
  <2>2. QED
    BY <2>1
<1>2. ASSUME NEW n \in 1 .. high, x = 2 * n
      PROVE  x % 2 = 0 /\ x >= 2 /\ x <= 2 * high
  BY <1>2
<1>3. QED
  BY <1>1, <1>2

\* A required string of one character or more.
LEMMA RequiredString ==
    ASSUME NEW data, NEW field, field.name \in DOMAIN data, JSONValue(data[field.name]),
           RequiredText(field)
    PROVE  validateField(data, field)
             <=> /\ data[field.name].kind = "string"
                 /\ data[field.name].len \in 1 .. field.maxLen
<1> DEFINE v == data[field.name]
           high == field.maxLen
<1>1. high \in 1 .. 10000
  BY DEF RequiredText
<1>2. JSONValue(v)
  OBVIOUS
<1>3. validateField(data, field) <=> v.kind = "string" /\ validateString(v, field)
  BY Kinds DEF validateField, Formats, RequiredText
<1>4. validateString(v, field)
        <=> v.len # 0 /\ Within(1, high, v.len) /\ v.len <= maxStringLen
  BY DEF validateString, allowEmptyString, RequiredText
<1> HIDE DEF v, high
<1>5. v.kind = "string" => (validateString(v, field) <=> v.len \in 1 .. high)
  <2>1. SUFFICES ASSUME v.kind = "string"
                 PROVE  validateString(v, field) <=> v.len \in 1 .. high
    OBVIOUS
  <2>2. v.len \in Nat
    BY <2>1, <1>2, Parts
  <2>3. Within(1, high, v.len) <=> v.len \in 1 .. high
    BY <2>2, <1>1 DEF Within
  <2>4. v.len \in 1 .. high => v.len # 0
    BY <2>2
  <2>5. v.len \in 1 .. high => v.len <= maxStringLen
    <3>1. high \in Int /\ high <= 10000
      BY <1>1
    <3>2. QED
      BY <2>2, <3>1 DEF maxStringLen
  <2>6. QED
    BY <1>4, <2>3, <2>4, <2>5
<1>6. validateField(data, field) <=> v.kind = "string" /\ v.len \in 1 .. high
  BY <1>3, <1>5
<1>7. QED
  BY <1>6 DEF v, high

\* An array; no lower limit is a limit of zero.
LEMMA ArrayField ==
    ASSUME NEW data, NEW field, field.name \in DOMAIN data, JSONValue(data[field.name]),
           SizedArray(field)
    PROVE  validateField(data, field)
             <=> /\ data[field.name].kind = "array"
                 /\ data[field.name].len \in field.minLen .. field.maxLen
<1> DEFINE v == data[field.name]
           low == field.minLen
           high == field.maxLen
<1>1. high \in 1 .. 1000 /\ low \in Nat
  BY DEF SizedArray
<1>2. JSONValue(v)
  OBVIOUS
<1>3. validateField(data, field) <=> v.kind = "array" /\ validateArray(v, field)
  BY Kinds DEF validateField, Formats, SizedArray
<1>4. validateArray(v, field) <=> Within(low, high, v.len) /\ v.len <= maxArrayLen
  BY DEF validateArray, SizedArray
<1> HIDE DEF v, low, high
<1>5. v.kind = "array" => (validateArray(v, field) <=> v.len \in low .. high)
  <2>1. SUFFICES ASSUME v.kind = "array"
                 PROVE  validateArray(v, field) <=> v.len \in low .. high
    OBVIOUS
  <2>2. v.len \in Nat
    BY <2>1, <1>2, Parts
  <2>3. Within(low, high, v.len) <=> v.len \in low .. high
    BY <2>2, <1>1, WithinRange
  <2>4. v.len \in low .. high => v.len <= maxArrayLen
    BY <1>1, <2>2 DEF maxArrayLen
  <2>5. QED
    BY <1>4, <2>3, <2>4
<1>6. validateField(data, field) <=> v.kind = "array" /\ v.len \in low .. high
  BY <1>3, <1>5
<1>7. QED
  BY <1>6 DEF v, low, high

\* A number with no lower limit.
LEMMA FloatField ==
    ASSUME NEW data, NEW field, field.name \in DOMAIN data, JSONValue(data[field.name]),
           CappedFloat(field)
    PROVE  validateField(data, field)
             <=> data[field.name].kind = "number" /\ data[field.name].halves <= 2 * field.max
<1> DEFINE v == data[field.name]
           high == field.max
<1>1. high \in Nat \ {0}
  BY DEF CappedFloat
<1>2. JSONValue(v)
  OBVIOUS
<1>3. validateField(data, field) <=> v.kind = "number" /\ validateFloat(v, field)
  BY Kinds DEF validateField, Formats, CappedFloat
<1>4. validateFloat(v, field) <=> Within(2 * 0, 2 * high, v.halves)
  BY DEF validateFloat, CappedFloat
<1> HIDE DEF v, high
<1>5. v.kind = "number" => (validateFloat(v, field) <=> v.halves <= 2 * high)
  BY <1>1, <1>2, <1>4, Parts, WithinHalves
<1>6. validateField(data, field) <=> v.kind = "number" /\ v.halves <= 2 * high
  BY <1>3, <1>5
<1>7. QED
  BY <1>6 DEF v, high

\* A whole number from 1 on.
LEMMA IntField ==
    ASSUME NEW data, NEW field, field.name \in DOMAIN data, JSONValue(data[field.name]),
           PositiveInt(field)
    PROVE  validateField(data, field)
             <=> /\ data[field.name].kind = "number"
                 /\ WholeIn(data[field.name], 1, field.max)
<1> DEFINE v == data[field.name]
           high == field.max
           Whole == WholeIn(v, 1, high)
<1>1. high \in Nat \ {0}
  BY DEF PositiveInt
<1>2. JSONValue(v)
  OBVIOUS
<1>3. validateField(data, field) <=> v.kind = "number" /\ validateInt(v, field)
  BY Kinds DEF validateField, Formats, PositiveInt
<1>4. validateInt(v, field) <=> v.halves % 2 = 0 /\ Within(2 * 1, 2 * high, v.halves)
  BY DEF validateInt, validateFloat, PositiveInt
<1> HIDE DEF v, high
<1>5. v.kind = "number" => (validateInt(v, field) <=> Whole)
  <2>1. SUFFICES ASSUME v.kind = "number"
                 PROVE  validateInt(v, field) <=> Whole
    OBVIOUS
  <2>2. v.halves \in Int
    BY <2>1, <1>2, Parts
  <2>3. Within(2 * 1, 2 * high, v.halves) <=> v.halves >= 2 /\ v.halves <= 2 * high
    BY <2>2, <1>1 DEF Within
  <2>4. v.halves % 2 = 0 /\ v.halves >= 2 /\ v.halves <= 2 * high <=> Whole
    BY <2>2, <1>1, WholeHalves DEF WholeIn
  <2>5. QED
    BY <1>4, <2>3, <2>4
<1>6. validateField(data, field) <=> v.kind = "number" /\ Whole
  BY <1>3, <1>5
<1>7. QED
  BY <1>6 DEF v, high

\* A field that need not be there.
LEMMA AbsentField ==
    ASSUME NEW data, NEW field, field.name \notin DOMAIN data, NotRequired(field)
    PROVE  validateField(data, field)
  BY DEF validateField, NotRequired

\* A text that need not be there: the empty one passes, and its limit is the field's
\* or the one of all strings.
LEMMA OptionalString ==
    ASSUME NEW data, NEW field, field.name \in DOMAIN data, JSONValue(data[field.name]),
           OptionalText(field)
    PROVE  LET v == data[field.name]
           IN  validateField(data, field)
                 <=> /\ v.kind = "string"
                     /\ v.len > 0 => /\ field.maxLen > 0 => v.len <= field.maxLen
                                     /\ v.len <= 10000
                                     /\ field.patterned => "pattern" \in v.formats
                     /\ field.allowed => "allowed" \in v.formats
<1> DEFINE v == data[field.name]
           high == field.maxLen
           Pattern == field.patterned => "pattern" \in v.formats
           Allowed == field.allowed => "allowed" \in v.formats
           Fits == v.len > 0 => (high > 0 => v.len <= high) /\ v.len <= 10000 /\ Pattern
<1>1. JSONValue(v) /\ high \in Nat
  BY DEF OptionalText
<1>2. validateField(data, field) <=> v.kind = "string" /\ validateString(v, field) /\ Allowed
  BY Kinds DEF validateField, Formats, OptionalText
<1>3. validateString(v, field)
        <=> (v.len # 0 => Within(0, high, v.len) /\ v.len <= maxStringLen /\ Pattern)
  BY DEF validateString, allowEmptyString, OptionalText, NotRequired
<1> HIDE DEF v, high, Pattern, Allowed
<1>4. ASSUME v.kind = "string"
      PROVE  validateString(v, field) <=> Fits
  <2>1. v.len \in Nat
    BY <1>1, <1>4, Parts
  <2>2. Within(0, high, v.len) <=> (high > 0 => v.len <= high)
    BY DEF Within
  <2>3. QED
    BY <1>3, <2>1, <2>2 DEF maxStringLen
<1> HIDE DEF Fits
<1>5. validateField(data, field) <=> v.kind = "string" /\ Fits /\ Allowed
  BY <1>2, <1>4
<1>6. QED
  BY <1>5 DEF v, high, Pattern, Allowed, Fits

\* A whole number with no lower limit.
LEMMA CappedIntField ==
    ASSUME NEW data, NEW field, field.name \in DOMAIN data, JSONValue(data[field.name]),
           CappedInt(field)
    PROVE  validateField(data, field)
             <=> /\ data[field.name].kind = "number"
                 /\ data[field.name].halves % 2 = 0 /\ data[field.name].halves <= 2 * field.max
<1> DEFINE v == data[field.name]
           high == field.max
           Even == v.halves % 2 = 0
<1>1. high \in Nat \ {0} /\ JSONValue(v)
  BY DEF CappedInt
<1>2. validateField(data, field) <=> v.kind = "number" /\ validateInt(v, field)
  BY Kinds DEF validateField, Formats, CappedInt
<1>3. validateInt(v, field) <=> Even /\ Within(2 * 0, 2 * high, v.halves)
  BY DEF validateInt, validateFloat, CappedInt
<1> HIDE DEF v, high, Even
<1>4. ASSUME v.kind = "number"
      PROVE  validateInt(v, field) <=> Even /\ v.halves <= 2 * high
  <2>1. v.halves \in Int
    BY <1>1, <1>4, Parts
  <2>2. Within(2 * 0, 2 * high, v.halves) <=> v.halves <= 2 * high
    BY <1>1, <2>1, WithinHalves
  <2>3. QED
    BY <1>3, <2>2
<1>5. validateField(data, field) <=> v.kind = "number" /\ Even /\ v.halves <= 2 * high
  BY <1>2, <1>4
<1>6. QED
  BY <1>5 DEF v, high, Even

\* Of an object and of an email only the kind and the form are looked at.
LEMMA FormField ==
    ASSUME NEW data, NEW field, field.name \in DOMAIN data, field.allowed = FALSE
    PROVE  /\ field.type = "object" =>
                 (validateField(data, field) <=> data[field.name].kind = "object")
           /\ field.type = "email" =>
                 (validateField(data, field) <=> /\ data[field.name].kind = "string"
                                                /\ "email" \in data[field.name].formats)
  BY DEF validateField, validateType, Formats

\* A job's or a key's timeout or date.
LEMMA PatternField ==
    ASSUME NEW data, \A x \in DOMAIN data : JSONValue(data[x]), NEW name, NEW field,
           field.name = name, FormedText(field)
    PROVE  validateField(data, field) <=>
             Optional(data, name, LAMBDA v : Formed(v, FALSE))
<1>1. /\ field.maxLen = 0 /\ field.patterned = TRUE /\ field.allowed = FALSE
      /\ OptionalText(field) /\ NotRequired(field)
  BY DEF FormedText, OptionalText
<1>2. CASE name \in DOMAIN data
  <2>1. field.name \in DOMAIN data /\ JSONValue(data[field.name])
    BY <1>1, <1>2
  <2> DEFINE v == data[field.name]
  <2>2. validateField(data, field)
          <=> /\ v.kind = "string"
              /\ v.len > 0 => /\ field.maxLen > 0 => v.len <= field.maxLen
                              /\ v.len <= 10000
                              /\ field.patterned => "pattern" \in v.formats
              /\ field.allowed => "allowed" \in v.formats
    BY <1>1, <2>1, OptionalString
  <2>3. v.kind = "string" => v.len \in Nat
    BY <2>1, Parts
  <2> HIDE DEF v
  <2>4. validateField(data, field)
          <=> v.kind = "string" /\ v.len <= 10000 /\ (v.len > 0 => "pattern" \in v.formats)
    BY <1>1, <2>2, <2>3
  <2>5. QED
    BY <1>1, <1>2, <2>4 DEF Optional, Formed, v
<1>3. CASE name \notin DOMAIN data
  BY <1>1, <1>3, AbsentField DEF Optional
<1>4. QED
  BY <1>2, <1>3
-------------------------------------------------------------------------------
\* Every body of a chat request passes that breaks none of the schema's rules but the
\* ones nobody looks at, and no other; so each that fits the whole schema passes.
THEOREM ChatVerdict ==
    ASSUME NEW data, data # Malformed, \A x \in DOMAIN data : JSONValue(data[x])
    PROVE  /\ ValidateRequest(data, LLMChatCompletionSchema) <=> ChatBodyOK(data, FALSE)
           /\ ChatBodyOK(data, TRUE) => ValidateRequest(data, LLMChatCompletionSchema)
<1> DEFINE model    == [Field("model", "string") EXCEPT !.required = TRUE, !.minLen = 1, !.maxLen = 100]
           messages == [Field("messages", "array") EXCEPT !.required = TRUE, !.minLen = 1, !.maxLen = 100]
           tokens   == [Field("max_tokens", "int") EXCEPT !.min = 1, !.max = 32000]
           temp     == [Field("temperature", "float") EXCEPT !.max = 2]
           topP     == [Field("top_p", "float") EXCEPT !.max = 1]
           stream   == Field("stream", "bool")
           stop     == [Field("stop", "array") EXCEPT !.maxLen = 4]
<1>1. model.name = "model" /\ model.maxLen = 100 /\ RequiredText(model)
  BY DEF Field, RequiredText
<1>2. /\ messages.name = "messages" /\ messages.minLen = 1 /\ messages.maxLen = 100
      /\ SizedArray(messages)
  BY DEF Field, SizedArray
<1>3. /\ tokens.name = "max_tokens" /\ tokens.max = 32000
      /\ PositiveInt(tokens) /\ NotRequired(tokens)
  BY DEF Field, PositiveInt, NotRequired
<1>4. /\ temp.name = "temperature" /\ temp.max = 2 /\ CappedFloat(temp) /\ NotRequired(temp)
  BY DEF Field, CappedFloat, NotRequired
<1>5. /\ topP.name = "top_p" /\ topP.max = 1 /\ CappedFloat(topP) /\ NotRequired(topP)
  BY DEF Field, CappedFloat, NotRequired
<1>6. /\ stream.name = "stream" /\ stream.type = "bool" /\ stream.allowed = FALSE
      /\ NotRequired(stream)
  BY DEF Field, NotRequired
<1>7. /\ stop.name = "stop" /\ stop.minLen = 0 /\ stop.maxLen = 4
      /\ SizedArray(stop) /\ NotRequired(stop)
  BY DEF Field, SizedArray, NotRequired
<1>8. ValidateRequest(data, LLMChatCompletionSchema) <=>
        /\ {"model", "messages"} \subseteq DOMAIN data
        /\ validateField(data, model) /\ validateField(data, messages)
        /\ validateField(data, tokens) /\ validateField(data, temp)
        /\ validateField(data, topP) /\ validateField(data, stream) /\ validateField(data, stop)
  BY DEF ValidateRequest, LLMChatCompletionSchema
<1> HIDE DEF model, messages, tokens, temp, topP, stream, stop
<1>9. ASSUME "model" \in DOMAIN data
       PROVE  validateField(data, model)
                <=> data["model"].kind = "string" /\ data["model"].len \in 1 .. 100
  <2>1. model.name \in DOMAIN data /\ JSONValue(data[model.name])
    BY <1>1, <1>9
  <2>2. validateField(data, model) <=> /\ data[model.name].kind = "string"
                                      /\ data[model.name].len \in 1 .. model.maxLen
    BY <1>1, <2>1, RequiredString
  <2>3. QED
    BY <1>1, <2>2
<1>10. ASSUME "messages" \in DOMAIN data
       PROVE  validateField(data, messages)
                <=> data["messages"].kind = "array" /\ data["messages"].len \in 1 .. 100
  <2>1. messages.name \in DOMAIN data /\ JSONValue(data[messages.name])
    BY <1>2, <1>10
  <2>2. validateField(data, messages)
          <=> /\ data[messages.name].kind = "array"
              /\ data[messages.name].len \in messages.minLen .. messages.maxLen
    BY <1>2, <2>1, ArrayField
  <2>3. QED
    BY <1>2, <2>2
<1>11. validateField(data, tokens) <=>
         Optional(data, "max_tokens", LAMBDA v : v.kind = "number" /\ WholeIn(v, 1, 32000))
  <2>1. CASE "max_tokens" \in DOMAIN data
    <3>1. tokens.name \in DOMAIN data /\ JSONValue(data[tokens.name])
      BY <1>3, <2>1
    <3>2. validateField(data, tokens) <=> /\ data[tokens.name].kind = "number"
                                         /\ WholeIn(data[tokens.name], 1, tokens.max)
      BY <1>3, <3>1, IntField
    <3>3. QED
      BY <1>3, <2>1, <3>1, <3>2 DEF Optional
  <2>2. CASE "max_tokens" \notin DOMAIN data
    BY <1>3, <2>2, AbsentField DEF Optional
  <2>3. QED
    BY <2>1, <2>2
<1>12. validateField(data, temp) <=>
         Optional(data, "temperature",
           LAMBDA v : v.kind = "number" /\ NotBelowZero(v, FALSE) /\ v.halves <= 4)
  <2>1. CASE "temperature" \in DOMAIN data
    <3>1. temp.name \in DOMAIN data /\ JSONValue(data[temp.name])
      BY <1>4, <2>1
    <3>2. validateField(data, temp) <=> /\ data[temp.name].kind = "number"
                                       /\ data[temp.name].halves <= 2 * temp.max
      BY <1>4, <3>1, FloatField
    <3>3. QED
      BY <1>4, <2>1, <3>1, <3>2 DEF Optional, NotBelowZero
  <2>2. CASE "temperature" \notin DOMAIN data
    BY <1>4, <2>2, AbsentField DEF Optional
  <2>3. QED
    BY <2>1, <2>2
<1>13. validateField(data, topP) <=>
         Optional(data, "top_p",
           LAMBDA v : v.kind = "number" /\ NotBelowZero(v, FALSE) /\ v.halves <= 2)
  <2>1. CASE "top_p" \in DOMAIN data
    <3>1. topP.name \in DOMAIN data /\ JSONValue(data[topP.name])
      BY <1>5, <2>1
    <3>2. validateField(data, topP) <=> /\ data[topP.name].kind = "number"
                                       /\ data[topP.name].halves <= 2 * topP.max
      BY <1>5, <3>1, FloatField
    <3>3. QED
      BY <1>5, <2>1, <3>1, <3>2 DEF Optional, NotBelowZero
  <2>2. CASE "top_p" \notin DOMAIN data
    BY <1>5, <2>2, AbsentField DEF Optional
  <2>3. QED
    BY <2>1, <2>2
<1>14. validateField(data, stream) <=> Optional(data, "stream", LAMBDA v : v.kind = "bool")
  BY <1>6, AbsentField, Kinds DEF Optional, validateField, Formats
<1>15. validateField(data, stop) <=>
         Optional(data, "stop", LAMBDA v : v.kind = "array" /\ v.len <= 4)
  <2>1. CASE "stop" \in DOMAIN data
    <3>1. stop.name \in DOMAIN data /\ JSONValue(data[stop.name])
      BY <1>7, <2>1
    <3>2. validateField(data, stop) <=> /\ data[stop.name].kind = "array"
                                       /\ data[stop.name].len \in stop.minLen .. stop.maxLen
      BY <1>7, <3>1, ArrayField
    <3>3. QED
      BY <1>7, <2>1, <3>1, <3>2, Parts DEF Optional
  <2>2. CASE "stop" \notin DOMAIN data
    BY <1>7, <2>2, AbsentField DEF Optional
  <2>3. QED
    BY <2>1, <2>2
<1>16. ASSUME {"model", "messages"} \subseteq DOMAIN data
       PROVE  ValidateRequest(data, LLMChatCompletionSchema) <=> ChatBodyOK(data, FALSE)
  <2>1. "model" \in DOMAIN data /\ "messages" \in DOMAIN data
    BY <1>16
  <2>2. QED
    BY <1>16, <2>1, <1>8, <1>9, <1>10, <1>11, <1>12, <1>13, <1>14, <1>15
       DEF ChatBodyOK, Optional, NotBelowZero
<1>17. ValidateRequest(data, LLMChatCompletionSchema) <=> ChatBodyOK(data, FALSE)
  BY <1>8, <1>16 DEF ChatBodyOK, Optional, NotBelowZero
<1>18. ChatBodyOK(data, TRUE) => ChatBodyOK(data, FALSE)
  BY DEF ChatBodyOK, Optional, NotBelowZero
<1>19. QED
  BY <1>17, <1>18

\* The same for the body of a job.
THEOREM JobVerdict ==
    ASSUME NEW data, data # Malformed, \A x \in DOMAIN data : JSONValue(data[x])
    PROVE  /\ ValidateRequest(data, QueueJobSchema) <=> JobBodyOK(data, FALSE)
           /\ JobBodyOK(data, TRUE) => ValidateRequest(data, QueueJobSchema)
<1> DEFINE jobType == [Field("job_type", "string") EXCEPT !.required = TRUE, !.minLen = 1, !.maxLen = 50]
           payload == [Field("payload", "object") EXCEPT !.required = TRUE]
           queue   == [Field("queue", "string") EXCEPT !.maxLen = 50]
           retries == [Field("max_retries", "int") EXCEPT !.max = 10]
           timeout == [Field("timeout", "string") EXCEPT !.patterned = TRUE]
<1>0. timeout.name = "timeout" /\ FormedText(timeout)
  BY DEF Field, FormedText, OptionalText, NotRequired
<1>1. jobType.name = "job_type" /\ jobType.maxLen = 50 /\ RequiredText(jobType)
  BY DEF Field, RequiredText
<1>2. payload.name = "payload" /\ payload.type = "object" /\ payload.allowed = FALSE
  BY DEF Field
<1>3. /\ queue.name = "queue" /\ queue.maxLen = 50 /\ queue.patterned = FALSE
      /\ queue.allowed = FALSE /\ OptionalText(queue) /\ NotRequired(queue)
  BY DEF Field, OptionalText, NotRequired
<1>4. /\ retries.name = "max_retries" /\ retries.max = 10
      /\ CappedInt(retries) /\ NotRequired(retries)
  BY DEF Field, CappedInt, NotRequired
<1>5. ValidateRequest(data, QueueJobSchema) <=>
        /\ {"job_type", "payload"} \subseteq DOMAIN data
        /\ validateField(data, jobType) /\ validateField(data, payload)
        /\ validateField(data, queue) /\ validateField(data, retries)
        /\ validateField(data, timeout)
  BY DEF ValidateRequest, QueueJobSchema
<1> HIDE DEF jobType, payload, queue, retries, timeout
<1>6. validateField(data, timeout) <=>
        Optional(data, "timeout", LAMBDA v : Formed(v, FALSE))
  BY <1>0, PatternField
<1>7. ASSUME "job_type" \in DOMAIN data
      PROVE  validateField(data, jobType)
               <=> data["job_type"].kind = "string" /\ data["job_type"].len \in 1 .. 50
  <2>1. jobType.name \in DOMAIN data /\ JSONValue(data[jobType.name])
    BY <1>1, <1>7
  <2>2. validateField(data, jobType) <=> /\ data[jobType.name].kind = "string"
                                        /\ data[jobType.name].len \in 1 .. jobType.maxLen
    BY <1>1, <2>1, RequiredString
  <2>3. QED
    BY <1>1, <2>2
<1>8. ASSUME "payload" \in DOMAIN data
      PROVE  validateField(data, payload) <=> data["payload"].kind = "object"
  BY <1>2, <1>8, FormField
<1>9. validateField(data, queue) <=>
        Optional(data, "queue", LAMBDA v : v.kind = "string" /\ v.len <= 50)
  <2>1. CASE "queue" \in DOMAIN data
    <3>1. queue.name \in DOMAIN data /\ JSONValue(data[queue.name])
      BY <1>3, <2>1
    <3> DEFINE v == data[queue.name]
    <3>2. validateField(data, queue)
            <=> /\ v.kind = "string"
                /\ v.len > 0 => /\ queue.maxLen > 0 => v.len <= queue.maxLen
                                /\ v.len <= 10000
                                /\ queue.patterned => "pattern" \in v.formats
                /\ queue.allowed => "allowed" \in v.formats
      BY <1>3, <3>1, OptionalString
    <3>3. v.kind = "string" => v.len \in Nat
      BY <3>1, Parts
    <3> HIDE DEF v
    <3>4. validateField(data, queue) <=> v.kind = "string" /\ v.len <= 50
      BY <1>3, <3>2, <3>3
    <3>5. QED
      BY <1>3, <2>1, <3>4 DEF Optional, v
  <2>2. CASE "queue" \notin DOMAIN data
    BY <1>3, <2>2, AbsentField DEF Optional
  <2>3. QED
    BY <2>1, <2>2
<1>10. validateField(data, retries) <=>
         Optional(data, "max_retries",
           LAMBDA v : /\ v.kind = "number" /\ v.halves % 2 = 0
                      /\ NotBelowZero(v, FALSE) /\ v.halves <= 20)
  <2>1. CASE "max_retries" \in DOMAIN data
    <3>1. retries.name \in DOMAIN data /\ JSONValue(data[retries.name])
      BY <1>4, <2>1
    <3>2. validateField(data, retries)
            <=> /\ data[retries.name].kind = "number"
                /\ data[retries.name].halves % 2 = 0
                /\ data[retries.name].halves <= 2 * retries.max
      BY <1>4, <3>1, CappedIntField
    <3>3. QED
      BY <1>4, <2>1, <3>2 DEF Optional, NotBelowZero
  <2>2. CASE "max_retries" \notin DOMAIN data
    BY <1>4, <2>2, AbsentField DEF Optional
  <2>3. QED
    BY <2>1, <2>2
<1>11. ASSUME {"job_type", "payload"} \subseteq DOMAIN data
       PROVE  ValidateRequest(data, QueueJobSchema) <=> JobBodyOK(data, FALSE)
  <2>1. "job_type" \in DOMAIN data /\ "payload" \in DOMAIN data
    BY <1>11
  <2>2. QED
    BY <1>11, <2>1, <1>5, <1>6, <1>7, <1>8, <1>9, <1>10
       DEF JobBodyOK, Optional, NotBelowZero, Formed
<1>12. ValidateRequest(data, QueueJobSchema) <=> JobBodyOK(data, FALSE)
  BY <1>5, <1>11 DEF JobBodyOK, Optional, NotBelowZero, Formed
<1>13. JobBodyOK(data, TRUE) => JobBodyOK(data, FALSE)
  BY DEF JobBodyOK, Optional, NotBelowZero, Formed
<1>14. QED
  BY <1>12, <1>13

\* The same for the body of a tenant.
THEOREM TenantVerdict ==
    ASSUME NEW data, data # Malformed, \A x \in DOMAIN data : JSONValue(data[x])
    PROVE  /\ ValidateRequest(data, TenantCreateSchema) <=> TenantBodyOK(data, FALSE)
           /\ TenantBodyOK(data, TRUE) => ValidateRequest(data, TenantCreateSchema)
<1> DEFINE name  == [Field("name", "string") EXCEPT !.required = TRUE, !.minLen = 1, !.maxLen = 100]
           email == [Field("email", "email") EXCEPT !.required = TRUE, !.maxLen = 255]
           plan  == [Field("plan", "string") EXCEPT !.allowed = TRUE]
<1>0. name.name = "name" /\ name.maxLen = 100 /\ RequiredText(name)
  BY DEF Field, RequiredText
<1>1. email.name = "email" /\ email.type = "email" /\ email.allowed = FALSE
  BY DEF Field
<1>2. /\ plan.name = "plan" /\ plan.maxLen = 0 /\ plan.patterned = FALSE
      /\ plan.allowed = TRUE /\ OptionalText(plan) /\ NotRequired(plan)
  BY DEF Field, OptionalText, NotRequired
<1>3. ValidateRequest(data, TenantCreateSchema) <=>
        /\ {"name", "email"} \subseteq DOMAIN data
        /\ validateField(data, name) /\ validateField(data, email) /\ validateField(data, plan)
  <2>1. /\ TenantCreateSchema.required = {"name", "email"}
        /\ TenantCreateSchema.fields = {name, email, plan}
    BY DEF TenantCreateSchema
  <2> HIDE DEF name, email, plan
  <2>2. QED
    BY <2>1 DEF ValidateRequest
<1> HIDE DEF name, email, plan
<1>4. ASSUME "name" \in DOMAIN data
      PROVE  validateField(data, name)
               <=> data["name"].kind = "string" /\ data["name"].len \in 1 .. 100
  <2>1. name.name \in DOMAIN data /\ JSONValue(data[name.name])
    BY <1>0, <1>4
  <2>2. validateField(data, name) <=> /\ data[name.name].kind = "string"
                                     /\ data[name.name].len \in 1 .. name.maxLen
    BY <1>0, <2>1, RequiredString
  <2>3. QED
    BY <1>0, <2>2
<1>5. ASSUME "email" \in DOMAIN data
      PROVE  validateField(data, email)
               <=> data["email"].kind = "string" /\ "email" \in data["email"].formats
  BY <1>1, <1>5, FormField
<1>6. validateField(data, plan) <=>
        Optional(data, "plan",
          LAMBDA v : v.kind = "string" /\ v.len <= 10000 /\ "allowed" \in v.formats)
  <2>1. CASE "plan" \in DOMAIN data
    <3>1. plan.name \in DOMAIN data /\ JSONValue(data[plan.name])
      BY <1>2, <2>1
    <3> DEFINE v == data[plan.name]
    <3>2. validateField(data, plan)
            <=> /\ v.kind = "string"
                /\ v.len > 0 => /\ plan.maxLen > 0 => v.len <= plan.maxLen
                                /\ v.len <= 10000
                                /\ plan.patterned => "pattern" \in v.formats
                /\ plan.allowed => "allowed" \in v.formats
      BY <1>2, <3>1, OptionalString
    <3>3. v.kind = "string" => v.len \in Nat
      BY <3>1, Parts
    <3> HIDE DEF v
    <3>4. validateField(data, plan)
            <=> v.kind = "string" /\ v.len <= 10000 /\ "allowed" \in v.formats
      BY <1>2, <3>2, <3>3
    <3>5. QED
      BY <1>2, <2>1, <3>4 DEF Optional, v
  <2>2. CASE "plan" \notin DOMAIN data
    BY <1>2, <2>2, AbsentField DEF Optional
  <2>3. QED
    BY <2>1, <2>2
<1>7. ASSUME {"name", "email"} \subseteq DOMAIN data
      PROVE  ValidateRequest(data, TenantCreateSchema) <=> TenantBodyOK(data, FALSE)
  <2>1. "name" \in DOMAIN data /\ "email" \in DOMAIN data
    BY <1>7
  <2>2. QED
    BY <1>7, <2>1, <1>3, <1>4, <1>5, <1>6 DEF TenantBodyOK, Optional
<1>8. ValidateRequest(data, TenantCreateSchema) <=> TenantBodyOK(data, FALSE)
  BY <1>3, <1>7 DEF TenantBodyOK, Optional
<1>9. TenantBodyOK(data, TRUE) => TenantBodyOK(data, FALSE)
  BY DEF TenantBodyOK
<1>10. QED
  BY <1>8, <1>9

\* The same for the body of an API key.
THEOREM KeyVerdict ==
    ASSUME NEW data, data # Malformed, \A x \in DOMAIN data : JSONValue(data[x])
    PROVE  /\ ValidateRequest(data, APIKeyCreateSchema) <=> KeyBodyOK(data, FALSE)
           /\ KeyBodyOK(data, TRUE) => ValidateRequest(data, APIKeyCreateSchema)
<1> DEFINE name    == [Field("name", "string") EXCEPT !.required = TRUE, !.minLen = 1, !.maxLen = 100]
           expires == [Field("expires_at", "string") EXCEPT !.patterned = TRUE]
<1>1. name.name = "name" /\ name.maxLen = 100 /\ RequiredText(name)
  BY DEF Field, RequiredText
<1>2. expires.name = "expires_at" /\ FormedText(expires)
  BY DEF Field, FormedText, OptionalText, NotRequired
<1>3. ValidateRequest(data, APIKeyCreateSchema) <=>
        "name" \in DOMAIN data /\ validateField(data, name) /\ validateField(data, expires)
  BY DEF ValidateRequest, APIKeyCreateSchema
<1> HIDE DEF name, expires
<1>4. ASSUME "name" \in DOMAIN data
      PROVE  validateField(data, name)
               <=> data["name"].kind = "string" /\ data["name"].len \in 1 .. 100
  <2>1. name.name \in DOMAIN data /\ JSONValue(data[name.name])
    BY <1>1, <1>4
  <2>2. validateField(data, name) <=> /\ data[name.name].kind = "string"
                                     /\ data[name.name].len \in 1 .. name.maxLen
    BY <1>1, <2>1, RequiredString
  <2>3. QED
    BY <1>1, <2>2
<1>5. validateField(data, expires) <=>
        Optional(data, "expires_at", LAMBDA v : Formed(v, FALSE))
  BY <1>2, PatternField
<1>6. ValidateRequest(data, APIKeyCreateSchema) <=> KeyBodyOK(data, FALSE)
  BY <1>3, <1>4, <1>5 DEF KeyBodyOK, Optional
<1>7. KeyBodyOK(data, TRUE) => KeyBodyOK(data, FALSE)
  BY DEF KeyBodyOK, Optional, Formed
<1>8. QED
  BY <1>6, <1>7
===============================================================================
