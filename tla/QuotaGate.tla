------------------------------- MODULE QuotaGate -------------------------------
(***************************************************************************)
(* The chat-completion handler (internal/handler/llm.go) in front of the   *)
(* usage accounting of UsageRecorder: authenticate, check the daily quota  *)
(* with two separate reads, call the upstream, start the recorder.         *)
(*                                                                         *)
(* A request and its upstream response share one element of Response.      *)
(***************************************************************************)
EXTENDS UsageRecorder, FiniteSetsExt, Functions

CONSTANTS Cost,      \* TotalTokens the upstream reports for each request
          MessageBytes, \* len(req.Messages): the size of the raw JSON
          QuotaDaily,\* daily quota of each tenant
          MaxOpen    \* bound: requests admitted and not yet accounted for

ASSUME QuotaConstantsOK ==
    /\ {Cost, MessageBytes} \subseteq [Response -> Nat]
    /\ QuotaDaily \in [Tenant -> Nat]
    /\ MaxOpen \in Nat

VARIABLES reqPc,   \* where the handler of each request is
          status,  \* HTTP status it answered, 0 before
          reqDay,  \* its local `today` in checkQuota
          seen,    \* currentTotal, as read by checkQuota
          before   \* history: responses in the day's rows when it was read

reqVars == <<reqPc, status, reqDay, seen, before>>
allVars == <<vars, reqVars>>

\* The pre-flight estimate of ChatCompletion.
estimatedTokens(r) == MessageBytes[r] * 200

TotalTokens(row) == SumFunctionOnSet([r \in Response |-> row.added[r] * Cost[r]], Response)

DayRows(t, day) ==
    {i \in DOMAIN rows : rows[i].key.tenant = t /\ rows[i].key.date = day}

\* Where("tenant_id = ? AND date = ?").First(&usage): one row, the oldest.
FirstUsage(t, day) ==
    LET hits == DayRows(t, day) IN IF hits = {} THEN 0 ELSE TotalTokens(rows[Min(hits)])

\* The responses that count in the tenant's rows of a day.
CreditedOn(t, day) ==
    {s \in Response : \E i \in DayRows(t, day) : rows[i].added[s] > 0}

\* Requests between admission and the end of their recorder.
Open == {r \in Response : reqPc[r] \in {"quota", "tenant", "upstream"}} \cup InFlight

QuotaInit ==
    /\ Init
    /\ reqPc = [r \in Response |-> "idle"]
    /\ status = [r \in Response |-> 0]
    /\ reqDay = [r \in Response |-> 0]
    /\ seen = [r \in Response |-> 0]
    /\ before = [r \in Response |-> {}]

Answer(r, code) ==
    /\ reqPc' = [reqPc EXCEPT ![r] = "done"]
    /\ status' = [status EXCEPT ![r] = code]

GoTo(r, label) == reqPc' = [reqPc EXCEPT ![r] = label] /\ UNCHANGED status
-------------------------------------------------------------------------------
\* Header, getTenantByAPIKey, body limit, parsing and structural checks; a
\* database error while looking the key up is answered like an unknown key.
\* Past them, checkQuota takes the date.
Authenticate(r) ==
    /\ reqPc[r] = "idle" /\ Cardinality(Open) < MaxOpen
    /\ \/ dbUp /\ GoTo(r, "quota") /\ reqDay' = [reqDay EXCEPT ![r] = today]
       \/ /\ \E code \in {400, 401} \cup (IF dbUp THEN {413} ELSE {}) : Answer(r, code)
          /\ UNCHANGED reqDay
    /\ UNCHANGED <<vars, seen, before>>

\* checkQuota's first query, for the date taken before it; an error other than "not
\* found" refuses the request.
ReadUsage(r) ==
    /\ reqPc[r] = "quota"
    /\ IF dbUp
       THEN /\ seen' = [seen EXCEPT ![r] = FirstUsage(TenantOf[r], reqDay[r])]
            /\ before' = [before EXCEPT ![r] = CreditedOn(TenantOf[r], reqDay[r])]
            /\ GoTo(r, "tenant")
       ELSE Answer(r, 403) /\ UNCHANGED <<seen, before>>
    /\ UNCHANGED <<vars, reqDay>>

WouldExceed(r) == seen[r] + estimatedTokens(r) > QuotaDaily[TenantOf[r]]

\* Mutation of AdmitOrDeny: what would exceed is logged and goes on.
AdmitOrWarn(r) ==
    /\ reqPc[r] = "tenant"
    /\ IF dbUp THEN GoTo(r, "upstream") ELSE Answer(r, 403)
    /\ UNCHANGED <<vars, reqDay, seen, before>>

\* Its second query and the comparison.
AdmitOrDeny(r) ==
    /\ reqPc[r] = "tenant"
    /\ IF dbUp /\ ~WouldExceed(r) THEN GoTo(r, "upstream") ELSE Answer(r, 403)
    /\ UNCHANGED <<vars, reqDay, seen, before>>

\* The upstream answered: recordUsage starts a recorder unless the usage is zero.
UpstreamAnswers(r) ==
    /\ reqPc[r] = "upstream"
    /\ IF Cost[r] = 0 THEN UNCHANGED vars ELSE recordUsage(r)
    /\ Answer(r, 200)
    /\ UNCHANGED <<reqDay, seen, before>>

\* The upstream call failed: nothing is recorded; a stream has sent its 200 already.
UpstreamFails(r) ==
    /\ reqPc[r] = "upstream"
    /\ \E code \in {200, 502} : Answer(r, code)
    /\ UNCHANGED <<vars, reqDay, seen, before>>

\* The process dies: open requests are never answered.
HandlersDie ==
    /\ reqPc' = [s \in Response |-> IF s \in Open /\ reqPc[s] # "done" THEN "died" ELSE reqPc[s]]
    /\ UNCHANGED <<status, reqDay, seen, before>>

\* A stream without usage: EstimateTokens and CountTokens call each other until
\* the stack overflows, which ends the process and every handler in it.
EstimateStreamUsage(r) ==
    /\ reqPc[r] = "upstream"
    /\ Crash /\ HandlersDie

Handler(r) == ReadUsage(r) \/ AdmitOrDeny(r) \/ UpstreamAnswers(r) \/ UpstreamFails(r)
              \/ EstimateStreamUsage(r)

QuotaNext ==
    \/ \E r \in Response : Authenticate(r) \/ Handler(r)
    \/ \E r \in Response : Recorder(r) /\ UNCHANGED reqVars
    \/ \E p \in Run : Reprocess(p) /\ UNCHANGED reqVars
    \/ Crash /\ HandlersDie
    \/ (Midnight \/ DbDown \/ DbUp) /\ UNCHANGED reqVars

QuotaSpec == QuotaInit /\ [][QuotaNext]_allVars
-------------------------------------------------------------------------------
(* Properties.                                                             *)

Consumed(set) == SumFunctionOnSet(Cost, set)

\* A request goes upstream only if what its tenant had really consumed that day,
\* plus the estimate, fits the quota.
AdmittedWithinQuota ==
    \A r \in Response :
        reqPc[r] = "upstream" =>
            Consumed(before[r]) + estimatedTokens(r) <= QuotaDaily[TenantOf[r]]

MaxCost == Max({Cost[r] : r \in Response})
MinEstimate == Min({estimatedTokens(r) : r \in Response})

\* What recorders have booked for the model whose row the check reads, a dead letter's
\* response left out: replays book those, on whatever day they run.
CheckedTokens(t, day) ==
    LET checked == rows[Min(DayRows(t, day))].key
    IN {s \in Response : /\ pc[s] # "dead"
                         /\ \E i \in Matching(rows, checked) : rows[i].added[s] > 0}

\* The pre-flight check is best effort.  With MaxOpen requests open at once, the model
\* whose row it reads passes the tenant's quota by no more than the requests the check
\* did not see yet, and those whose recorders insert rows beside that one; outages,
\* replays of dead letters, restarts and midnights between any two steps included.
OvershootBounded ==
    \A t \in Tenant, day \in 0 .. MaxDay :
        DayRows(t, day) # {} /\ CheckedTokens(t, day) # {} =>
            Consumed(CheckedTokens(t, day))
              <= QuotaDaily[t] - MinEstimate + (2 * MaxOpen - 1) * MaxCost
===============================================================================
