------------------------------ MODULE AgentLoop ------------------------------
(***************************************************************************)
(* The loop between the model and the tools: AgentLoop.run of              *)
(* odbench_outer/agent.py.                                                 *)
(*                                                                         *)
(* One step is what happens between two exchanges with the outside: a      *)
(* model request and the handling of its answer, one tool call, one entry  *)
(* of the log that is fsynced.  KeyboardInterrupt and unexpected           *)
(* exceptions may arrive between any two of them, and inside a tool call   *)
(* after it has taken effect.                                              *)
(*                                                                         *)
(*   at         control point                                              *)
(*   turns, failures, tokens, cost, status, auto                           *)
(*              the locals turns, consecutive_model_failures,              *)
(*              total_tokens, total_cost, status, automatic_submission     *)
(*   owed       tool calls in `messages` that have no tool message yet     *)
(*   best, submitted                                                       *)
(*              the tool runtime has a best candidate, has submitted       *)
(*              (should_stop is set together with submitted)               *)
(*   summary    summary.json has been written                              *)
(*   asked      history: calls of client.complete; past Ceiling the count  *)
(*              only alternates, so that every call is a change of state   *)
(***************************************************************************)
EXTENDS Integers

CONSTANTS
    max_turns, max_model_retries, max_total_tokens, max_cost,
    MaxUse,     \* bound: tokens, and cost, of one response
    MaxCalls,   \* bound: tool calls in one response
    Faults

NoLimit == -1   \* None
FaultKinds == {"interrupt", "raise", "final"}

ASSUME AgentLoopAssumption ==
    /\ max_turns \in Nat
    /\ max_model_retries \in Nat
    /\ max_total_tokens \in Nat \cup {NoLimit}
    /\ max_cost \in Nat \cup {NoLimit}
    /\ MaxUse \in Nat
    /\ MaxCalls \in Nat
    /\ Faults \subseteq FaultKinds

VARIABLES
    at, turns, failures, tokens, cost, status, auto, owed,
    best, submitted, summary, asked

spending == <<turns, tokens, cost, asked>>
runtime  == <<best, submitted>>
vars     == <<at, spending, failures, status, auto, owed, runtime, summary>>

-----------------------------------------------------------------------------
Limits   == {"max_turns_exhausted", "token_budget_exhausted",
             "cost_budget_exhausted", "finished_without_submission",
             "model_interaction_failed"}
Statuses == Limits \cup {"completed", "submitted", "interrupted",
                         "auto_submitted_best"}
InLoop   == {"request", "refuse", "tool", "record"}
Over     == {"done", "raised"}

Ceiling  == max_turns * (max_model_retries + 1)

Init ==
    /\ at = "request" /\ status = "max_turns_exhausted"
    /\ turns = 0 /\ failures = 0 /\ tokens = 0 /\ cost = 0 /\ asked = 0
    /\ owed = 0
    /\ auto = FALSE /\ best = FALSE /\ submitted = FALSE /\ summary = FALSE

-----------------------------------------------------------------------------
\* The loop is left with status s.
Leave(s) == at' = "auto" /\ status' = s

\* Variant: a failure is never counted.
RetryForever == at' = "request" /\ UNCHANGED <<failures, status>>

\* retry_model: the failure is counted, and one too many ends the loop.
Retry ==
    /\ failures' = failures + 1
    /\ \/ failures < max_model_retries
          /\ at' = "request" /\ UNCHANGED status
       \/ failures >= max_model_retries
          /\ Leave("model_interaction_failed")

Exceeds(used, limit) == limit # NoLimit /\ used > limit

OverTokens == Exceeds(tokens, max_total_tokens)
OverCost   == Exceeds(cost, max_cost)

Request ==
    /\ at = "request"
    /\ turns < max_turns
    /\ asked' = IF asked <= Ceiling + 1 THEN asked + 1 ELSE asked - 1

\* A response arrived and its usage is added to the totals.
Answered ==
    /\ Request
    /\ turns' = turns + 1
    /\ tokens' \in tokens .. tokens + MaxUse
    /\ cost' \in cost .. cost + MaxUse
    /\ UNCHANGED <<auto, runtime, summary>>

\* Variant: budgets are looked at before the response is charged.
AffordableBefore == Answered /\ ~OverTokens /\ ~OverCost

Affordable == Answered /\ ~OverTokens' /\ ~OverCost'

-----------------------------------------------------------------------------
\* while turns < max_turns.
TurnsExhausted ==
    /\ at = "request"
    /\ turns >= max_turns
    /\ at' = "auto"
    /\ UNCHANGED <<spending, failures, status, auto, owed, runtime, summary>>

\* ModelAPIError: no turn is used.
RequestFails ==
    /\ Request
    /\ Retry
    /\ UNCHANGED <<turns, tokens, cost, auto, owed, runtime, summary>>

\* The response that exceeds a budget is the last one, whatever it asks for.
BudgetExhausted ==
    /\ Answered
    /\ \/ OverTokens' /\ Leave("token_budget_exhausted")
       \/ ~OverTokens' /\ OverCost' /\ Leave("cost_budget_exhausted")
    /\ owed' \in 0 .. MaxCalls
    /\ UNCHANGED failures

\* InvalidModelResponse: the response is not kept in messages.
Invalid ==
    /\ Affordable
    /\ Retry
    /\ UNCHANGED owed

FinalMessage ==
    /\ Affordable
    /\ failures' = 0
    /\ Leave(IF submitted THEN "completed" ELSE "finished_without_submission")
    /\ UNCHANGED owed

\* Several tool calls in one response: each of them is answered by an error.
Parallel ==
    /\ Affordable
    /\ \E n \in 2 .. MaxCalls : owed' = owed + n
    /\ at' = "refuse"
    /\ UNCHANGED <<failures, status>>

\* Variant: only the first of them is answered.
RefuseFirst ==
    /\ at = "refuse"
    /\ owed' = owed - 1
    /\ Retry
    /\ UNCHANGED <<spending, auto, runtime, summary>>

Refuse ==
    /\ at = "refuse"
    /\ \/ /\ owed > 0
          /\ owed' = owed - 1
          /\ UNCHANGED <<at, failures, status>>
       \/ /\ owed = 0
          /\ Retry
          /\ UNCHANGED owed
    /\ UNCHANGED <<spending, auto, runtime, summary>>

Call ==
    /\ Affordable
    /\ owed' = owed + 1
    /\ failures' = 0
    /\ at' = "tool"
    /\ UNCHANGED status

\* What a tool call may do to the runtime, also when it reports an error.
Effect == best' \in {best, TRUE} /\ submitted' \in {submitted, TRUE}

Invoke ==
    /\ at = "tool"
    /\ Effect
    /\ at' = "record"
    /\ UNCHANGED <<spending, failures, status, auto, owed, summary>>

Record ==
    /\ at = "record"
    /\ owed' = owed - 1
    /\ \/ submitted /\ Leave("submitted")
       \/ ~submitted /\ at' = "request" /\ UNCHANGED status
    /\ UNCHANGED <<spending, failures, auto, runtime, summary>>

-----------------------------------------------------------------------------
\* KeyboardInterrupt and other exceptions inside the loop.
Unwound == IF at = "tool" THEN Effect ELSE UNCHANGED runtime

Interrupt ==
    /\ "interrupt" \in Faults
    /\ at \in InLoop
    /\ Unwound
    /\ Leave("interrupted")
    /\ UNCHANGED <<spending, failures, auto, owed, summary>>

LocalError ==
    /\ "raise" \in Faults
    /\ at \in InLoop
    /\ Unwound
    /\ at' = "raised"
    /\ UNCHANGED <<spending, failures, status, auto, owed, summary>>

-----------------------------------------------------------------------------
\* Variant: a model that cannot be talked to forfeits the best candidate.
EligibleIfAnswering ==
    ~submitted /\ status \in Limits \ {"model_interaction_failed"}

\* The best candidate is submitted for a run that reached one of its limits.
Eligible == ~submitted /\ status \in Limits

AutoSubmit ==
    /\ at = "auto"
    /\ Eligible /\ best
    /\ at' = "finish"
    /\ submitted' = TRUE /\ auto' = TRUE /\ status' = "auto_submitted_best"
    /\ UNCHANGED <<spending, failures, owed, best, summary>>

\* submit_best_candidate returns None, or is not called.
NoAutoSubmit ==
    /\ at = "auto"
    /\ ~(Eligible /\ best)
    /\ at' = "finish"
    /\ UNCHANGED <<spending, failures, status, auto, owed, runtime, summary>>

\* The hardware verification or the evaluation of the submission fails, or the
\* user interrupts it: nothing handles that here.
AutoSubmitFails ==
    /\ "final" \in Faults
    /\ at = "auto"
    /\ Eligible /\ best
    /\ submitted' \in BOOLEAN
    /\ at' = "raised"
    /\ UNCHANGED <<spending, failures, status, auto, owed, best, summary>>

\* run_finished and summary.json.
Finish ==
    /\ at = "finish"
    /\ at' = "done"
    /\ summary' = TRUE
    /\ UNCHANGED <<spending, failures, status, auto, owed, runtime>>

-----------------------------------------------------------------------------
Advance ==
    \/ TurnsExhausted \/ RequestFails \/ BudgetExhausted \/ Invalid
    \/ FinalMessage \/ Parallel \/ Refuse \/ Call \/ Invoke \/ Record
    \/ AutoSubmit \/ NoAutoSubmit \/ Finish

Next == Advance \/ Interrupt \/ LocalError \/ AutoSubmitFails

Spec == Init /\ [][Next]_vars

\* Every request and every trusted command has a timeout: each exchange ends.
FairSpec == Spec /\ WF_vars(Advance)

-----------------------------------------------------------------------------
(* Properties.                                                             *)

\* Every variable stays in its range.
TypeOK ==
    /\ at \in InLoop \cup Over \cup {"auto", "finish"}
    /\ turns \in 0 .. max_turns
    /\ failures \in 0 .. max_model_retries + 1
    /\ tokens \in Nat /\ cost \in Nat /\ asked \in Nat /\ owed \in Nat
    /\ status \in Statuses
    /\ auto \in BOOLEAN /\ best \in BOOLEAN
    /\ submitted \in BOOLEAN /\ summary \in BOOLEAN

\* A run sends a bounded number of model requests, although a failed request
\* uses no turn and a valid call resets the failure counter.
RequestsBounded == asked <= Ceiling

\* Whenever the model is asked, every tool call in the conversation has been
\* answered, also the parallel ones that are refused.
RequestsPaired == at = "request" => owed = 0

\* The model is asked a bounded number of times, and only in a conversation it
\* accepts.
RequestsInOrder == RequestsBounded /\ RequestsPaired

\* Past a token or cost budget there is neither another request nor a tool call.
BudgetStops == OverTokens \/ OverCost => at \notin InLoop

\* Once submitted the model is not asked again; in particular the status
\* "completed" is never reached.
SubmittedStops == submitted => at # "request" /\ status # "completed"

\* What ends a run ends it at once.
StopsAtOnce == BudgetStops /\ SubmittedStops

\* A run that returns by itself and had an accepted candidate has submitted, by
\* the model's choice or by the automatic submission, and its status says which.
BestIsSubmitted ==
    at = "done" =>
        /\ best /\ status # "interrupted" => submitted
        /\ status = "submitted" => submitted /\ ~auto
        /\ status = "auto_submitted_best" <=> auto

\* Whatever the model answers, the run ends.
Terminates == <>(at \in Over)
==============================================================================
