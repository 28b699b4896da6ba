--------------------------- MODULE AgentLoopProofs ---------------------------
(* Theorems about AgentLoop, for all limits and fault sets.                *)
EXTENDS AgentLoop, TLAPS

\* The budget of requests: every response pays for one failure-free round of
\* max_model_retries + 1 requests, and every failure for one more.
Counted ==
    /\ asked <= Ceiling
    /\ asked <= turns * (max_model_retries + 1) + failures
    /\ at \in InLoop => failures <= max_model_retries

\* Tool calls that are still to be answered, by control point.
Paired ==
    /\ at = "request" => owed = 0
    /\ at \in {"tool", "record"} => owed = 1

\* What the status says of the submission.
Told ==
    /\ at \in {"request", "refuse", "tool"} => ~submitted
    /\ at \in InLoop => status = "max_turns_exhausted"
    /\ status # "completed"
    /\ status = "submitted" => submitted
    /\ status = "auto_submitted_best" <=> auto
    /\ at = "auto" => ~auto
    /\ at \in {"finish", "done"} /\ best /\ status # "interrupted" => submitted

IInv == TypeOK /\ Counted /\ Paired /\ Told /\ BudgetStops

USE AgentLoopAssumption
-----------------------------------------------------------------------------
\* Multiplication by a natural number is monotone.
LEMMA Monotone ==
    ASSUME NEW a \in Nat, NEW b \in Nat, NEW k \in Nat, a <= b
    PROVE  a * k <= b * k
<1>1. PICK d \in Nat : b = a + d
  <2>1. b - a \in Nat /\ b = a + (b - a)  OBVIOUS
  <2> QED  BY <2>1
<1>2. b * k = a * k + d * k  BY <1>1
<1>3. d * k >= 0  OBVIOUS
<1>4. a * k \in Nat /\ d * k \in Nat  OBVIOUS
<1> QED  BY <1>2, <1>3, <1>4

\* The product of two natural numbers is one.
LEMMA ProductNat == ASSUME NEW a \in Nat, NEW k \in Nat PROVE a * k \in Nat
  OBVIOUS

\* A request that is still allowed is within the bound, and a response pays
\* for it.
LEMMA RequestCounted ==
    ASSUME TypeOK, Counted, Request
    PROVE  /\ asked' \in Nat
           /\ asked' <= Ceiling
           /\ asked' <= turns * (max_model_retries + 1) + failures + 1
           /\ asked' <= (turns + 1) * (max_model_retries + 1)
<1> DEFINE K == max_model_retries + 1
<1>0. /\ turns \in Nat /\ max_turns \in Nat /\ asked \in Nat
      /\ failures \in Nat /\ K \in Nat /\ turns + 1 \in Nat
      /\ turns + 1 <= max_turns /\ asked' = asked + 1
      /\ failures + 1 <= K
      /\ asked <= turns * K + failures
  BY DEF TypeOK, Counted, Request, InLoop, Over, Ceiling
<1>1. (turns + 1) * K <= max_turns * K
  <2> HIDE DEF K
  <2> QED  BY Monotone, <1>0
<1>2. (turns + 1) * K = turns * K + K  BY <1>0
<1>3. turns * K \in Nat /\ max_turns * K \in Nat  BY <1>0
<1>4. asked' <= (turns + 1) * K
  <2> HIDE DEF K
  <2> QED  BY <1>0, <1>2, <1>3
<1>5. asked' <= max_turns * K
  <2> HIDE DEF K
  <2> QED  BY <1>0, <1>1, <1>2, <1>3
<1>6. asked' <= turns * K + failures + 1
  <2> HIDE DEF K
  <2> QED  BY <1>0, <1>3
<1> QED  BY <1>0, <1>4, <1>5, <1>6 DEF Ceiling

\* retry_model keeps the counter within the retry limit while the loop runs.
LEMMA RetryCounted ==
    ASSUME TypeOK, Retry, failures <= max_model_retries
    PROVE  /\ failures' = failures + 1
           /\ failures' \in 0 .. max_model_retries + 1
           /\ \/ /\ at' = "request" /\ status' = status
                 /\ failures' <= max_model_retries
              \/ at' = "auto" /\ status' = "model_interaction_failed"
BY DEF TypeOK, Retry, Leave

\* What an accounted response does to the totals.
LEMMA AnsweredCounted ==
    ASSUME TypeOK, Counted, Answered
    PROVE  /\ turns' \in 0 .. max_turns /\ turns' = turns + 1
           /\ tokens' \in Nat /\ cost' \in Nat /\ asked' \in Nat
           /\ asked' <= Ceiling
           /\ asked' <= turns' * (max_model_retries + 1)
           /\ at = "request" /\ failures <= max_model_retries
           /\ UNCHANGED <<auto, best, submitted, summary>>
<1>1. Request  BY DEF Answered
<1>2. turns' = turns + 1 /\ UNCHANGED <<auto, best, submitted, summary>>
  BY DEF Answered, runtime
<1>3. tokens' \in Nat /\ cost' \in Nat
  BY DEF Answered, TypeOK
<1>4. turns' \in 0 .. max_turns
  BY <1>1, <1>2 DEF Request, TypeOK
<1>5. at = "request" /\ failures <= max_model_retries
  BY <1>1 DEF Request, Counted, InLoop
<1> QED  BY <1>1, <1>2, <1>3, <1>4, <1>5, RequestCounted

-----------------------------------------------------------------------------
\* The initial state satisfies the invariant.
LEMMA InitIInv == ASSUME Init PROVE IInv
<1>1. TypeOK
  <2>1. auto \in BOOLEAN /\ best \in BOOLEAN /\ submitted \in BOOLEAN
        /\ summary \in BOOLEAN
    BY DEF Init
  <2>2. turns \in 0 .. max_turns /\ failures \in 0 .. max_model_retries + 1
    BY DEF Init
  <2> QED  BY <2>1, <2>2 DEF Init, TypeOK, InLoop, Limits, Statuses
<1>2. Counted
  <2>1. max_turns * (max_model_retries + 1) >= 0  OBVIOUS
  <2>2. 0 * (max_model_retries + 1) = 0  OBVIOUS
  <2> QED  BY <2>1, <2>2 DEF Init, Counted, Ceiling
<1>3. Paired /\ Told  BY DEF Init, Paired, Told
<1>4. BudgetStops
  BY DEF Init, BudgetStops, OverTokens, OverCost, Exceeds, NoLimit
<1> QED  BY <1>1, <1>2, <1>3, <1>4 DEF IInv

-----------------------------------------------------------------------------
(* The steps that ask the model.                                           *)

\* A failed request preserves the invariant.
LEMMA RequestFailsIInv == ASSUME IInv, RequestFails PROVE IInv'
<1> USE DEF IInv
<1>1. /\ Request /\ Retry /\ at = "request" /\ failures <= max_model_retries
      /\ UNCHANGED <<turns, tokens, cost, auto, owed, best, submitted, summary>>
  BY DEF RequestFails, Request, Counted, InLoop, runtime
<1>2. PICK f \in 0 .. max_model_retries + 1 :
         /\ failures' = f /\ f = failures + 1
         /\ \/ at' = "request" /\ status' = status /\ f <= max_model_retries
            \/ at' = "auto" /\ status' = "model_interaction_failed"
  BY <1>1, RetryCounted
<1>3. TypeOK'
  BY <1>1, <1>2, RequestCounted DEF TypeOK, InLoop, Statuses, Limits
<1>4. Counted'
  <2>1. asked' <= Ceiling
        /\ asked' <= turns * (max_model_retries + 1) + failures + 1
    BY <1>1, RequestCounted
  <2>2. turns * (max_model_retries + 1) \in Nat  BY DEF TypeOK
  <2>3. asked' <= turns' * (max_model_retries + 1) + failures'
    BY <1>1, <1>2, <2>1, <2>2, RequestCounted DEF TypeOK
  <2>4. at' \in InLoop => failures' <= max_model_retries
    BY <1>2 DEF InLoop
  <2> QED  BY <2>1, <2>3, <2>4 DEF Counted, Ceiling
<1>5. Paired' /\ Told'
  BY <1>1, <1>2 DEF Paired, Told, InLoop
<1>6. BudgetStops'
  BY <1>1 DEF BudgetStops, OverTokens, OverCost, InLoop
<1> QED  BY <1>3, <1>4, <1>5, <1>6

\* The actions that handle a response: what each does to the other variables.
LEMMA ResponseCases ==
    ASSUME IInv, BudgetExhausted \/ Invalid \/ FinalMessage \/ Parallel \/ Call
    PROVE  /\ Answered
           /\ owed' \in Nat
           /\ failures' \in 0 .. max_model_retries + 1
           /\ failures' >= 0
           /\ \/ at' = "auto" /\ status' \in Limits
              \/ at' = "request" /\ owed' = 0 /\ status' = status
                 /\ failures' <= max_model_retries
              \/ at' = "refuse" /\ status' = status
                 /\ failures' <= max_model_retries
              \/ at' = "tool" /\ owed' = 1 /\ status' = status
                 /\ failures' <= max_model_retries
           /\ OverTokens' \/ OverCost' => at' = "auto"
<1> USE DEF IInv
<1>0. Answered  BY DEF BudgetExhausted, Invalid, FinalMessage, Parallel, Call, Affordable
<1>1. /\ at = "request" /\ failures <= max_model_retries /\ owed = 0
      /\ failures \in Nat /\ ~submitted
  BY <1>0, AnsweredCounted DEF Paired, Told, TypeOK
<1>2. CASE BudgetExhausted
  <2>1. at' = "auto" /\ status' \in Limits /\ failures' = failures
        /\ owed' \in 0 .. MaxCalls
    BY <1>2 DEF BudgetExhausted, Leave, Limits
  <2> QED  BY <1>0, <1>1, <2>1
<1>3. CASE Invalid
  <2>1. Retry /\ owed' = owed /\ ~OverTokens' /\ ~OverCost'
    BY <1>3 DEF Invalid, Affordable
  <2>2. \/ /\ at' = "request" /\ status' = status
           /\ failures' <= max_model_retries
        \/ at' = "auto" /\ status' \in Limits
    BY <1>1, <2>1, RetryCounted DEF Limits
  <2>3. failures' \in 0 .. max_model_retries + 1
    BY <1>1, <2>1, RetryCounted
  <2> QED  BY <1>0, <1>1, <2>1, <2>2, <2>3
<1>4. CASE FinalMessage
  <2>1. /\ at' = "auto" /\ status' = "finished_without_submission"
        /\ failures' = 0 /\ owed' = owed
    BY <1>1, <1>4 DEF FinalMessage, Leave
  <2> QED  BY <1>0, <1>1, <2>1 DEF Limits
<1>5. CASE Parallel
  <2>1. PICK n \in 2 .. MaxCalls : owed' = owed + n  BY <1>5 DEF Parallel
  <2>2. owed' \in Nat  BY <1>1, <2>1
  <2>3. /\ at' = "refuse" /\ status' = status /\ failures' = failures
        /\ ~OverTokens' /\ ~OverCost'
    BY <1>5 DEF Parallel, Affordable
  <2> QED  BY <1>0, <1>1, <2>2, <2>3
<1>6. CASE Call
  <2>1. /\ at' = "tool" /\ status' = status /\ failures' = 0 /\ owed' = 1
        /\ ~OverTokens' /\ ~OverCost'
    BY <1>1, <1>6 DEF Call, Affordable
  <2> QED  BY <1>0, <1>1, <2>1
<1> QED  BY <1>2, <1>3, <1>4, <1>5, <1>6

\* A handled response preserves the invariant.
LEMMA ResponseIInv ==
    ASSUME IInv, BudgetExhausted \/ Invalid \/ FinalMessage \/ Parallel \/ Call
    PROVE  IInv'
<1> USE DEF IInv
<1>1. PICK f \in 0 .. max_model_retries + 1 : failures' = f  BY ResponseCases
<1>2. Answered  BY ResponseCases
<1>3. /\ turns' \in 0 .. max_turns
      /\ tokens' \in Nat /\ cost' \in Nat /\ asked' \in Nat
      /\ asked' <= Ceiling
      /\ asked' <= turns' * (max_model_retries + 1)
      /\ at = "request"
      /\ auto' = auto /\ best' = best /\ submitted' = submitted
      /\ summary' = summary
  BY <1>2, AnsweredCounted
<1>4. ~submitted' /\ ~auto' /\ status = "max_turns_exhausted"
  BY <1>3 DEF Told, InLoop
<1>5. TypeOK'
  <2>1. at' \in InLoop \cup Over \cup {"auto", "finish"} /\ status' \in Statuses
    BY ResponseCases DEF TypeOK, Statuses, InLoop
  <2>2. auto' \in BOOLEAN /\ best' \in BOOLEAN /\ submitted' \in BOOLEAN
        /\ summary' \in BOOLEAN
    BY <1>3 DEF TypeOK
  <2>3. owed' \in Nat  BY ResponseCases
  <2> QED  BY <1>1, <1>3, <2>1, <2>2, <2>3 DEF TypeOK
<1>6. Counted'
  <2>1. PICK p \in Nat : turns' * (max_model_retries + 1) = p
    <3>1. turns' \in Nat /\ max_model_retries + 1 \in Nat  BY <1>3
    <3> QED  BY <3>1, ProductNat
  <2>2. asked' <= turns' * (max_model_retries + 1) + failures'
    <3>1. asked' <= p  BY <1>3, <2>1
    <3>2. asked' <= p + f  BY <1>1, <1>3, <3>1
    <3> QED  BY <1>1, <2>1, <3>2
  <2>3. at' \in InLoop => failures' <= max_model_retries
    BY ResponseCases DEF InLoop
  <2> QED  BY <1>3, <2>2, <2>3 DEF Counted, Ceiling
<1>7. Paired'  BY ResponseCases DEF Paired
<1>8. Told'
  BY <1>4, ResponseCases DEF Told, InLoop, Limits
<1>9. BudgetStops'  BY ResponseCases DEF BudgetStops, InLoop
<1> QED  BY <1>5, <1>6, <1>7, <1>8, <1>9

-----------------------------------------------------------------------------
(* The steps that leave the request counters alone.                        *)

\* Without a request, only the control point and the failures matter.
LEMMA CountedKept ==
    ASSUME TypeOK, Counted, turns' = turns, asked' = asked,
           failures' \in Nat, failures' >= failures,
           at' \in InLoop => failures' <= max_model_retries
    PROVE  Counted'
<1>1. PICK p \in Nat : turns * (max_model_retries + 1) = p
  <2>1. turns \in Nat /\ max_model_retries + 1 \in Nat  BY DEF TypeOK
  <2> QED  BY <2>1, ProductNat
<1>2. asked <= p + failures /\ asked <= Ceiling  BY <1>1 DEF Counted
<1>3. asked <= p + failures'
  <2> DEFINE f == failures'
  <2>1. f \in Nat /\ f >= failures  OBVIOUS
  <2> HIDE DEF f
  <2>2. asked <= p + f  BY <1>2, <2>1 DEF TypeOK
  <2> QED  BY <2>2 DEF f
<1>4. asked' <= turns' * (max_model_retries + 1) + failures'  BY <1>1, <1>3
<1> QED  BY <1>2, <1>4 DEF Counted, Ceiling

\* A refused call is answered, or the last one was and a retry is asked for.
LEMMA RefuseIInv == ASSUME IInv, Refuse PROVE IInv'
<1> USE DEF IInv
<1>1. /\ at = "refuse" /\ failures <= max_model_retries /\ ~submitted /\ ~auto
      /\ status = "max_turns_exhausted"
      /\ UNCHANGED <<turns, tokens, cost, asked, auto, best, submitted, summary>>
  BY DEF Refuse, Counted, Told, InLoop, spending, runtime
<1>2. PICK f \in 0 .. max_model_retries + 1 :
         /\ failures' = f /\ f >= failures
         /\ \/ at' = "refuse" /\ f <= max_model_retries /\ status' = status
            \/ at' = "request" /\ f <= max_model_retries /\ status' = status
               /\ owed' = 0
            \/ at' = "auto" /\ status' = "model_interaction_failed"
  <2>1. CASE Retry /\ owed = 0 /\ owed' = owed
    <3>1. failures' \in 0 .. max_model_retries + 1 /\ failures' = failures + 1
      BY <1>1, <2>1, RetryCounted
    <3>2. failures' >= failures  BY <3>1 DEF TypeOK
    <3> QED  BY <1>1, <2>1, <3>1, <3>2, RetryCounted
  <2>2. CASE UNCHANGED <<at, failures, status>>
    BY <1>1, <2>2 DEF TypeOK
  <2> QED  BY <2>1, <2>2 DEF Refuse
<1>3. TypeOK'
  <2>1. owed' \in Nat  BY DEF Refuse, TypeOK
  <2>2. auto' \in BOOLEAN /\ best' \in BOOLEAN /\ submitted' \in BOOLEAN
        /\ summary' \in BOOLEAN
    BY <1>1 DEF TypeOK
  <2>3. at' \in InLoop \cup Over \cup {"auto", "finish"} /\ status' \in Statuses
    BY <1>1, <1>2 DEF InLoop, Statuses, Limits
  <2> QED  BY <1>1, <1>2, <2>1, <2>2, <2>3 DEF TypeOK
<1>4. Counted'  BY <1>1, <1>2, CountedKept DEF InLoop
<1>5. Paired'  BY <1>2 DEF Paired
<1>6. Told'  BY <1>1, <1>2 DEF Told, InLoop
<1>7. BudgetStops'
  BY <1>1 DEF BudgetStops, OverTokens, OverCost, InLoop
<1> QED  BY <1>3, <1>4, <1>5, <1>6, <1>7

\* A tool call takes effect, and its result is recorded.
LEMMA ToolIInv == ASSUME IInv, Invoke \/ Record PROVE IInv'
<1> USE DEF IInv
<1>1. /\ at \in {"tool", "record"} /\ owed = 1 /\ ~auto
      /\ status = "max_turns_exhausted"
      /\ UNCHANGED <<turns, tokens, cost, asked, failures, auto, summary>>
  BY DEF Invoke, Record, Paired, Told, InLoop, spending
<1>2. /\ at' \in {"record", "request", "auto"}
      /\ status' \in {"max_turns_exhausted", "submitted"}
      /\ at' = "auto" \/ status' = status
      /\ at' = "request" => ~submitted' /\ owed' = 0 /\ at = "record"
      /\ at' = "record" => owed' = 1
      /\ status' = "submitted" => submitted'
      /\ owed' \in {0, 1}
      /\ best' \in BOOLEAN /\ submitted' \in BOOLEAN
  <2>1. CASE Invoke
    BY <1>1, <2>1 DEF Invoke, Effect, TypeOK
  <2>2. CASE Record
    <3>1. owed' = 0  BY <1>1, <2>2 DEF Record
    <3>2. best' = best /\ submitted' = submitted  BY <2>2 DEF Record, runtime
    <3>3. \/ submitted /\ at' = "auto" /\ status' = "submitted"
          \/ ~submitted /\ at' = "request" /\ status' = status
      BY <2>2 DEF Record, Leave
    <3>4. at = "record"  BY <2>2 DEF Record
    <3> QED  BY <1>1, <3>1, <3>2, <3>3, <3>4 DEF TypeOK
  <2> QED  BY <2>1, <2>2
<1>3. TypeOK'
  BY <1>1, <1>2 DEF TypeOK, InLoop, Statuses, Limits
<1>4. Counted'
  <2>1. failures <= max_model_retries /\ failures \in Nat
    BY <1>1 DEF Counted, InLoop, TypeOK
  <2> QED  BY <1>1, <2>1, CountedKept
<1>5. Paired'  BY <1>2 DEF Paired
<1>6. Told'  BY <1>1, <1>2 DEF Told, InLoop
<1>7. BudgetStops'
  BY <1>1 DEF BudgetStops, OverTokens, OverCost, InLoop
<1> QED  BY <1>3, <1>4, <1>5, <1>6, <1>7

-----------------------------------------------------------------------------
(* Leaving the loop, and after it.                                         *)

\* The turns are used up.
LEMMA TurnsExhaustedIInv == ASSUME IInv, TurnsExhausted PROVE IInv'
<1> USE DEF IInv
<1>1. /\ at = "request" /\ at' = "auto"
      /\ UNCHANGED <<turns, tokens, cost, asked, failures, status, auto, owed,
                     best, submitted, summary>>
  BY DEF TurnsExhausted, spending, runtime
<1>2. TypeOK'  BY <1>1 DEF TypeOK
<1>3. Counted'  BY <1>1, CountedKept DEF TypeOK, InLoop
<1>4. Paired' /\ Told' /\ BudgetStops'
  BY <1>1 DEF Paired, Told, InLoop, BudgetStops
<1> QED  BY <1>2, <1>3, <1>4

\* An interrupt or an exception unwinds the loop.
LEMMA UnwindIInv == ASSUME IInv, Interrupt \/ LocalError PROVE IInv'
<1> USE DEF IInv
<1>1. /\ at \in InLoop /\ ~auto /\ status = "max_turns_exhausted"
      /\ UNCHANGED <<turns, tokens, cost, asked, failures, auto, owed, summary>>
      /\ \/ at' = "auto" /\ status' = "interrupted"
         \/ at' = "raised" /\ status' = status
  BY DEF Interrupt, LocalError, Leave, Told, spending
<1>2. best' \in BOOLEAN /\ submitted' \in BOOLEAN
  BY DEF Interrupt, LocalError, Unwound, Effect, TypeOK, runtime
<1>3. TypeOK'  BY <1>1, <1>2 DEF TypeOK, InLoop, Over, Statuses, Limits
<1>4. Counted'  BY <1>1, CountedKept DEF TypeOK, InLoop
<1>5. Paired' /\ BudgetStops'  BY <1>1 DEF Paired, BudgetStops, InLoop
<1>6. Told'  BY <1>1 DEF Told, InLoop
<1> QED  BY <1>3, <1>4, <1>5, <1>6

\* The automatic submission, and the end of the run.
LEMMA EndIInv ==
    ASSUME IInv, AutoSubmit \/ NoAutoSubmit \/ AutoSubmitFails \/ Finish
    PROVE  IInv'
<1> USE DEF IInv
<1>1. /\ at \in {"auto", "finish"} /\ at' \in {"finish", "done", "raised"}
      /\ UNCHANGED <<turns, tokens, cost, asked, failures, owed, best>>
  BY DEF AutoSubmit, NoAutoSubmit, AutoSubmitFails, Finish, spending, runtime
<1>2. /\ submitted' \in BOOLEAN /\ auto' \in BOOLEAN /\ summary' \in BOOLEAN
      /\ status' \in Statuses
  BY DEF AutoSubmit, NoAutoSubmit, AutoSubmitFails, Finish, TypeOK, Statuses,
         spending, runtime
<1>3. TypeOK'  BY <1>1, <1>2 DEF TypeOK, InLoop, Over
<1>4. Counted'  BY <1>1, CountedKept DEF TypeOK, InLoop
<1>5. Paired' /\ BudgetStops'  BY <1>1 DEF Paired, BudgetStops, InLoop
<1>6. Told'
  <2>1. CASE AutoSubmit
    BY <2>1 DEF AutoSubmit, Told, InLoop
  <2>2. CASE NoAutoSubmit
    <3>1. best /\ status # "interrupted" => submitted
      <4>1. best => submitted \/ status \notin Limits
        BY <2>2 DEF NoAutoSubmit, Eligible
      <4>2. /\ status # "completed" /\ (status = "submitted" => submitted)
            /\ status # "auto_submitted_best"
        BY <2>2 DEF NoAutoSubmit, Told
      <4> QED  BY <4>1, <4>2 DEF TypeOK, Statuses
    <3> QED  BY <2>2, <3>1 DEF NoAutoSubmit, Told, InLoop, runtime
  <2>3. CASE AutoSubmitFails
    <3>1. /\ at' = "raised" /\ status' = status /\ auto' = auto
          /\ status # "submitted"
      BY <2>3 DEF AutoSubmitFails, Eligible, Limits
    <3> QED  BY <3>1 DEF Told, InLoop
  <2>4. CASE Finish
    BY <2>4 DEF Finish, Told, InLoop, runtime
  <2> QED  BY <2>1, <2>2, <2>3, <2>4
<1> QED  BY <1>3, <1>4, <1>5, <1>6

\* Nothing happens.
LEMMA StutterIInv == ASSUME IInv, UNCHANGED vars PROVE IInv'
BY DEF IInv, vars, spending, runtime, TypeOK, Counted, Paired, Told, BudgetStops,
       OverTokens, OverCost

-----------------------------------------------------------------------------
\* The invariant holds in every reachable state.
THEOREM Invariance == Spec => []IInv
<1>1. Init => IInv  BY InitIInv
<1>2. IInv /\ [Next]_vars => IInv'
  <2> SUFFICES ASSUME IInv, [Next]_vars PROVE IInv'  OBVIOUS
  <2>1. CASE RequestFails  BY <2>1, RequestFailsIInv
  <2>2. CASE BudgetExhausted \/ Invalid \/ FinalMessage \/ Parallel \/ Call
    BY <2>2, ResponseIInv
  <2>3. CASE Refuse  BY <2>3, RefuseIInv
  <2>4. CASE Invoke \/ Record  BY <2>4, ToolIInv
  <2>5. CASE TurnsExhausted  BY <2>5, TurnsExhaustedIInv
  <2>6. CASE Interrupt \/ LocalError  BY <2>6, UnwindIInv
  <2>7. CASE AutoSubmit \/ NoAutoSubmit \/ AutoSubmitFails \/ Finish
    BY <2>7, EndIInv
  <2>8. CASE UNCHANGED vars  BY <2>8, StutterIInv
  <2> QED  BY <2>1, <2>2, <2>3, <2>4, <2>5, <2>6, <2>7, <2>8 DEF Next, Advance
<1> QED  BY <1>1, <1>2, PTL DEF Spec

\* Every variable of the loop stays in its range.
THEOREM TypeCorrect == Spec => []TypeOK
<1>1. IInv => TypeOK  BY DEF IInv
<1> QED  BY <1>1, Invariance, PTL

\* The run sends at most max_turns * (max_model_retries + 1) model requests.
THEOREM FiniteRequests == Spec => []RequestsBounded
<1>1. IInv => RequestsBounded  BY DEF IInv, Counted, RequestsBounded
<1> QED  BY <1>1, Invariance, PTL

\* No request is sent with an unanswered tool call in the conversation.
THEOREM CallsAnswered == Spec => []RequestsPaired
<1>1. IInv => RequestsPaired  BY DEF IInv, Paired, RequestsPaired
<1> QED  BY <1>1, Invariance, PTL

\* The first response past a token or cost budget ends the loop.
THEOREM SpendingEnds == Spec => []BudgetStops
<1>1. IInv => BudgetStops  BY DEF IInv
<1> QED  BY <1>1, Invariance, PTL

\* Once submitted, the model is not asked again.
THEOREM SubmissionEnds == Spec => []SubmittedStops
<1>1. IInv => SubmittedStops  BY DEF IInv, Told, SubmittedStops
<1> QED  BY <1>1, Invariance, PTL

\* The model is asked a bounded number of times, with every call answered.
THEOREM AskedInOrder == Spec => []RequestsInOrder
<1>1. RequestsInOrder <=> RequestsBounded /\ RequestsPaired  BY DEF RequestsInOrder
<1> QED  BY <1>1, FiniteRequests, CallsAnswered, PTL

\* A budget that is exhausted and an accepted submission end the run at once.
THEOREM EndsAtOnce == Spec => []StopsAtOnce
<1>1. StopsAtOnce <=> BudgetStops /\ SubmittedStops  BY DEF StopsAtOnce
<1> QED  BY <1>1, SpendingEnds, SubmissionEnds, PTL

\* A run that returned, was not interrupted and had a candidate has submitted.
THEOREM CandidateSubmitted == Spec => []BestIsSubmitted
<1>1. IInv => BestIsSubmitted  BY DEF IInv, Told, BestIsSubmitted
<1> QED  BY <1>1, Invariance, PTL
==============================================================================
