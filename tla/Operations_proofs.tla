--------------------------- MODULE Operations_proofs ---------------------------
(***************************************************************************)
(* Proofs about the operations.  Of Notifications, for any lists of        *)
(* channels, and of Workflow, for any workflows, that what the result of   *)
(* a notification and the record of an execution say can be relied on; of  *)
(* RateLimiter, for any finite set of requests, that a minute admits no    *)
(* more than its limit.  Last, that the parts side by side are still the   *)
(* parts, so that what is proved of each holds of the operations.          *)
(***************************************************************************)
EXTENDS Operations, Analyses_proofs

------------------------------------------------------------------------------
(* Notifications. *)

\* Only a channel of the list is being sent to, and nothing has left for it before.
NotYetSent ==
    /\ sending => current <= Len(channels)
    /\ ~sending => current \notin delivered \cup inFlight

NotificationsInv == NotificationsTypeOK /\ ResultsTellWhatIsSafe /\ NotYetSent

\* What Report does to the list of results.
LEMMA ReportFacts ==
    ASSUME NotificationsInv, current <= Len(channels),
           NEW result \in {"sent", "refused", "error"}, Report(result)
    PROVE  /\ channels' = channels /\ sending' = FALSE /\ current' = current + 1
           /\ current' \in 1 .. Len(channels) + 1
           /\ report' \in Seq({"sent", "refused", "error"})
           /\ Len(report') = current' - 1
           /\ DOMAIN report' = DOMAIN report \cup {current}
           /\ report'[current] = result
           /\ \A i \in DOMAIN report : report'[i] = report[i]
  <1>1. channels \in Seq(Channels) /\ Len(channels) \in Nat
    BY NotificationsAssumption DEF NotificationsInv, NotificationsTypeOK
  <1>2. /\ report \in Seq({"sent", "refused", "error"}) /\ current \in 1 .. Len(channels) + 1
        /\ Len(report) = current - 1
    BY DEF NotificationsInv, NotificationsTypeOK, ResultsTellWhatIsSafe
  <1>3. report' = Append(report, result) /\ sending' = FALSE /\ current' = current + 1 /\ channels' = channels
    BY DEF Report
  <1>4. /\ report' \in Seq({"sent", "refused", "error"}) /\ Len(report') = current
        /\ report'[current] = result /\ \A i \in 1 .. Len(report) : report'[i] = report[i]
    BY <1>1, <1>2, <1>3
  <1>5. DOMAIN report = 1 .. current - 1 /\ DOMAIN report' = 1 .. current
    BY <1>1, <1>2, <1>4
  <1> QED
    BY <1>1, <1>2, <1>3, <1>4, <1>5

\* A result for the channel at hand, the network being left alone.
LEMMA ReportKeepsInv ==
    ASSUME NotificationsInv, current <= Len(channels),
           NEW result \in {"sent", "refused", "error"}, Report(result),
           UNCHANGED <<inFlight, delivered>>,
           result = "sent" => current \in delivered,
           result = "error" => current \notin delivered \cup inFlight
    PROVE  NotificationsInv'
  <1>1. Len(channels) \in Nat /\ DOMAIN channels = 1 .. Len(channels)
    BY NotificationsAssumption DEF NotificationsInv, NotificationsTypeOK
  <1>0. current' = current + 1 /\ sending' = FALSE /\ channels' = channels
    BY DEF Report
  <1>2. current \in Nat /\ current < current' /\ inFlight' = inFlight /\ delivered' = delivered
    BY <1>0, <1>1 DEF NotificationsInv, NotificationsTypeOK
  <1>3. NotificationsTypeOK'
    BY <1>2, ReportFacts DEF NotificationsInv, NotificationsTypeOK
  <1>4. \A i \in delivered \cup inFlight : i \in Nat /\ i <= current
    BY <1>1 DEF NotificationsInv, NotificationsTypeOK, ResultsTellWhatIsSafe
  <1>5. ResultsTellWhatIsSafe'
    <2>1. ASSUME NEW i \in DOMAIN report'
          PROVE  /\ report'[i] = "sent" => i \in delivered
                 /\ report'[i] = "error" => i \notin delivered \cup inFlight
      BY ReportFacts DEF NotificationsInv, ResultsTellWhatIsSafe
    <2>2. \A i \in delivered \cup inFlight : i <= current'
      BY <1>0, <1>2, <1>4
    <2> QED
      BY <1>2, <2>1, <2>2, ReportFacts DEF ResultsTellWhatIsSafe
  <1>6. NotYetSent'
    BY <1>0, <1>2, <1>4 DEF NotYetSent
  <1> QED
    BY <1>3, <1>5, <1>6 DEF NotificationsInv

LEMMA NotificationsStart == NotificationsInit => NotificationsInv
  <1> SUFFICES ASSUME NotificationsInit PROVE NotificationsInv
    OBVIOUS
  <1>1. Len(channels) \in Nat
    BY NotificationsAssumption DEF NotificationsInit
  <1>2. NotificationsTypeOK
    <2>1. current \in 1 .. Len(channels) + 1 /\ <<>> \in Seq({"sent", "refused", "error"})
      BY <1>1 DEF NotificationsInit
    <2> QED
      BY <2>1 DEF NotificationsInit, NotificationsTypeOK
  <1>3. ResultsTellWhatIsSafe
    BY DEF NotificationsInit, ResultsTellWhatIsSafe
  <1> QED
    BY <1>2, <1>3 DEF NotificationsInit, NotificationsInv, NotYetSent

LEMMA NotificationsStep == NotificationsInv /\ [NotificationsNext]_notificationVars => NotificationsInv'
  <1> SUFFICES ASSUME NotificationsInv, [NotificationsNext]_notificationVars PROVE NotificationsInv'
    OBVIOUS
  <1>1. Len(channels) \in Nat /\ DOMAIN channels = 1 .. Len(channels)
    BY NotificationsAssumption DEF NotificationsInv, NotificationsTypeOK
  <1>2. CASE CannotSend
    <2>1. PICK result \in {"refused", "error"} : Report(result)
      BY <1>2 DEF CannotSend
    <2>2. current \notin delivered \cup inFlight
      BY <1>2 DEF CannotSend, Pending, NotificationsInv, NotYetSent
    <2> QED
      BY <1>2, <2>1, <2>2, ReportKeepsInv DEF CannotSend, Pending
  <1>3. CASE Post
    <2>1. current \in DOMAIN channels /\ current \notin DOMAIN report
      BY <1>1, <1>3 DEF Post, Pending, NotificationsInv, NotificationsTypeOK, ResultsTellWhatIsSafe
    <2> QED
      BY <1>3, <2>1 DEF Post, NotificationsInv, NotificationsTypeOK, ResultsTellWhatIsSafe, NotYetSent
  <1>4. ASSUME NEW i \in inFlight, ServiceTakes(i) \/ ServiceLoses(i)
        PROVE  NotificationsInv'
    <2>1. inFlight' \cup delivered' \subseteq delivered \cup inFlight /\ delivered \subseteq delivered'
      BY <1>4 DEF ServiceTakes, ServiceLoses
    <2>2. UNCHANGED <<channels, current, sending, report>>
      BY <1>4 DEF ServiceTakes, ServiceLoses
    <2> QED
      BY <2>1, <2>2 DEF NotificationsInv, NotificationsTypeOK, ResultsTellWhatIsSafe, NotYetSent
  <1>5. CASE SendReturns
    <2>1. current \in delivered /\ current <= Len(channels)
      BY <1>5 DEF SendReturns, NotificationsInv, NotYetSent
    <2> QED
      BY <1>5, <2>1, ReportKeepsInv DEF SendReturns
  <1>6. CASE SendFails
    <2>1. current <= Len(channels)
      BY <1>6 DEF SendFails, NotificationsInv, NotYetSent
    <2> QED
      BY <1>6, <2>1, ReportKeepsInv DEF SendFails, Fails
  <1>7. CASE UNCHANGED notificationVars
    BY <1>7 DEF notificationVars, NotificationsInv, NotificationsTypeOK, ResultsTellWhatIsSafe, NotYetSent
  <1> QED
    BY <1>2, <1>3, <1>4, <1>5, <1>6, <1>7 DEF NotificationsNext, DispatchStep

\* Every variable keeps its type; in particular there is no result beyond the list.
THEOREM NotificationsTypeCorrect == NotificationsSpec => []NotificationsTypeOK
  <1>1. NotificationsInv => NotificationsTypeOK
    BY DEF NotificationsInv
  <1> QED
    BY <1>1, NotificationsStart, NotificationsStep, PTL DEF NotificationsSpec

\* dispatch: one result for each channel tried; "sent" was delivered, and what has an error
\* was not delivered and never will be.
THEOREM ResultsAreSafe == NotificationsSpec => []ResultsTellWhatIsSafe
  <1>1. NotificationsInv => ResultsTellWhatIsSafe
    BY DEF NotificationsInv
  <1> QED
    BY <1>1, NotificationsStart, NotificationsStep, PTL DEF NotificationsSpec

------------------------------------------------------------------------------
(* Workflow. *)

Outcomes == {"success", "failure", "skipped"}

NeverRan == \A j \in DOMAIN results : ~Ran(j)

LastRan(j) == j \in DOMAIN results /\ Ran(j) /\ \A i \in DOMAIN results : Ran(i) => i <= j

\* The context's last result is that of the last step that ran.
ContextInv ==
    /\ lastRuns = <<>> => NeverRan
    /\ lastRuns # <<>> =>
         \E j \in DOMAIN results : LastRan(j) /\ lastRuns[Len(lastRuns)] = (results[j] = "success")

\* A step has its result when the next one begins; one that is waited for can wait, and may.
ProgressInv ==
    /\ outcome # "failed" => Len(results) = next - 1
    /\ outcome = "failed" => Len(results) = next /\ ~awaiting
    /\ outcome = "completed" => next = Len(workflow) + 1 /\ ~awaiting
    /\ awaiting => /\ next <= Len(workflow) /\ ConditionMet
                   /\ Step.type \in {"approve", "delay", "api_call"} /\ Step.sound

\* Requests are those of the steps that ran and of the one that is waited for.
CallInv ==
    \A k \in landed \cup requested :
        /\ workflow[k].type = "api_call"
        /\ \/ k \in DOMAIN results /\ Ran(k)
           \/ k = next /\ awaiting

SuccessInv ==
    \A k \in DOMAIN results : results[k] = "success" /\ workflow[k].type = "api_call" => k \in landed

AbortInv ==
    \A k \in DOMAIN results :
        results[k] = "failure" /\ workflow[k].abort => k = Len(results) /\ outcome = "failed"

FailedInv ==
    outcome = "failed" =>
        results # <<>> /\ results[Len(results)] = "failure" /\ workflow[Len(results)].abort

WorkflowInv ==
    /\ WorkflowTypeOK /\ ContextInv /\ ProgressInv /\ CallInv /\ SuccessInv /\ AbortInv /\ FailedInv
    /\ ConditionsSeeTheLastRun /\ TemplatesRunThrough

\* What every step of a workflow has.
LEMMA WorkflowShape ==
    ASSUME WorkflowTypeOK
    PROVE  /\ workflow \in Seq(Steps) /\ Len(workflow) \in Nat /\ DOMAIN workflow = 1 .. Len(workflow)
           /\ next \in Nat /\ next >= 1 /\ next <= Len(workflow) + 1
           /\ results \in Seq(Outcomes) /\ Len(results) \in Nat /\ DOMAIN results = 1 .. Len(results)
           /\ lastRuns \in Seq(BOOLEAN) /\ Len(lastRuns) \in Nat
           /\ next <= Len(workflow) => Step \in Steps
BY WorkflowsAssumption DEF WorkflowTypeOK, Step, Outcomes

\* The steps of a template can all be taken, end within their timeouts and abort nothing.
LEMMA TemplateSteps ==
    ASSUME NEW w \in Templates, NEW k \in DOMAIN w
    PROVE  /\ w[k].sound /\ ~w[k].abort /\ w[k].condition \in {"none", "trigger_met"}
           /\ w[k].type \in {"notify", "delay", "ai_analyze", "api_call"}
           /\ w[k].wait < w[k].timeout
<1> DEFINE IsPlain(s) == /\ s.sound /\ ~s.abort /\ s.condition \in {"none", "trigger_met"}
                      /\ s.type \in {"notify", "delay", "ai_analyze", "api_call"}
                      /\ s.wait < s.timeout
<1> HIDE DEF IsPlain
<1>1. CASE w = CriticalAlert
  <2>1. PICK p, d, c : /\ p = TemplateStep("notify", 30, 0, "none")
                       /\ d = TemplateStep("delay", 960, 900, "none")
                       /\ c = TemplateStep("notify", 30, 0, "trigger_met")
    OBVIOUS
  <2>2. IsPlain(p) /\ IsPlain(d) /\ IsPlain(c)
    BY <2>1 DEF TemplateStep, IsPlain
  <2>3. w = <<p, p, d, c>>
    BY <1>1, <2>1 DEF CriticalAlert, Plain
  <2>4. IsPlain(w[k])
    BY <2>2, <2>3
  <2> QED
    BY <2>4 DEF IsPlain
<1>2. CASE w = SlaBreach
  <2>1. PICK i, p, a : /\ i = TemplateStep("ai_analyze", 60, 0, "none")
                       /\ p = TemplateStep("notify", 30, 0, "none")
                       /\ a = TemplateStep("api_call", 30, 0, "none")
    OBVIOUS
  <2>2. IsPlain(i) /\ IsPlain(p) /\ IsPlain(a)
    BY <2>1 DEF TemplateStep, IsPlain
  <2>3. w = <<i, p, a, p>>
    BY <1>2, <2>1 DEF SlaBreach, Plain
  <2>4. IsPlain(w[k])
    BY <2>2, <2>3
  <2> QED
    BY <2>4 DEF IsPlain
<1>3. CASE w = MaintenanceDue
  <2>1. PICK a, p, d : /\ a = TemplateStep("api_call", 30, 0, "none")
                       /\ p = TemplateStep("notify", 30, 0, "none")
                       /\ d = TemplateStep("delay", 90000, 5, "none")
    OBVIOUS
  <2>2. IsPlain(a) /\ IsPlain(p) /\ IsPlain(d)
    BY <2>1 DEF TemplateStep, IsPlain
  <2>3. w = <<a, p, d, a>>
    BY <1>3, <2>1 DEF MaintenanceDue, Plain
  <2>4. IsPlain(w[k])
    BY <2>2, <2>3
  <2> QED
    BY <2>4 DEF IsPlain
<1> QED
  BY <1>1, <1>2, <1>3 DEF Templates

\* What a result makes of the record.
LEMMA RecordFacts ==
    ASSUME WorkflowInv, outcome = "running", next <= Len(workflow),
           NEW success \in BOOLEAN, Record(success), workflow' = workflow
    PROVE  /\ results' \in Seq(Outcomes) /\ Len(results') = next /\ DOMAIN results' = 1 .. next
           /\ DOMAIN results = 1 .. next - 1
           /\ results'[next] = IF success THEN "success" ELSE "failure"
           /\ \A i \in 1 .. next - 1 : results'[i] = results[i]
           /\ lastRuns' \in Seq(BOOLEAN) /\ lastRuns' # <<>> /\ lastRuns'[Len(lastRuns')] = success
           /\ next \in Nat /\ next >= 1
<1>1. /\ results \in Seq(Outcomes) /\ lastRuns \in Seq(BOOLEAN) /\ next \in Nat /\ next >= 1
      /\ Len(results) = next - 1 /\ DOMAIN results = 1 .. Len(results)
  BY WorkflowShape DEF WorkflowInv, ProgressInv
<1>2. PICK r \in Outcomes : r = IF success THEN "success" ELSE "failure"
  BY DEF Outcomes
<1>3. results' = Append(results, r) /\ lastRuns' = Append(lastRuns, success)
  BY <1>2 DEF Record
<1>4. /\ results' \in Seq(Outcomes) /\ Len(results') = next /\ results'[next] = r
      /\ \A i \in 1 .. next - 1 : results'[i] = results[i]
  <2>1. results' \in Seq(Outcomes)
    BY <1>1, <1>2, <1>3
  <2>2. Len(results') = next
    BY <1>1, <1>3
  <2>3. results'[next] = r
    BY <1>1, <1>3
  <2>4. ASSUME NEW i \in 1 .. next - 1 PROVE results'[i] = results[i]
    BY <1>1, <1>3
  <2> QED
    BY <2>1, <2>2, <2>3, <2>4
<1>5. lastRuns' \in Seq(BOOLEAN) /\ lastRuns' # <<>> /\ lastRuns'[Len(lastRuns')] = success
  BY <1>1, <1>3
<1> QED
  BY <1>1, <1>2, <1>4, <1>5

\* The last step that ran decides on the condition of the one at hand.
LEMMA ConditionReads ==
    ASSUME WorkflowTypeOK, ContextInv, Step.condition \in {"last_succeeded", "last_failed"},
           Len(results) = next - 1
    PROVE  LET earlier == {j \in 1 .. next - 1 : Ran(j)} IN
           ConditionMet <=> \/ earlier = {}
                            \/ \E j \in earlier :
                                 /\ \A i \in earlier : i <= j
                                 /\ (results[j] = "success") = (Step.condition = "last_succeeded")
<1> DEFINE earlier == {j \in 1 .. next - 1 : Ran(j)}
<1>1. DOMAIN results = 1 .. next - 1 /\ next \in Nat
  BY WorkflowShape
<1>2. ConditionMet <=> (lastRuns # <<>> => lastRuns[Len(lastRuns)] = (Step.condition = "last_succeeded"))
  BY DEF ConditionMet
<1>3. CASE lastRuns = <<>>
  <2>1. earlier = {}
    BY <1>1, <1>3 DEF ContextInv, NeverRan
  <2> QED
    BY <1>2, <1>3, <2>1
<1>4. CASE lastRuns # <<>>
  <2>1. PICK j \in DOMAIN results :
          LastRan(j) /\ lastRuns[Len(lastRuns)] = (results[j] = "success")
    BY <1>4 DEF ContextInv
  <2>2. j \in earlier /\ \A i \in earlier : i <= j
    BY <1>1, <2>1 DEF LastRan
  <2>3. ASSUME NEW i \in earlier, \A x \in earlier : x <= i PROVE i = j
    <3>1. i \in Int /\ j \in Int /\ i <= j /\ j <= i
      BY <1>1, <2>2, <2>3
    <3> QED
      BY <3>1
  <2>4. ConditionMet <=> (results[j] = "success") = (Step.condition = "last_succeeded")
    BY <1>2, <1>4, <2>1
  <2> QED
    BY <2>2, <2>3, <2>4
<1> QED
  BY <1>3, <1>4

\* A step is recorded in its place; the results before it stay.
LEMMA ConditionsKept ==
    ASSUME WorkflowInv, outcome = "running", next <= Len(workflow), workflow' = workflow,
           DOMAIN results' = 1 .. next, \A i \in 1 .. next - 1 : results'[i] = results[i],
           results'[next] # "skipped" <=> ConditionMet
    PROVE  ConditionsSeeTheLastRun'
<1>1. /\ Len(results) = next - 1 /\ DOMAIN results = 1 .. next - 1 /\ next \in Nat
      /\ workflow[next] = Step
  BY WorkflowShape DEF WorkflowInv, ProgressInv, Step
<1> SUFFICES ASSUME NEW k \in 1 .. next, workflow[k].condition \in {"last_succeeded", "last_failed"}
             PROVE  LET earlier == {j \in 1 .. k - 1 : results'[j] # "skipped"} IN
                    results'[k] # "skipped" <=>
                      \/ earlier = {}
                      \/ \E j \in earlier :
                           /\ \A i \in earlier : i <= j
                           /\ (results'[j] = "success") = (workflow[k].condition = "last_succeeded")
  BY DEF ConditionsSeeTheLastRun, Ran
<1> DEFINE before == {j \in 1 .. k - 1 : results[j] # "skipped"}
<1>2. {j \in 1 .. k - 1 : results'[j] # "skipped"} = before
  BY <1>1
<1>3. \A j \in before : results'[j] = results[j]
  BY <1>1
<1>4. results'[k] # "skipped" <=>
        \/ before = {}
        \/ \E j \in before : /\ \A i \in before : i <= j
                             /\ (results[j] = "success") = (workflow[k].condition = "last_succeeded")
  <2>1. CASE k = next
    <3>1. Step.condition \in {"last_succeeded", "last_failed"}
      BY <1>1, <2>1
    <3>2. ConditionMet <=>
            \/ before = {}
            \/ \E j \in before : /\ \A i \in before : i <= j
                                 /\ (results[j] = "success") = (Step.condition = "last_succeeded")
      BY <1>1, <2>1, <3>1, ConditionReads DEF WorkflowInv, Ran
    <3> QED
      BY <1>1, <2>1, <3>2
  <2>2. CASE k # next
    <3>1. k \in DOMAIN results /\ results'[k] = results[k]
      BY <1>1, <2>2
    <3> QED
      BY <3>1 DEF WorkflowInv, ConditionsSeeTheLastRun, Ran
  <2> QED
    BY <2>1, <2>2
<1> HIDE DEF before
<1> QED
  BY <1>2, <1>3, <1>4

\* Either result of the step at hand, the world outside being left alone.
LEMMA RecordKeepsInv ==
    ASSUME WorkflowInv, outcome = "running", next <= Len(workflow), ConditionMet,
           NEW success \in BOOLEAN, Record(success), UNCHANGED <<workflow, requested, landed>>,
           success /\ Step.type = "api_call" => next \in landed,
           workflow \in Templates => success \/ Step.type = "api_call"
    PROVE  WorkflowInv'
<1> DEFINE result == IF success THEN "success" ELSE "failure"
<1>1. /\ results' \in Seq(Outcomes) /\ Len(results') = next /\ DOMAIN results' = 1 .. next
      /\ DOMAIN results = 1 .. next - 1
      /\ results'[next] = result
      /\ \A i \in 1 .. next - 1 : results'[i] = results[i]
      /\ lastRuns' \in Seq(BOOLEAN) /\ lastRuns' # <<>> /\ lastRuns'[Len(lastRuns')] = success
      /\ next \in Nat /\ next >= 1
  BY RecordFacts
<1>2. /\ awaiting' = FALSE /\ workflow' = workflow /\ requested' = requested /\ landed' = landed
      /\ outcome' = IF Aborts(success) THEN "failed" ELSE "running"
      /\ next' = IF Aborts(success) THEN next ELSE next + 1
      /\ Aborts(success) <=> ~success /\ workflow[next].abort
      /\ Step = workflow[next]
  BY DEF Record, Aborts, Step
<1>3. /\ workflow \in Seq(Steps) /\ Len(workflow) \in Nat /\ DOMAIN workflow = 1 .. Len(workflow)
      /\ next <= Len(workflow) + 1
  BY WorkflowShape DEF WorkflowInv
<1>4. WorkflowTypeOK'
  <2>1. next' \in 1 .. Len(workflow) + 1
    BY <1>1, <1>2, <1>3
  <2>2. outcome' \in {"running", "failed"} /\ awaiting' \in BOOLEAN
    BY <1>2
  <2>3. results' \in Seq({"success", "failure", "skipped"})
    BY <1>1 DEF Outcomes
  <2> QED
    BY <1>1, <1>2, <2>1, <2>2, <2>3 DEF WorkflowInv, WorkflowTypeOK
<1>5. ContextInv'
  <2>1. PICK n \in Nat : n = next
    BY <1>1
  <2>2. n \in DOMAIN results' /\ results'[n] # "skipped" /\ success = (results'[n] = "success")
    BY <1>1, <2>1
  <2>3. LastRan(n)'
    BY <1>1, <2>1, <2>2 DEF LastRan, Ran
  <2> QED
    BY <1>1, <2>2, <2>3 DEF ContextInv
<1>6. ProgressInv'
  BY <1>1, <1>2 DEF ProgressInv
<1>7. CallInv'
  <2> SUFFICES ASSUME NEW k \in landed \cup requested
               PROVE  workflow[k].type = "api_call" /\ k \in 1 .. next /\ results'[k] # "skipped"
    BY <1>1, <1>2 DEF CallInv, Ran
  <2>1. /\ workflow[k].type = "api_call"
        /\ k = next \/ (k \in 1 .. next - 1 /\ results[k] # "skipped")
    BY <1>1 DEF WorkflowInv, CallInv, Ran
  <2> QED
    BY <1>1, <2>1
<1>8. SuccessInv'
  <2> SUFFICES ASSUME NEW k \in 1 .. next, results'[k] = "success", workflow[k].type = "api_call"
               PROVE  k \in landed
    BY <1>1, <1>2 DEF SuccessInv
  <2>1. CASE k = next
    BY <1>1, <1>2, <2>1
  <2>2. CASE k # next
    <3>1. k \in DOMAIN results /\ results[k] = "success"
      BY <1>1, <2>2
    <3> QED
      BY <3>1 DEF WorkflowInv, SuccessInv
  <2> QED
    BY <2>1, <2>2
<1>9. AbortInv' /\ FailedInv'
  <2>1. \A k \in 1 .. next - 1 : ~(results[k] = "failure" /\ workflow[k].abort)
    BY <1>1 DEF WorkflowInv, AbortInv
  <2>2. \A k \in 1 .. next : results'[k] = "failure" /\ workflow[k].abort => k = next /\ Aborts(success)
    BY <1>1, <1>2, <2>1
  <2>3. results' # <<>>
    BY <1>1
  <2> QED
    BY <1>1, <1>2, <2>2, <2>3 DEF AbortInv, FailedInv
<1>10. ConditionsSeeTheLastRun'
  <2>1. results'[next] # "skipped"
    BY <1>1
  <2> QED
    BY <1>1, <1>2, <2>1, ConditionsKept
<1>11. TemplatesRunThrough'
  <2> SUFFICES ASSUME workflow \in Templates
               PROVE  /\ outcome' # "failed"
                      /\ \A k \in 1 .. next : results'[k] # "success" => workflow[k].type = "api_call"
    BY <1>1, <1>2 DEF TemplatesRunThrough
  <2>1. next \in DOMAIN workflow
    BY <1>1, <1>3
  <2>2. ~workflow[next].abort
    BY <2>1, TemplateSteps
  <2>3. \A k \in 1 .. next - 1 : results[k] # "success" => workflow[k].type = "api_call"
    BY <1>1 DEF WorkflowInv, TemplatesRunThrough
  <2> QED
    BY <1>1, <1>2, <2>2, <2>3
<1> QED
  BY <1>4, <1>5, <1>6, <1>7, <1>8, <1>9, <1>10, <1>11 DEF WorkflowInv

\* A step that is skipped.
LEMMA SkipKeepsInv ==
    ASSUME WorkflowInv, SkipStep
    PROVE  WorkflowInv'
<1>1. /\ results \in Seq(Outcomes) /\ Len(results) = next - 1 /\ DOMAIN results = 1 .. next - 1
      /\ next \in Nat /\ next >= 1 /\ next <= Len(workflow)
      /\ workflow \in Seq(Steps) /\ Len(workflow) \in Nat /\ DOMAIN workflow = 1 .. Len(workflow)
  BY WorkflowShape DEF WorkflowInv, ProgressInv, SkipStep, Ready
<1>2. /\ results' = Append(results, "skipped") /\ next' = next + 1 /\ lastRuns' = lastRuns
      /\ UNCHANGED <<workflow, awaiting, outcome, requested, landed>>
      /\ outcome = "running" /\ awaiting = FALSE /\ ~ConditionMet
  BY DEF SkipStep, Ready, LeavesSkippedOut, WorkflowInv, WorkflowTypeOK
<1>3. /\ results' \in Seq(Outcomes) /\ Len(results') = next /\ DOMAIN results' = 1 .. next
      /\ results'[next] = "skipped" /\ \A i \in 1 .. next - 1 : results'[i] = results[i]
  <2>1. "skipped" \in Outcomes
    BY DEF Outcomes
  <2> QED
    BY <1>1, <1>2, <2>1
<1>4. WorkflowTypeOK'
  BY <1>1, <1>2, <1>3 DEF WorkflowInv, WorkflowTypeOK, Outcomes
<1>5. ContextInv'
  <2>1. NeverRan => NeverRan'
    BY <1>1, <1>3 DEF NeverRan, Ran
  <2>2. ASSUME NEW j \in 1 .. next - 1, LastRan(j)
        PROVE  LastRan(j)' /\ results'[j] = results[j]
    BY <1>1, <1>3, <2>2 DEF LastRan, Ran
  <2> QED
    BY <1>1, <1>2, <1>3, <2>1, <2>2 DEF WorkflowInv, ContextInv
<1>6. ProgressInv'
  BY <1>1, <1>2, <1>3 DEF ProgressInv
<1>7. CallInv'
  <2> SUFFICES ASSUME NEW k \in landed \cup requested
               PROVE  workflow[k].type = "api_call" /\ k \in 1 .. next /\ results'[k] # "skipped"
    BY <1>2, <1>3 DEF CallInv, Ran
  <2>1. workflow[k].type = "api_call" /\ k \in 1 .. next - 1 /\ results[k] # "skipped"
    BY <1>1, <1>2 DEF WorkflowInv, CallInv, Ran
  <2> QED
    BY <1>1, <1>3, <2>1
<1>8. SuccessInv' /\ AbortInv' /\ FailedInv'
  <2>1. \A k \in 1 .. next - 1 : /\ results[k] = "success" /\ workflow[k].type = "api_call" => k \in landed
                                 /\ ~(results[k] = "failure" /\ workflow[k].abort)
    BY <1>1, <1>2 DEF WorkflowInv, SuccessInv, AbortInv
  <2>2. \A k \in 1 .. next : /\ results'[k] = "success" /\ workflow[k].type = "api_call" => k \in landed
                             /\ ~(results'[k] = "failure" /\ workflow[k].abort)
    BY <1>1, <1>3, <2>1
  <2> QED
    BY <1>2, <1>3, <2>2 DEF SuccessInv, AbortInv, FailedInv
<1>9. ConditionsSeeTheLastRun'
  BY <1>1, <1>2, <1>3, ConditionsKept
<1>10. TemplatesRunThrough'
  <2>1. workflow \notin Templates
    <3>1. Step.condition \notin {"none", "trigger_met"}
      BY <1>2 DEF ConditionMet
    <3>2. next \in DOMAIN workflow /\ Step = workflow[next]
      BY <1>1 DEF Step
    <3> QED
      BY <3>1, <3>2, TemplateSteps
  <2> QED
    BY <1>2, <2>1 DEF TemplatesRunThrough
<1> QED
  BY <1>4, <1>5, <1>6, <1>7, <1>8, <1>9, <1>10 DEF WorkflowInv

\* Steps that leave the record as it is.
LEMMA RecordUnchanged ==
    ASSUME WorkflowInv, UNCHANGED <<workflow, results, lastRuns>>,
           outcome' = "failed" <=> outcome = "failed", landed \subseteq landed'
    PROVE  /\ ContextInv' /\ SuccessInv' /\ AbortInv' /\ FailedInv'
           /\ ConditionsSeeTheLastRun' /\ TemplatesRunThrough'
BY DEF WorkflowInv, ContextInv, NeverRan, LastRan, Ran, SuccessInv, AbortInv, FailedInv,
       ConditionsSeeTheLastRun, TemplatesRunThrough

LEMMA WorkflowStart == WorkflowInit => WorkflowInv
<1> SUFFICES ASSUME WorkflowInit PROVE WorkflowInv
  OBVIOUS
<1>1. /\ workflow \in Workflows /\ workflow \in Seq(Steps) /\ Len(workflow) \in Nat
      /\ next = 1 /\ awaiting = FALSE /\ results = <<>> /\ lastRuns = <<>> /\ outcome = "running"
      /\ requested = {} /\ landed = {}
  BY WorkflowsAssumption DEF WorkflowInit
<1>2. DOMAIN results = {} /\ Len(results) = 0
  BY <1>1
<1>3. WorkflowTypeOK
  <2>1. 1 \in 1 .. Len(workflow) + 1 /\ <<>> \in Seq({"success", "failure", "skipped"}) /\ <<>> \in Seq(BOOLEAN)
    BY <1>1
  <2> QED
    BY <1>1, <2>1 DEF WorkflowTypeOK
<1>4. ContextInv /\ ProgressInv /\ CallInv
  BY <1>1, <1>2 DEF ContextInv, NeverRan, ProgressInv, CallInv
<1>5. SuccessInv /\ AbortInv /\ FailedInv /\ ConditionsSeeTheLastRun /\ TemplatesRunThrough
  BY <1>1, <1>2 DEF SuccessInv, AbortInv, FailedInv, ConditionsSeeTheLastRun, TemplatesRunThrough
<1> QED
  BY <1>3, <1>4, <1>5 DEF WorkflowInv

LEMMA WorkflowStep == WorkflowInv /\ [WorkflowNext]_workflowVars => WorkflowInv'
<1> SUFFICES ASSUME WorkflowInv, [WorkflowNext]_workflowVars PROVE WorkflowInv'
  OBVIOUS
<1>1. /\ WorkflowTypeOK /\ ProgressInv /\ CallInv /\ SuccessInv
      /\ Len(workflow) \in Nat /\ DOMAIN workflow = 1 .. Len(workflow)
      /\ next \in Nat /\ next >= 1 /\ Step = workflow[next]
  BY WorkflowShape DEF WorkflowInv, Step
<1>2. \A k \in landed \cup requested : workflow[k].type = "api_call"
  BY <1>1 DEF CallInv
<1>3. workflow \in Templates /\ next <= Len(workflow) =>
        Step.sound /\ Step.type # "unknown" /\ Step.wait < Step.timeout
  BY <1>1, TemplateSteps
<1>4. CASE SkipStep
  BY <1>4, SkipKeepsInv
<1>5. CASE RunAtOnce
  <2>1. PICK success \in BOOLEAN : success = (Step.type # "unknown" /\ Step.sound)
    OBVIOUS
  <2>2. Record(success)
    BY <1>5, <2>1 DEF RunAtOnce
  <2>3. success => Step.type # "api_call"
    BY <1>5, <2>1 DEF RunAtOnce
  <2>4. workflow \in Templates => success
    BY <1>3, <1>5, <2>1 DEF RunAtOnce, Ready
  <2> QED
    BY <1>5, <2>2, <2>3, <2>4, RecordKeepsInv DEF RunAtOnce, Ready
<1>6. CASE WaitEnds
  <2>1. next <= Len(workflow) /\ ConditionMet /\ outcome = "running" /\ Step.type # "api_call"
    BY <1>1, <1>6 DEF WaitEnds, ProgressInv
  <2>2. CASE Record(TRUE)
    BY <1>6, <2>1, <2>2, RecordKeepsInv DEF WaitEnds
  <2>3. CASE Step.timeout <= Step.wait /\ Record(FALSE)
    <3>1. workflow \notin Templates
      <4>1. Step.timeout \in Nat /\ Step.wait \in Nat
        BY <1>1, <2>1, WorkflowShape DEF Steps
      <4> QED
        BY <1>3, <2>1, <2>3, <4>1
    <3> QED
      BY <1>6, <2>1, <2>3, <3>1, RecordKeepsInv DEF WaitEnds
  <2> QED
    BY <1>6, <2>2, <2>3 DEF WaitEnds
<1>7. CASE CallReturns
  <2>1. next <= Len(workflow) /\ ConditionMet
    BY <1>1, <1>7 DEF CallReturns, ProgressInv
  <2> QED
    BY <1>7, <2>1, RecordKeepsInv DEF CallReturns, ReplyToTheCall
<1>8. CASE CallFailsOrTimesOut
  <2>1. next <= Len(workflow) /\ ConditionMet
    BY <1>1, <1>8 DEF CallFailsOrTimesOut, ProgressInv
  <2> QED
    BY <1>8, <2>1, RecordKeepsInv DEF CallFailsOrTimesOut
<1>9. CASE BeginWait
  <2>1. /\ UNCHANGED <<workflow, next, results, lastRuns, outcome, landed>> /\ awaiting' = TRUE
        /\ requested' = requested \/ (Step.type = "api_call" /\ requested' = requested \cup {next})
        /\ outcome = "running" /\ next <= Len(workflow) /\ ConditionMet
        /\ Step.type \in {"approve", "delay", "api_call"} /\ Step.sound /\ ~awaiting
    BY <1>9 DEF BeginWait, Ready
  <2>2. WorkflowTypeOK'
    BY <1>1, <2>1 DEF WorkflowTypeOK
  <2>3. ProgressInv'
    BY <1>1, <2>1 DEF ProgressInv, ConditionMet, Step
  <2>4. CallInv'
    BY <1>1, <2>1 DEF CallInv, Ran
  <2> QED
    BY <2>1, <2>2, <2>3, <2>4, RecordUnchanged DEF WorkflowInv
<1>10. CASE CompleteWorkflow
  <2>1. /\ UNCHANGED <<workflow, next, awaiting, results, lastRuns, requested, landed>>
        /\ outcome = "running" /\ outcome' = "completed" /\ next > Len(workflow)
    BY <1>10 DEF CompleteWorkflow
  <2>2. WorkflowTypeOK' /\ CallInv'
    BY <1>1, <2>1 DEF WorkflowTypeOK, CallInv, Ran
  <2>3. ProgressInv'
    <3>1. next = Len(workflow) + 1 /\ ~awaiting
      BY <1>1, <2>1 DEF WorkflowTypeOK, ProgressInv
    <3> QED
      BY <1>1, <2>1, <3>1 DEF ProgressInv
  <2> QED
    BY <2>1, <2>2, <2>3, RecordUnchanged DEF WorkflowInv
<1>11. ASSUME NEW k \in requested, RequestLands(k) \/ RequestIsLost(k)
       PROVE  WorkflowInv'
  <2>1. /\ UNCHANGED <<workflow, next, awaiting, results, lastRuns, outcome>>
        /\ landed \subseteq landed' /\ landed' \cup requested' \subseteq landed \cup requested
        /\ landed' \subseteq DOMAIN workflow /\ requested' \subseteq DOMAIN workflow
    BY <1>1, <1>11 DEF RequestLands, RequestIsLost, WorkflowTypeOK
  <2>2. WorkflowTypeOK' /\ CallInv'
    BY <1>1, <2>1 DEF WorkflowTypeOK, CallInv, Ran
  <2>3. ProgressInv'
    BY <1>1, <2>1 DEF ProgressInv, ConditionMet, Step
  <2> QED
    BY <2>1, <2>2, <2>3, RecordUnchanged DEF WorkflowInv
<1>12. CASE EngineDies \/ UNCHANGED workflowVars
  <2>1. /\ UNCHANGED <<workflow, next, awaiting, results, lastRuns, requested, landed>>
        /\ outcome' = outcome \/ (outcome = "running" /\ outcome' = "lost")
    BY <1>12 DEF EngineDies, workflowVars
  <2>2. WorkflowTypeOK' /\ CallInv'
    BY <1>1, <2>1 DEF WorkflowTypeOK, CallInv, Ran
  <2>3. ProgressInv'
    BY <1>1, <2>1 DEF ProgressInv, ConditionMet, Step
  <2> QED
    BY <2>1, <2>2, <2>3, RecordUnchanged DEF WorkflowInv
<1> QED
  BY <1>4, <1>5, <1>6, <1>7, <1>8, <1>9, <1>10, <1>11, <1>12 DEF WorkflowNext, EngineStep

\* Every variable of an execution keeps its type; no step is taken beyond the workflow.
THEOREM WorkflowTypeCorrect == WorkflowSpec => []WorkflowTypeOK
<1>1. WorkflowInv => WorkflowTypeOK
  BY DEF WorkflowInv
<1> QED
  BY <1>1, WorkflowStart, WorkflowStep, PTL DEF WorkflowSpec

\* execute_workflow, for any workflows: every step has one result in its place and the first
\* failed step to abort on is the last one; a condition is about the last step that ran; a call
\* recorded as a success was acted on, and none was made for a step skipped or never
\* reached; the templates of templates.py are never cut short.
THEOREM RecordCanBeRead == WorkflowSpec => []WorkflowRecord
<1>1. ASSUME WorkflowInv PROVE WorkflowRecord
  <2>1. /\ DOMAIN results = 1 .. Len(results) /\ Len(results) \in Nat /\ next \in Nat
        /\ Len(workflow) \in Nat /\ WorkflowTypeOK
    BY <1>1, WorkflowShape DEF WorkflowInv
  <2>2. /\ outcome # "failed" => Len(results) = next - 1
        /\ outcome = "completed" => Len(results) = Len(workflow)
        /\ awaiting => next = Len(results) + 1
    <3>1. /\ outcome # "failed" => Len(results) = next - 1
          /\ outcome = "completed" => next = Len(workflow) + 1
          /\ awaiting => outcome # "failed"
      BY <1>1 DEF WorkflowInv, ProgressInv
    <3>2. awaiting => next = Len(results) + 1
      BY <2>1, <3>1
    <3>3. outcome = "completed" => Len(results) = Len(workflow)
      BY <2>1, <3>1
    <3> QED
      BY <3>1, <3>2, <3>3
  <2>3. StepsAccountedFor
    BY <1>1, <2>2 DEF WorkflowInv, AbortInv, FailedInv, StepsAccountedFor
  <2>4. RecordOfCalls
    <3>1. \A k \in landed \cup requested :
            /\ workflow[k].type = "api_call"
            /\ \/ k \in DOMAIN results /\ Ran(k)
               \/ k = next /\ k = Len(results) + 1
      BY <1>1, <2>2 DEF WorkflowInv, CallInv
    <3>2. \A k \in DOMAIN results : k # Len(results) + 1
      BY <2>1
    <3>3. \A k \in landed \cup requested : k <= Len(results) + 1
      BY <2>1, <3>1
    <3>4. \A k \in DOMAIN results :
            k \in landed \cup requested => Ran(k) /\ workflow[k].type = "api_call"
      BY <3>1, <3>2
    <3> QED
      BY <1>1, <3>3, <3>4 DEF WorkflowInv, SuccessInv, RecordOfCalls
  <2> QED
    BY <1>1, <2>3, <2>4 DEF WorkflowInv, WorkflowRecord
<1> QED
  BY <1>1, WorkflowStart, WorkflowStep, PTL DEF WorkflowSpec

------------------------------------------------------------------------------
(* RateLimiter.  What INCR returns in a minute whose key was never made again is  *)
(* different for every request, so that no more than Limit of them are told a     *)
(* number up to Limit; and it is never more than the requests of the minute that  *)
(* have got past their INCR (Passed).                                             *)

\* The requests of minute m that are past the call of INCR, however it went.
Passed(m) == {r \in Requests : bucket[r] = m /\ at[r] \notin {"new", "connecting"}}

\* What a request knows of itself.
OwnInv ==
    \A r \in Requests :
        /\ at[r] = "new" <=> bucket[r] = 0
        /\ at[r] \in {"new", "connecting"} => found[r] = 0 /\ r \notin uncounted
        /\ at[r] \in {"counted", "expired"} => found[r] # 0
        /\ at[r] = "admitted" /\ r \notin uncounted => found[r] \in 1 .. Limit
        /\ at[r] = "refused" => found[r] > Limit

\* The numbers of a minute.
NumbersInv ==
    \A m \in (1 .. Minutes) \ renewed : \A r \in Seen(m) :
        /\ count[m] = 0 \/ found[r] <= count[m]
        /\ \A q \in Seen(m) : found[q] = found[r] => q = r

\* No number is larger than the requests that have got one, or may have.
CountInv ==
    \A m \in 1 .. Minutes :
        /\ count[m] <= Cardinality(Passed(m))
        /\ \A r \in Requests : bucket[r] = m => found[r] <= Cardinality(Passed(m))

\* A key without a TTL is about to get one, or the request that made it did not get so far.
TtlInv ==
    \A m \in (1 .. Minutes) \ (expires \cup cut) :
        count[m] > 0 => \E r \in Requests : bucket[r] = m /\ found[r] = 1 /\ at[r] = "counted"

LimiterInv == LimiterTypeOK /\ OwnInv /\ NumbersInv /\ CountInv /\ TtlInv

------------------------------------------------------------------------------
LEMMA LimiterInvImpliesLimit == LimiterInv => LimitHolds
  <1> SUFFICES ASSUME LimiterInv PROVE LimitHolds
    OBVIOUS
  <1>1. LimiterTypeOK /\ OwnInv /\ NumbersInv /\ CountInv /\ TtlInv
    BY DEF LimiterInv
  <1>2. IsFiniteSet(Requests) /\ Limit \in Nat
    BY LimiterAssumption
  <1>3. ASSUME NEW m \in (1 .. Minutes) \ renewed
        PROVE  Cardinality(Admitted(m)) <= Limit
    <2> DEFINE A == Admitted(m)
               number == [r \in A |-> found[r]]
    <2>1. \A r \in A : r \in Seen(m) /\ found[r] \in 1 .. Limit
      BY <1>1 DEF Admitted, Seen, OwnInv
    <2>2. number \in [A -> 1 .. Limit]
      BY <2>1
    <2>3. \A r, q \in A : number[r] = number[q] => r = q
      BY <1>1, <2>1 DEF NumbersInv
    <2>4. number \in Injection(A, 1 .. Limit)
      BY <2>2, <2>3 DEF Injection, IsInjective
    <2>5. IsFiniteSet(1 .. Limit) /\ Cardinality(1 .. Limit) = Limit
      BY <1>2, FS_Interval
    <2> QED
      BY <2>4, <2>5, FS_Injection
  <1>4. ASSUME NEW r \in Requests, at[r] = "refused"
        PROVE  Cardinality({q \in Requests : bucket[q] = bucket[r]}) > Limit
    <2> DEFINE Q == {q \in Requests : bucket[q] = bucket[r]}
    <2>1. Passed(bucket[r]) \subseteq Q /\ Q \subseteq Requests
      BY DEF Passed
    <2>2. IsFiniteSet(Q)
      BY <1>2, <2>1, FS_Subset
    <2>3. Cardinality(Passed(bucket[r])) <= Cardinality(Q)
      BY <2>1, <2>2, FS_Subset
    <2>4. IsFiniteSet(Passed(bucket[r]))
      BY <2>1, <2>2, FS_Subset
    <2>5. Cardinality(Passed(bucket[r])) \in Nat /\ Cardinality(Q) \in Nat
      BY <2>2, <2>4, FS_CardinalityType
    <2>6. found[r] > Limit /\ found[r] <= Cardinality(Passed(bucket[r])) /\ found[r] \in Nat
      <3>1. bucket[r] \in 1 .. Minutes /\ found[r] \in Nat
        BY <1>1, <1>4 DEF OwnInv, LimiterTypeOK
      <3> QED
        BY <1>1, <1>4, <3>1 DEF OwnInv, CountInv
    <2> QED
      BY <1>2, <2>3, <2>5, <2>6
  <1> QED
    BY <1>1, <1>3, <1>4 DEF LimitHolds, TtlInv

LEMMA LimiterStart == LimiterInit => LimiterInv
  <1> SUFFICES ASSUME LimiterInit PROVE LimiterInv
    OBVIOUS
  <1> USE LimiterAssumption DEF LimiterInit
  <1>1. LimiterTypeOK
    BY DEF LimiterTypeOK, Whereabouts
  <1>2. OwnInv /\ TtlInv
    BY DEF OwnInv, TtlInv
  <1>3. NumbersInv
    BY DEF NumbersInv, Seen
  <1>4. CountInv
    <2>1. \A m \in 1 .. Minutes : Passed(m) = {} /\ count[m] = 0
      BY DEF Passed
    <2>2. \A r \in Requests : found[r] = 0
      OBVIOUS
    <2> HIDE DEF LimiterInit
    <2>3. Cardinality({}) = 0
      BY FS_EmptySet
    <2>4. \A m \in 1 .. Minutes : Cardinality(Passed(m)) = 0
      BY <2>1, <2>3
    <2> QED
      BY <2>1, <2>2, <2>4 DEF CountInv
  <1> QED
    BY <1>1, <1>2, <1>3, <1>4 DEF LimiterInv

------------------------------------------------------------------------------
(* Passed only grows, by r if r was connecting and is no more. *)

LEMMA PassedFacts ==
    ASSUME NEW m
    PROVE  IsFiniteSet(Passed(m)) /\ Cardinality(Passed(m)) \in Nat
  <1>1. Passed(m) \subseteq Requests /\ IsFiniteSet(Requests)
    BY LimiterAssumption DEF Passed
  <1> QED
    BY <1>1, FS_Subset, FS_CardinalityType

LEMMA PassedGrows ==
    ASSUME NEW m, Passed(m) \subseteq Passed(m)'
    PROVE  Cardinality(Passed(m)) <= Cardinality(Passed(m)') /\ Cardinality(Passed(m)') \in Nat
  <1>1. Passed(m)' \subseteq Requests /\ IsFiniteSet(Requests)
    BY LimiterAssumption DEF Passed
  <1>2. IsFiniteSet(Passed(m)')
    BY <1>1, FS_Subset
  <1> QED
    BY <1>2, FS_Subset, FS_CardinalityType

LEMMA PassedGrowsByOne ==
    ASSUME NEW m, NEW r, r \notin Passed(m), Passed(m)' = Passed(m) \cup {r}
    PROVE  Cardinality(Passed(m)') = Cardinality(Passed(m)) + 1
  BY PassedFacts, FS_AddElement

\* The counts, after a step that lets no number grow and takes nobody out of Passed.
LEMMA CountsStay ==
    ASSUME LimiterInv, LimiterTypeOK', found' = found,
           \A m \in 1 .. Minutes : count'[m] <= count[m],
           \A m \in 1 .. Minutes : Passed(m) \subseteq Passed(m)',
           \A r \in Requests : found[r] # 0 => bucket'[r] = bucket[r]
    PROVE  CountInv'
  <1>1. LimiterTypeOK /\ CountInv
    BY DEF LimiterInv
  <1>2. ASSUME NEW m \in 1 .. Minutes
        PROVE  /\ count'[m] <= Cardinality(Passed(m)')
               /\ \A r \in Requests : bucket'[r] = m => found'[r] <= Cardinality(Passed(m)')
    <2>1. /\ Cardinality(Passed(m)) <= Cardinality(Passed(m)')
          /\ Cardinality(Passed(m)') \in Nat /\ Cardinality(Passed(m)) \in Nat
      BY PassedGrows, PassedFacts
    <2>2. count[m] <= Cardinality(Passed(m)) /\ count'[m] <= count[m]
      BY <1>1 DEF CountInv
    <2>3. count[m] \in Nat /\ count'[m] \in Nat
      BY <1>1 DEF LimiterTypeOK
    <2>4. ASSUME NEW r \in Requests, bucket'[r] = m
          PROVE  found'[r] <= Cardinality(Passed(m)')
      <3>1. found[r] \in Nat
        BY <1>1 DEF LimiterTypeOK
      <3>2. found[r] # 0 => found[r] <= Cardinality(Passed(m))
        BY <1>1, <2>4 DEF CountInv
      <3> QED
        BY <2>1, <3>1, <3>2
    <2> QED
      BY <2>1, <2>2, <2>3, <2>4
  <1> QED
    BY <1>2 DEF CountInv

\* The numbers, after a step that gives no request another number.
LEMMA NumbersStay ==
    ASSUME LimiterInv, found' = found, renewed \subseteq renewed',
           \A m \in (1 .. Minutes) \ renewed' : Seen(m) # {} => count'[m] = 0 \/ (count[m] # 0 /\ count[m] <= count'[m]),
           \A r \in Requests : found[r] # 0 => bucket'[r] = bucket[r],
           LimiterTypeOK'
    PROVE  NumbersInv'
  <1>1. LimiterTypeOK /\ NumbersInv
    BY DEF LimiterInv
  <1>2. \A m \in 1 .. Minutes : Seen(m)' = Seen(m)
    BY DEF Seen
  <1>3. ASSUME NEW m \in (1 .. Minutes) \ renewed', NEW r \in Seen(m)
        PROVE  /\ count'[m] = 0 \/ found'[r] <= count'[m]
               /\ \A q \in Seen(m) : found'[q] = found'[r] => q = r
    <2>1. /\ count[m] = 0 \/ found[r] <= count[m]
          /\ \A q \in Seen(m) : found[q] = found[r] => q = r
      BY <1>1, <1>3 DEF NumbersInv
    <2>2. found[r] \in Nat /\ count[m] \in Nat /\ count'[m] \in Nat
      BY <1>1 DEF LimiterTypeOK, Seen
    <2> QED
      BY <1>3, <2>1, <2>2
  <1> QED
    BY <1>2, <1>3 DEF NumbersInv

------------------------------------------------------------------------------
(* Every step keeps the types and what a request knows of itself. *)

LEMMA LimiterTypeStep ==
    ASSUME LimiterInv, LimiterNext
    PROVE  LimiterTypeOK'
  <1>1. LimiterTypeOK /\ OwnInv
    BY DEF LimiterInv
  <1>2. Minutes \in Nat \ {0}
    BY LimiterAssumption
  <1> USE <1>1, <1>2 DEF LimiterTypeOK, Whereabouts
  <1>3. ASSUME NEW r \in Requests, Arrive(r) PROVE LimiterTypeOK'
    BY <1>3 DEF Arrive
  <1>4. ASSUME NEW r \in Requests, at[r] # "new" PROVE bucket[r] \in 1 .. Minutes
    BY <1>4 DEF OwnInv
  <1>5. ASSUME NEW r \in Requests, Incr(r) PROVE LimiterTypeOK'
    <2>1. bucket[r] \in 1 .. Minutes
      BY <1>4, <1>5 DEF Incr
    <2>2. Renewal(bucket[r]) \subseteq 1 .. Minutes
      BY <2>1 DEF Renewal
    <2>3. [count EXCEPT ![bucket[r]] = @ + 1] \in [1 .. Minutes -> Nat]
      BY <2>1
    <2>4. count' \in [1 .. Minutes -> Nat] /\ renewed' \subseteq 1 .. Minutes
      BY <1>5, <2>2, <2>3 DEF Incr
    <2> QED
      BY <1>5, <2>1, <2>4 DEF Incr
  <1>6. ASSUME NEW r \in Requests, Expire(r) PROVE LimiterTypeOK'
    <2>1. bucket[r] \in 1 .. Minutes
      BY <1>4, <1>6 DEF Expire
    <2> QED
      BY <1>6, <2>1 DEF Expire
  <1>7. ASSUME NEW r \in Requests, Decide(r) PROVE LimiterTypeOK'
    BY <1>7 DEF Decide
  <1>8. ASSUME NEW r \in Requests, IncrFails(r) PROVE LimiterTypeOK'
    <2>1. bucket[r] \in 1 .. Minutes
      BY <1>4, <1>8 DEF IncrFails
    <2>2. Renewal(bucket[r]) \subseteq 1 .. Minutes
      BY <2>1 DEF Renewal
    <2>3. [count EXCEPT ![bucket[r]] = @ + 1] \in [1 .. Minutes -> Nat]
      BY <2>1
    <2>4. count' \in [1 .. Minutes -> Nat] /\ renewed' \subseteq 1 .. Minutes
      BY <1>8, <2>2, <2>3 DEF IncrFails
    <2> QED
      BY <1>8, <2>1, <2>4 DEF IncrFails
  <1>9. ASSUME NEW r \in Requests, ExpireFails(r) PROVE LimiterTypeOK'
    <2>1. bucket[r] \in 1 .. Minutes
      BY <1>4, <1>9 DEF ExpireFails
    <2> QED
      BY <1>9, <2>1 DEF ExpireFails
  <1>10. ASSUME NEW r \in Requests, Dies(r) PROVE LimiterTypeOK'
    <2>1. bucket[r] \in 1 .. Minutes
      BY <1>4, <1>10 DEF Dies
    <2> QED
      BY <1>10, <2>1 DEF Dies
  <1>11. ASSUME NEW m \in 1 .. Minutes, KeyExpires(m) PROVE LimiterTypeOK'
    BY <1>11 DEF KeyExpires
  <1>12. CASE NextMinute
    BY <1>12 DEF NextMinute
  <1> QED
    BY <1>3, <1>5, <1>6, <1>7, <1>8, <1>9, <1>10, <1>11, <1>12 DEF LimiterNext

LEMMA OwnStep ==
    ASSUME LimiterInv, LimiterNext
    PROVE  OwnInv'
  <1>1. LimiterTypeOK /\ OwnInv
    BY DEF LimiterInv
  <1>2. Minutes \in Nat /\ Limit \in Nat \ {0}
    BY LimiterAssumption
  <1> USE <1>1, <1>2 DEF LimiterTypeOK, OwnInv
  <1>3. ASSUME NEW r \in Requests, Arrive(r) PROVE OwnInv'
    BY <1>3 DEF Arrive
  <1>4. ASSUME NEW r \in Requests, Incr(r) PROVE OwnInv'
    <2>1. bucket[r] \in 1 .. Minutes
      BY <1>4 DEF Incr
    <2> QED
      BY <1>4, <2>1 DEF Incr
  <1>5. ASSUME NEW r \in Requests, Expire(r) PROVE OwnInv'
    BY <1>5 DEF Expire
  <1>6. ASSUME NEW r \in Requests, Decide(r) PROVE OwnInv'
    BY <1>6 DEF Decide, Allowed
  <1>7. ASSUME NEW r \in Requests, IncrFails(r) PROVE OwnInv'
    BY <1>7 DEF IncrFails
  <1>8. ASSUME NEW r \in Requests, ExpireFails(r) PROVE OwnInv'
    BY <1>8 DEF ExpireFails
  <1>9. ASSUME NEW r \in Requests, Dies(r) PROVE OwnInv'
    BY <1>9 DEF Dies
  <1>10. ASSUME NEW m \in 1 .. Minutes, KeyExpires(m) PROVE OwnInv'
    BY <1>10 DEF KeyExpires
  <1>11. CASE NextMinute
    BY <1>11 DEF NextMinute
  <1> QED
    BY <1>3, <1>4, <1>5, <1>6, <1>7, <1>8, <1>9, <1>10, <1>11 DEF LimiterNext

------------------------------------------------------------------------------
(* The numbers of a minute. *)

LEMMA NumbersIncr ==
    ASSUME LimiterInv, LimiterTypeOK', NEW r \in Requests, Incr(r)
    PROVE  NumbersInv'
  <1>1. LimiterTypeOK /\ OwnInv /\ NumbersInv
    BY DEF LimiterInv
  <1>2. bucket[r] \in 1 .. Minutes /\ at[r] = "connecting" /\ found[r] = 0
    BY <1>1 DEF Incr, OwnInv, LimiterTypeOK
  <1>b. PICK b \in 1 .. Minutes : b = bucket[r]
    BY <1>2
  <1> DEFINE n == count[b] + 1
  <1>3. count[b] \in Nat /\ n \in Nat \ {0}
    <2>1. count[b] \in Nat
      BY <1>1, <1>b DEF LimiterTypeOK
    <2> QED
      BY <2>1
  <1>4. /\ count' = [count EXCEPT ![b] = n] /\ found' = [found EXCEPT ![r] = n]
        /\ renewed' = Renewal(b) /\ bucket' = bucket
    BY <1>b DEF Incr
  <1>5. renewed \subseteq renewed'
    BY <1>4 DEF Renewal
  <1>6. count'[b] = n /\ found'[r] = n
    BY <1>1, <1>2, <1>4 DEF LimiterTypeOK
  <1>7. Seen(b)' = Seen(b) \cup {r} /\ r \notin Seen(b)
    BY <1>1, <1>2, <1>b, <1>3, <1>4 DEF Seen, LimiterTypeOK
  <1>8. ASSUME b \notin renewed', NEW q \in Seen(b)
        PROVE  found[q] <= count[b] /\ found'[q] = found[q]
    <2>1. count[b] # 0 /\ b \notin renewed
      BY <1>4, <1>5, <1>8 DEF Renewal
    <2>2. count[b] = 0 \/ found[q] <= count[b]
      BY <1>1, <1>2, <1>8, <2>1 DEF NumbersInv
    <2>3. q # r /\ q \in Requests
      BY <1>7, <1>8 DEF Seen
    <2> QED
      BY <1>1, <1>4, <2>1, <2>2, <2>3 DEF LimiterTypeOK
  <1>9. ASSUME NEW m \in (1 .. Minutes) \ renewed', NEW p \in Seen(m)'
        PROVE  /\ count'[m] = 0 \/ found'[p] <= count'[m]
               /\ \A q \in Seen(m)' : found'[q] = found'[p] => q = p
    <2>1. CASE m = b
      <3>1. \A q \in Seen(b) : found'[q] \in Nat /\ found'[q] < n
        BY <1>1, <1>3, <1>8, <1>9, <2>1 DEF LimiterTypeOK, Seen
      <3>2. \A q, t \in Seen(b) : found'[q] = found'[t] => q = t
        BY <1>1, <1>2, <1>5, <1>8, <1>9, <2>1 DEF NumbersInv
      <3>3. p \in Seen(b) \cup {r}
        BY <1>7, <1>9, <2>1
      <3>4. found'[p] <= count'[b]
        BY <1>3, <1>6, <3>1, <3>3
      <3>5. \A q \in Seen(b) \cup {r} : found'[q] = found'[p] => q = p
        BY <1>3, <1>6, <3>1, <3>2, <3>3
      <3> QED
        BY <1>7, <2>1, <3>4, <3>5
    <2>2. CASE m # b
      <3>1. Seen(m)' = Seen(m)
        BY <1>1, <1>b, <1>3, <1>4, <2>2 DEF Seen, LimiterTypeOK
      <3>2. count'[m] = count[m]
        BY <1>1, <1>4, <1>9, <2>2 DEF LimiterTypeOK
      <3>3. \A q \in Seen(m) : found'[q] = found[q]
        BY <1>1, <1>2, <1>b, <1>4, <2>2 DEF Seen, LimiterTypeOK
      <3>4. m \in (1 .. Minutes) \ renewed /\ p \in Seen(m)
        BY <1>5, <1>9, <3>1
      <3>5. /\ count[m] = 0 \/ found[p] <= count[m]
            /\ \A q \in Seen(m) : found[q] = found[p] => q = p
        BY <1>1, <3>4 DEF NumbersInv
      <3> QED
        BY <3>1, <3>2, <3>3, <3>4, <3>5
    <2> QED
      BY <2>1, <2>2
  <1> QED
    BY <1>9 DEF NumbersInv

LEMMA NumbersStep ==
    ASSUME LimiterInv, LimiterTypeOK', LimiterNext
    PROVE  NumbersInv'
  <1>1. LimiterTypeOK /\ OwnInv
    BY DEF LimiterInv
  <1>2. \A m \in 1 .. Minutes : count[m] \in Nat
    BY <1>1 DEF LimiterTypeOK
  <1>3. ASSUME NEW r \in Requests, Arrive(r) PROVE NumbersInv'
    <2>1. \A q \in Requests : found[q] # 0 => bucket'[q] = bucket[q]
      BY <1>1, <1>3 DEF Arrive, OwnInv, LimiterTypeOK
    <2>2. found' = found /\ renewed' = renewed /\ count' = count
      BY <1>3 DEF Arrive
    <2> QED
      BY <1>2, <2>1, <2>2, NumbersStay
  <1>4. ASSUME NEW r \in Requests, Incr(r) PROVE NumbersInv'
    BY <1>4, NumbersIncr
  <1>5. ASSUME NEW r \in Requests, Expire(r) \/ Decide(r) \/ ExpireFails(r) \/ Dies(r) PROVE NumbersInv'
    <2>1. found' = found /\ renewed' = renewed /\ count' = count /\ bucket' = bucket
      BY <1>5 DEF Expire, Decide, ExpireFails, Dies
    <2> QED
      BY <1>2, <2>1, NumbersStay
  <1>6. ASSUME NEW r \in Requests, IncrFails(r) PROVE NumbersInv'
    <2>1. found' = found /\ bucket' = bucket
      BY <1>6 DEF IncrFails
    <2>2. CASE count' = count /\ renewed' = renewed
      BY <1>2, <2>1, <2>2, NumbersStay
    <2>3. CASE count' = [count EXCEPT ![bucket[r]] = @ + 1] /\ renewed' = Renewal(bucket[r])
      <3>1. renewed \subseteq renewed'
        BY <2>3 DEF Renewal
      <3>2. ASSUME NEW m \in (1 .. Minutes) \ renewed', Seen(m) # {}
            PROVE  count'[m] = 0 \/ (count[m] # 0 /\ count[m] <= count'[m])
        <4>1. CASE m = bucket[r]
          <5>1. count[m] # 0
            BY <2>3, <3>2, <4>1 DEF Renewal
          <5>2. count'[m] = count[m] + 1
            BY <1>1, <2>3, <4>1 DEF LimiterTypeOK
          <5> QED
            BY <1>2, <5>1, <5>2
        <4>2. CASE m # bucket[r]
          <5>1. count'[m] = count[m]
            BY <1>1, <2>3, <4>2 DEF LimiterTypeOK
          <5> QED
            BY <1>2, <5>1
        <4> QED
          BY <4>1, <4>2
      <3> QED
        BY <2>1, <3>1, <3>2, NumbersStay
    <2> QED
      BY <1>6, <2>2, <2>3 DEF IncrFails
  <1>7. ASSUME NEW k \in 1 .. Minutes, KeyExpires(k) PROVE NumbersInv'
    <2>1. found' = found /\ renewed' = renewed /\ bucket' = bucket /\ count' = [count EXCEPT ![k] = 0]
      BY <1>7 DEF KeyExpires
    <2>2. \A m \in 1 .. Minutes : count'[m] = 0 \/ count'[m] = count[m]
      BY <1>1, <2>1 DEF LimiterTypeOK
    <2> QED
      BY <1>2, <2>1, <2>2, NumbersStay
  <1>8. CASE NextMinute
    <2>1. found' = found /\ renewed' = renewed /\ bucket' = bucket /\ count' = count
      BY <1>8 DEF NextMinute
    <2> QED
      BY <1>2, <2>1, NumbersStay
  <1> QED
    BY <1>3, <1>4, <1>5, <1>6, <1>7, <1>8 DEF LimiterNext

------------------------------------------------------------------------------
(* The numbers against the requests. *)

LEMMA CountStep ==
    ASSUME LimiterInv, LimiterTypeOK', LimiterNext
    PROVE  CountInv'
  <1>1. LimiterTypeOK /\ OwnInv /\ CountInv
    BY DEF LimiterInv
  <1>2. \A m \in 1 .. Minutes : count[m] \in Nat
    BY <1>1 DEF LimiterTypeOK
  <1>3. ASSUME NEW r \in Requests, Arrive(r) PROVE CountInv'
    <2>1. found' = found /\ count' = count
      BY <1>3 DEF Arrive
    <2>2. \A q \in Requests : found[q] # 0 => bucket'[q] = bucket[q]
      BY <1>1, <1>3 DEF Arrive, OwnInv, LimiterTypeOK
    <2>3. \A m \in 1 .. Minutes : Passed(m) \subseteq Passed(m)'
      BY <1>1, <1>3 DEF Arrive, Passed, LimiterTypeOK
    <2> QED
      BY <1>2, <2>1, <2>2, <2>3, CountsStay
  <1>4. ASSUME NEW r \in Requests, Incr(r) \/ IncrFails(r),
               count' = [count EXCEPT ![bucket[r]] = @ + 1]
        PROVE  CountInv'
    <2>1. /\ bucket[r] \in 1 .. Minutes /\ at[r] = "connecting" /\ bucket' = bucket
          /\ at' \in [Requests -> Whereabouts] /\ at'[r] \notin {"new", "connecting"}
          /\ \A q \in Requests \ {r} : at'[q] = at[q]
      BY <1>1, <1>4 DEF Incr, IncrFails, OwnInv, LimiterTypeOK
    <2>2. PICK b \in 1 .. Minutes : b = bucket[r]
      BY <2>1
    <2>3. r \notin Passed(b) /\ Passed(b)' = Passed(b) \cup {r}
      BY <2>1, <2>2 DEF Passed
    <2>4. Cardinality(Passed(b)') = Cardinality(Passed(b)) + 1 /\ Cardinality(Passed(b)) \in Nat
      BY <2>3, PassedGrowsByOne, PassedFacts
    <2>5. count'[b] = count[b] + 1 /\ \A m \in (1 .. Minutes) \ {b} : count'[m] = count[m]
      BY <1>1, <1>4, <2>2 DEF LimiterTypeOK
    <2>6. found'[r] \in {found[r], count[b] + 1} /\ \A q \in Requests \ {r} : found'[q] = found[q]
      BY <1>1, <1>4, <2>2 DEF Incr, IncrFails, LimiterTypeOK
    <2>7. count[b] <= Cardinality(Passed(b)) /\ found[r] = 0
      BY <1>1, <2>1, <2>2 DEF CountInv, OwnInv
    <2>8. ASSUME NEW m \in 1 .. Minutes
          PROVE  /\ count'[m] <= Cardinality(Passed(m)')
                 /\ \A q \in Requests : bucket'[q] = m => found'[q] <= Cardinality(Passed(m)')
      <3>1. CASE m = b
        <4>1. ASSUME NEW q \in Requests, bucket[q] = b
              PROVE  found'[q] <= Cardinality(Passed(b)) + 1
          <5>1. CASE q = r
            BY <1>2, <2>4, <2>6, <2>7, <5>1
          <5>2. CASE q # r
            <6>1. found[q] <= Cardinality(Passed(b)) /\ found[q] \in Nat
              BY <1>1, <4>1 DEF CountInv, LimiterTypeOK
            <6> QED
              BY <2>4, <2>6, <5>2, <6>1
          <5> QED
            BY <5>1, <5>2
        <4>2. count'[b] <= Cardinality(Passed(b)) + 1
          BY <1>2, <2>4, <2>5, <2>7
        <4> QED
          BY <2>1, <2>4, <3>1, <4>1, <4>2
      <3>2. CASE m # b
        <4>1. Passed(m)' = Passed(m)
          BY <2>1, <2>2, <3>2 DEF Passed
        <4>2. \A q \in Requests : bucket[q] = m => found[q] <= Cardinality(Passed(m)) /\ q # r
          BY <1>1, <2>2, <3>2 DEF CountInv
        <4>3. count[m] <= Cardinality(Passed(m)) /\ count'[m] = count[m]
          BY <1>1, <2>5, <3>2 DEF CountInv
        <4> QED
          BY <2>1, <2>6, <4>1, <4>2, <4>3
      <3> QED
        BY <3>1, <3>2
    <2> QED
      BY <2>8 DEF CountInv
  <1>5. ASSUME NEW r \in Requests, IncrFails(r), count' = count PROVE CountInv'
    <2>1. found' = found /\ bucket' = bucket
      BY <1>5 DEF IncrFails
    <2>2. \A m \in 1 .. Minutes : Passed(m) \subseteq Passed(m)'
      BY <1>1, <1>5 DEF IncrFails, Passed, LimiterTypeOK
    <2> QED
      BY <1>2, <1>5, <2>1, <2>2, CountsStay
  <1>6. ASSUME NEW r \in Requests, Expire(r) \/ Decide(r) \/ ExpireFails(r) \/ Dies(r) PROVE CountInv'
    <2>1. found' = found /\ bucket' = bucket /\ count' = count
      BY <1>6 DEF Expire, Decide, ExpireFails, Dies
    <2>2. /\ at'[r] \notin {"new", "connecting"}
          /\ \A q \in Requests \ {r} : at'[q] = at[q]
      BY <1>1, <1>6 DEF Expire, Decide, ExpireFails, Dies, LimiterTypeOK
    <2>3. \A m \in 1 .. Minutes : Passed(m) \subseteq Passed(m)'
      BY <2>1, <2>2 DEF Passed
    <2> QED
      BY <1>2, <2>1, <2>3, CountsStay
  <1>7. ASSUME NEW k \in 1 .. Minutes, KeyExpires(k) PROVE CountInv'
    <2>1. found' = found /\ bucket' = bucket /\ at' = at /\ count' = [count EXCEPT ![k] = 0]
      BY <1>7 DEF KeyExpires
    <2>2. \A m \in 1 .. Minutes : count'[m] <= count[m]
      BY <1>1, <1>2, <2>1 DEF LimiterTypeOK
    <2>3. \A m \in 1 .. Minutes : Passed(m) \subseteq Passed(m)'
      BY <2>1 DEF Passed
    <2> QED
      BY <2>1, <2>2, <2>3, CountsStay
  <1>8. CASE NextMinute
    <2>1. found' = found /\ bucket' = bucket /\ at' = at /\ count' = count
      BY <1>8 DEF NextMinute
    <2>2. \A m \in 1 .. Minutes : Passed(m) \subseteq Passed(m)'
      BY <2>1 DEF Passed
    <2> QED
      BY <1>2, <2>1, <2>2, CountsStay
  <1>9. ASSUME NEW r \in Requests, Incr(r) PROVE CountInv'
    BY <1>4, <1>9 DEF Incr
  <1>10. ASSUME NEW r \in Requests, IncrFails(r) PROVE CountInv'
    BY <1>4, <1>5, <1>10 DEF IncrFails
  <1> QED
    BY <1>3, <1>6, <1>7, <1>8, <1>9, <1>10 DEF LimiterNext

------------------------------------------------------------------------------
(* The keys without a TTL. *)

LEMMA TtlStep ==
    ASSUME LimiterInv, LimiterTypeOK', LimiterNext
    PROVE  TtlInv'
  <1>1. LimiterTypeOK /\ OwnInv /\ TtlInv
    BY DEF LimiterInv
  <1>2. \A m \in 1 .. Minutes : count[m] \in Nat
    BY <1>1 DEF LimiterTypeOK
  <1> SUFFICES ASSUME NEW m \in (1 .. Minutes) \ (expires' \cup cut'), count'[m] > 0
               PROVE  \E q \in Requests : bucket'[q] = m /\ found'[q] = 1 /\ at'[q] = "counted"
    BY DEF TtlInv
  <1>3. ASSUME m \notin expires \cup cut, count[m] > 0
        PROVE  \E q \in Requests : bucket[q] = m /\ found[q] = 1 /\ at[q] = "counted"
    BY <1>1, <1>3 DEF TtlInv
  <1> USE DEF LimiterTypeOK
  <1>4. ASSUME NEW r \in Requests, Arrive(r)
        PROVE  \E q \in Requests : bucket'[q] = m /\ found'[q] = 1 /\ at'[q] = "counted"
    <2>1. PICK q \in Requests : bucket[q] = m /\ found[q] = 1 /\ at[q] = "counted"
      BY <1>3, <1>4 DEF Arrive
    <2>2. bucket'[q] = m /\ found'[q] = 1 /\ at'[q] = "counted"
      BY <1>1, <1>4, <2>1 DEF Arrive
    <2> QED
      BY <2>2
  <1>5. ASSUME NEW r \in Requests, Incr(r)
        PROVE  \E q \in Requests : bucket'[q] = m /\ found'[q] = 1 /\ at'[q] = "counted"
    <2>1. bucket' = bucket /\ m \notin expires \cup cut
      BY <1>5 DEF Incr
    <2>2. CASE m = bucket[r] /\ count[m] = 0
      <3>1. bucket'[r] = m /\ found'[r] = 1 /\ at'[r] = "counted"
        BY <1>1, <1>5, <2>1, <2>2 DEF Incr
      <3> QED
        BY <3>1
    <2>3. CASE ~(m = bucket[r] /\ count[m] = 0)
      <3>1. count[m] > 0
        BY <1>1, <1>2, <1>5, <2>3 DEF Incr
      <3>2. PICK q \in Requests : bucket[q] = m /\ found[q] = 1 /\ at[q] = "counted"
        BY <1>3, <2>1, <3>1
      <3>3. q # r
        BY <1>5, <3>2 DEF Incr
      <3>4. bucket'[q] = m /\ found'[q] = 1 /\ at'[q] = "counted"
        BY <1>1, <1>5, <3>2, <3>3 DEF Incr
      <3> QED
        BY <3>4
    <2> QED
      BY <2>2, <2>3
  <1>6. ASSUME NEW r \in Requests, IncrFails(r)
        PROVE  \E q \in Requests : bucket'[q] = m /\ found'[q] = 1 /\ at'[q] = "counted"
    <2>1. bucket' = bucket /\ found' = found /\ m \notin expires \cup cut
      BY <1>6 DEF IncrFails
    <2>2. count[m] > 0
      <3>1. CASE count' = count
        BY <3>1
      <3>2. CASE /\ count' = [count EXCEPT ![bucket[r]] = @ + 1]
                 /\ cut' = IF count[bucket[r]] = 0 THEN cut \cup {bucket[r]} ELSE cut
        BY <1>1, <1>2, <3>2
      <3> QED
        BY <1>6, <3>1, <3>2 DEF IncrFails
    <2>3. PICK q \in Requests : bucket[q] = m /\ found[q] = 1 /\ at[q] = "counted"
      BY <1>3, <2>1, <2>2
    <2>4. at'[q] = "counted"
      BY <1>1, <1>6, <2>3 DEF IncrFails
    <2> QED
      BY <2>1, <2>3, <2>4
  <1>7. ASSUME NEW r \in Requests, Expire(r) \/ Decide(r) \/ ExpireFails(r) \/ Dies(r)
        PROVE  \E q \in Requests : bucket'[q] = m /\ found'[q] = 1 /\ at'[q] = "counted"
    <2>1. bucket' = bucket /\ found' = found /\ count' = count /\ \A q \in Requests \ {r} : at'[q] = at[q]
      BY <1>1, <1>7 DEF Expire, Decide, ExpireFails, Dies
    <2>2. m \notin expires \cup cut
      BY <1>7 DEF Expire, Decide, ExpireFails, Dies
    <2>3. PICK q \in Requests : bucket[q] = m /\ found[q] = 1 /\ at[q] = "counted"
      BY <1>3, <2>1, <2>2
    <2>4. ASSUME q = r PROVE FALSE
      <3>1. CASE Expire(r)
        BY <2>1, <2>3, <2>4, <3>1 DEF Expire
      <3>2. CASE Decide(r)
        BY <2>3, <2>4, <3>2 DEF Decide
      <3>3. CASE ExpireFails(r)
        BY <2>3, <2>4, <3>3 DEF ExpireFails
      <3>4. CASE Dies(r)
        BY <2>3, <2>4, <3>4 DEF Dies
      <3> QED
        BY <1>7, <3>1, <3>2, <3>3, <3>4
    <2> QED
      BY <2>1, <2>3, <2>4
  <1>8. ASSUME NEW k \in 1 .. Minutes, KeyExpires(k)
        PROVE  \E q \in Requests : bucket'[q] = m /\ found'[q] = 1 /\ at'[q] = "counted"
    <2>1. m # k /\ m \notin expires \cup cut /\ count[m] > 0
      BY <1>1, <1>8 DEF KeyExpires
    <2>2. bucket' = bucket /\ found' = found /\ at' = at
      BY <1>8 DEF KeyExpires
    <2> QED
      BY <1>3, <2>1, <2>2
  <1>9. CASE NextMinute
    <2>1. bucket' = bucket /\ found' = found /\ at' = at /\ count' = count /\ m \notin expires \cup cut
      BY <1>9 DEF NextMinute
    <2> QED
      BY <1>3, <2>1
  <1> QED
    BY <1>4, <1>5, <1>6, <1>7, <1>8, <1>9 DEF LimiterNext

------------------------------------------------------------------------------
LEMMA LimiterStep == LimiterInv /\ [LimiterNext]_limiterVars => LimiterInv'
  <1>1. ASSUME LimiterInv, LimiterNext PROVE LimiterInv'
    <2>1. LimiterTypeOK'
      BY <1>1, LimiterTypeStep
    <2>2. OwnInv' /\ NumbersInv' /\ CountInv' /\ TtlInv'
      BY <1>1, <2>1, OwnStep, NumbersStep, CountStep, TtlStep
    <2> QED
      BY <2>1, <2>2 DEF LimiterInv
  <1>2. ASSUME LimiterInv, UNCHANGED limiterVars PROVE LimiterInv'
    <2>2. LimiterTypeOK' /\ OwnInv' /\ TtlInv'
      BY <1>2 DEF LimiterInv, LimiterTypeOK, OwnInv, TtlInv, limiterVars
    <2>3. NumbersInv'
      BY <1>2 DEF LimiterInv, NumbersInv, Seen, limiterVars
    <2>4. CountInv'
      BY <1>2 DEF LimiterInv, CountInv, Passed, limiterVars
    <2> QED
      BY <2>2, <2>3, <2>4 DEF LimiterInv
  <1> QED
    BY <1>1, <1>2

\* RateLimiter.__call__: the state of keys and requests keeps its shape.
THEOREM LimiterTypeCorrect == LimiterSpec => []LimiterTypeOK
  <1>1. LimiterInv => LimiterTypeOK
    BY DEF LimiterInv
  <1> QED
    BY <1>1, LimiterStart, LimiterStep, PTL DEF LimiterSpec

\* RateLimiter.__call__, deps.py:123-151: whatever fails and however requests and minutes
\* interleave, a minute whose key was made once lets in no more than Limit of the requests
\* it could count, only a minute with more requests than that refuses any, and a key stays
\* without a TTL only until the request that made it has set one, or has failed to.
THEOREM LimitIsKept == LimiterSpec => []LimitHolds
  <1> QED
    BY LimiterStart, LimiterStep, LimiterInvImpliesLimit, PTL DEF LimiterSpec

------------------------------------------------------------------------------
(* The parts side by side. *)

\* Every part begins as it does alone.
LEMMA PartsStart ==
    Init => /\ WorkflowInit /\ NotificationsInit /\ LimiterInit /\ EscalationInit /\ AnomaliesInit
            /\ CausesInit
BY DEF Init, Begin

\* A step of the operations is one of a part, and leaves the others alone.
LEMMA PartsStep ==
    [Next]_operationsVars =>
        /\ [WorkflowNext]_workflowVars /\ [NotificationsNext]_notificationVars
        /\ [LimiterNext]_limiterVars /\ [EscalationNext]_escalationVars
        /\ [AnomaliesNext]_anomaliesVars /\ [CausesNext]_causesVars
<1>1. ASSUME Next
      PROVE  /\ [WorkflowNext]_workflowVars /\ [NotificationsNext]_notificationVars
             /\ [LimiterNext]_limiterVars /\ [EscalationNext]_escalationVars
             /\ [AnomaliesNext]_anomaliesVars /\ [CausesNext]_causesVars
  <2>1. subject = "workflow" => WorkflowNext
    BY <1>1 DEF Next, Moves
  <2>2. subject = "notification" => NotificationsNext
    BY <1>1 DEF Next, Moves
  <2>3. subject = "limiter" => LimiterNext
    BY <1>1 DEF Next, Moves
  <2>4. subject = "escalation" => EscalationNext
    BY <1>1 DEF Next, Moves
  <2>5. subject = "anomaly" => AnomaliesNext
    BY <1>1 DEF Next, Moves
  <2>6. subject = "cause" => CausesNext
    BY <1>1 DEF Next, Moves
  <2> QED
    BY <1>1, <2>1, <2>2, <2>3, <2>4, <2>5, <2>6 DEF Next
<1>2. ASSUME UNCHANGED operationsVars
      PROVE  /\ UNCHANGED workflowVars /\ UNCHANGED notificationVars /\ UNCHANGED limiterVars
             /\ UNCHANGED escalationVars /\ UNCHANGED anomaliesVars /\ UNCHANGED causesVars
  BY <1>2 DEF operationsVars
<1> QED
  BY <1>1, <1>2

\* What follows is proved of each part alone: the operations are behaviours of all of them.
THEOREM OperationsAreOfTheirParts ==
    Spec => /\ WorkflowSpec /\ NotificationsSpec /\ LimiterSpec /\ EscalationSpec /\ AnomaliesSpec
            /\ CausesSpec
BY PartsStart, PartsStep, PTL
   DEF Spec, WorkflowSpec, NotificationsSpec, LimiterSpec, EscalationSpec, AnomaliesSpec, CausesSpec

\* What is given to the two parts that are functions.
InputsOK ==
    /\ MaterialOK(material)
    /\ eventLog \in Seq(LogEvents)
    /\ open \in [LogEntities -> Nat]

LEMMA InputsStart == Init => InputsOK
<1> SUFFICES ASSUME Init PROVE InputsOK
  OBVIOUS
<1>1. Prompts \subseteq Nat /\ OpenAlerts \subseteq Nat
  BY OperationsAssumption
<1>2. MaterialOK(material)
  <2>1. material \in [prompt : Prompts, messages : {<<>>}, chunks : {<<>>}, tools : {<<>>}]
    BY DEF Init, Begin
  <2>2. <<>> \in Seq(Message) /\ <<>> \in Seq(Chunk) /\ <<>> \in Seq(Nat)
    OBVIOUS
  <2> QED
    BY <1>1, <2>1, <2>2 DEF MaterialOK
<1>3. eventLog \in Seq(LogEvents)
  BY DEF Init, Begin
<1>4. open \in [LogEntities -> Nat]
  <2>1. \/ open \in [LogEntities -> OpenAlerts]
        \/ open = [e \in LogEntities |-> 0]
    BY DEF Init, Begin
  <2>2. CASE open \in [LogEntities -> OpenAlerts]
    BY <1>1, <2>2
  <2>3. CASE open = [e \in LogEntities |-> 0]
    BY <2>3
  <2> QED
    BY <2>1, <2>2, <2>3
<1> QED
  BY <1>2, <1>3, <1>4 DEF InputsOK

LEMMA InputsStep == InputsOK /\ [Next]_operationsVars => InputsOK'
<1> SUFFICES ASSUME InputsOK, [Next]_operationsVars PROVE InputsOK'
  OBVIOUS
<1>1. MaterialOK(material) /\ eventLog \in Seq(LogEvents) /\ open \in [LogEntities -> Nat]
  BY DEF InputsOK
<1>2. open' = open
  BY DEF Next, operationsVars
<1>3. \/ UNCHANGED material
      \/ Says \/ Finds \/ Prints
  BY DEF Next, Moves, operationsVars
<1>4. \/ UNCHANGED eventLog
      \/ Happens
  BY DEF Next, Moves, operationsVars
<1>5. /\ Messages \subseteq Message /\ Chunks \subseteq Chunk /\ Results \subseteq Nat
  BY OperationsAssumption DEF Message, Chunk
<1>6. MaterialOK(material')
  <2>1. CASE UNCHANGED material
    BY <1>1, <2>1
  <2>2. CASE Says
    <3>1. PICK m \in Messages : material' = [material EXCEPT !.messages = Append(@, m)]
      BY <2>2 DEF Says
    <3>2. Append(material.messages, m) \in Seq(Message)
      BY <1>1, <1>5 DEF MaterialOK
    <3> QED
      BY <1>1, <3>1, <3>2 DEF MaterialOK
  <2>3. CASE Finds
    <3>1. PICK c \in Chunks : material' = [material EXCEPT !.chunks = Append(@, c)]
      BY <2>3 DEF Finds
    <3>2. Append(material.chunks, c) \in Seq(Chunk)
      BY <1>1, <1>5 DEF MaterialOK
    <3> QED
      BY <1>1, <3>1, <3>2 DEF MaterialOK
  <2>4. CASE Prints
    <3>1. PICK r \in Results : material' = [material EXCEPT !.tools = Append(@, r)]
      BY <2>4 DEF Prints
    <3>2. Append(material.tools, r) \in Seq(Nat)
      BY <1>1, <1>5 DEF MaterialOK
    <3> QED
      BY <1>1, <3>1, <3>2 DEF MaterialOK
  <2> QED
    BY <1>3, <2>1, <2>2, <2>3, <2>4
<1>7. eventLog' \in Seq(LogEvents)
  BY <1>1, <1>4 DEF Happens
<1> QED
  BY <1>1, <1>2, <1>6, <1>7 DEF InputsOK

\* The state of every part stays of its type.
THEOREM OperationsTypeCorrect == Spec => []TypeOK
<1>1. Spec => [](EscalationTypeOK /\ AnomaliesTypeOK /\ CausesTypeOK)
  <2>1. EscalationSpec => []EscalationTypeOK
    BY EscalationTypeCorrect
  <2>2. AnomaliesSpec => []AnomaliesTypeOK
    BY AnomaliesStart, AnomaliesStep, AnomaliesSound, PTL DEF AnomaliesSpec
  <2>3. CausesSpec => []CausesTypeOK
    BY CausesStart, CausesStep, CausesSound, PTL DEF CausesSpec
  <2> QED
    BY <2>1, <2>2, <2>3, OperationsAreOfTheirParts, PTL
<1> QED
  BY <1>1, OperationsAreOfTheirParts, WorkflowTypeCorrect, NotificationsTypeCorrect, LimiterTypeCorrect,
     PTL DEF TypeOK

\* ContextAssembler.assemble, for any prompts, messages, chunks and results of tools, in any
\* number: every section keeps within its share.
THEOREM ContextsFit == Spec => []AssembledFits
<1>1. InputsOK => AssembledFits
  BY EverySectionFits DEF InputsOK, AssembledFits
<1> QED
  BY <1>1, InputsStart, InputsStep, PTL DEF Spec

\* AnomalyDetector, RootCauseAnalyzer and PredictiveEngine, for any events and any number of
\* active alerts: what they find follows from the events.
THEOREM FindingsFollow == Spec => []FindingsAreSound
<1>1. InputsOK => PredictionsAreSound(eventLog, open)
  <2> SUFFICES ASSUME InputsOK PROVE PredictionsAreSound(eventLog, open)
    OBVIOUS
  <2>1. /\ eventLog \in Seq(LogEvents) /\ \A event \in LogEvents : EventOfLog(event)
        /\ open \in [LogEntities -> Nat]
    BY OperationsAssumption DEF InputsOK
  <2>2. \A event \in LogEvents : open[event.entity] \in Nat
    BY <2>1 DEF LogEntities
  <2> QED
    BY <2>1, <2>2, PredictionsFollow
<1>2. Spec => []InputsOK
  BY InputsStart, InputsStep, PTL DEF Spec
<1>3. Spec => []PredictionsAreSound(eventLog, open)
  BY <1>1, <1>2, PTL
<1> QED
  BY <1>3, OperationsAreOfTheirParts, AnomaliesFollow, CausesFollow, PTL DEF FindingsAreSound
================================================================================
