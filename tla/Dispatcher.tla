----------------------------- MODULE Dispatcher -----------------------------
(***************************************************************************)
(* Outbound notifications of alerts (internal/alerts/notify.go): Dispatch  *)
(* runs deliverWithRetry for every notifier in a goroutine of its own and  *)
(* returns when all of them have returned.                                 *)
(*                                                                         *)
(* Alerts are numbered in the order they are raised.  A Deliver succeeds,  *)
(* fails for good (ErrPermanent) or fails in a way worth retrying; what    *)
(* the remote end saw is not modelled, nor is the count of retries.        *)
(***************************************************************************)
EXTENDS Integers, FiniteSets

CONSTANTS
  Notifiers,   \* Dispatcher.notifiers
  AttemptsArg, \* RetryPolicy.MaxAttempts as NewDispatcher gets it
  MaxAlerts    \* bound: alerts ever raised

ASSUME DispatcherAssumption == AttemptsArg \in Int /\ MaxAlerts \in Nat

\* NewDispatcher replaces a non-positive value.
MaxAttempts == IF AttemptsArg <= 0 THEN 1 ELSE AttemptsArg

Alerts == 1 .. MaxAlerts
Deliveries == Alerts \X Notifiers

VARIABLES
  job,        \* where deliverWithRetry of an alert and a notifier is;
              \* "gone" when its process has ended (DeadLetters)
  attempt,    \* its loop variable
  permanent,  \* history: deliveries that met ErrPermanent
  delivered,  \* deliveries counted by the delivered metric
  deadLet,    \* deliveries counted by the deadLet metric
  dlq,        \* deliveries the dead-letter store accepted
  cancelled   \* the context given to Dispatch is cancelled

dispVars == <<job, attempt, permanent, delivered, deadLet, dlq>>
vars == <<dispVars, cancelled>>

Init ==
  /\ job = [d \in Deliveries |-> "none"]
  /\ attempt = [d \in Deliveries |-> 0]
  /\ permanent = {} /\ delivered = {} /\ deadLet = {} /\ dlq = {}
  /\ cancelled = FALSE

-----------------------------------------------------------------------------
\* Dispatch: a goroutine per notifier.
Dispatch(a) ==
  /\ job' = [d \in Deliveries |-> IF d[1] = a THEN "try" ELSE job[d]]
  /\ attempt' = [d \in Deliveries |-> IF d[1] = a THEN 1 ELSE attempt[d]]
  /\ UNCHANGED <<permanent, delivered, deadLet, dlq>>

\* Deliver returns nil.
DeliverOk(d) ==
  /\ job[d] = "try"
  /\ job' = [job EXCEPT ![d] = "returned"]
  /\ delivered' = delivered \cup {d}
  /\ UNCHANGED <<attempt, permanent, deadLet, dlq, cancelled>>

\* Deliver fails for good, or fails when the context is already cancelled.
DeliverGivesUp(d, perm) ==
  /\ job[d] = "try"
  /\ perm \/ cancelled
  /\ permanent' = IF perm THEN permanent \cup {d} ELSE permanent
  /\ job' = [job EXCEPT ![d] = "dead"]
  /\ UNCHANGED <<attempt, delivered, deadLet, dlq, cancelled>>

\* Any other failure is followed by a pause, even after the last attempt.
DeliverFails(d) ==
  /\ job[d] = "try" /\ ~cancelled
  /\ job' = [job EXCEPT ![d] = "backoff"]
  /\ UNCHANGED <<attempt, permanent, delivered, deadLet, dlq, cancelled>>

\* A loop that runs one attempt short.
BackoffElapsesShort(d) ==
  /\ job[d] = "backoff"
  /\ IF attempt[d] + 1 < MaxAttempts
     THEN /\ attempt' = [attempt EXCEPT ![d] = @ + 1]
          /\ job' = [job EXCEPT ![d] = "try"]
     ELSE job' = [job EXCEPT ![d] = "dead"] /\ UNCHANGED attempt
  /\ UNCHANGED <<permanent, delivered, deadLet, dlq, cancelled>>

\* A loop that runs one attempt over.
BackoffElapsesLong(d) ==
  /\ job[d] = "backoff"
  /\ IF attempt[d] <= MaxAttempts
     THEN /\ attempt' = [attempt EXCEPT ![d] = @ + 1]
          /\ job' = [job EXCEPT ![d] = "try"]
     ELSE job' = [job EXCEPT ![d] = "dead"] /\ UNCHANGED attempt
  /\ UNCHANGED <<permanent, delivered, deadLet, dlq, cancelled>>

\* A loop that returns when its attempts are used up.
BackoffElapsesReturns(d) ==
  /\ job[d] = "backoff"
  /\ IF attempt[d] < MaxAttempts
     THEN /\ attempt' = [attempt EXCEPT ![d] = @ + 1]
          /\ job' = [job EXCEPT ![d] = "try"]
     ELSE job' = [job EXCEPT ![d] = "returned"] /\ UNCHANGED attempt
  /\ UNCHANGED <<permanent, delivered, deadLet, dlq, cancelled>>

\* The pause is over: the next attempt, or the dead-letter queue.
BackoffElapses(d) ==
  /\ job[d] = "backoff"
  /\ IF attempt[d] < MaxAttempts
     THEN /\ attempt' = [attempt EXCEPT ![d] = @ + 1]
          /\ job' = [job EXCEPT ![d] = "try"]
     ELSE job' = [job EXCEPT ![d] = "dead"] /\ UNCHANGED attempt
  /\ UNCHANGED <<permanent, delivered, deadLet, dlq, cancelled>>

\* The context is cancelled during the pause: return, no dead letter.
BackoffCancelled(d) ==
  /\ job[d] = "backoff" /\ cancelled
  /\ job' = [job EXCEPT ![d] = "returned"]
  /\ UNCHANGED <<attempt, permanent, delivered, deadLet, dlq, cancelled>>

\* A goroutine that never reaches its end.
DeadLetterNever(d) == FALSE /\ job[d] = "dead" /\ UNCHANGED vars

\* The dead letter is counted, then inserted; an error of the insert is
\* ignored.  DeadLetters says what the store makes of it.
DeadLetter(d) ==
  /\ job[d] = "dead"
  /\ deadLet' = deadLet \cup {d}
  /\ dlq' \in {dlq, dlq \cup {d}}
  /\ job' = [job EXCEPT ![d] = "returned"]
  /\ UNCHANGED <<attempt, permanent, delivered, cancelled>>

\* The server's root context is cancelled.
Cancel ==
  /\ ~cancelled
  /\ cancelled' = TRUE
  /\ UNCHANGED dispVars

JobStep(d) ==
  \/ DeliverOk(d) \/ DeliverFails(d)
  \/ \E perm \in BOOLEAN : DeliverGivesUp(d, perm)
  \/ BackoffElapses(d) \/ BackoffCancelled(d)
  \/ DeadLetter(d)

\* Whether Dispatch of alert a has been called, and has returned.
Dispatched(a) == \A n \in Notifiers : job[<<a, n>>] # "none"
Returned(a) == \A n \in Notifiers : job[<<a, n>>] = "returned"

\* The environment: Dispatch is called for the next alert at any time.
DispatchNext ==
  /\ \E a \in Alerts :
       /\ ~Dispatched(a)
       /\ \A b \in Alerts : b < a => Dispatched(b)
       /\ Dispatch(a)
  /\ UNCHANGED cancelled

Next == DispatchNext \/ Cancel \/ \E d \in Deliveries : JobStep(d)

\* Deliver returns, as every notifier's HTTP client has a timeout, timers
\* fire, and goroutines are scheduled.
Fairness == \A d \in Deliveries : WF_vars(JobStep(d))

Spec == Init /\ [][Next]_vars /\ Fairness

-----------------------------------------------------------------------------
(***************************************************************************)
(* Properties                                                              *)
(***************************************************************************)

\* The type of every variable.
TypeOK ==
  /\ job \in [Deliveries -> {"none", "try", "backoff", "dead", "returned", "gone"}]
  /\ attempt \in [Deliveries -> 0 .. MaxAttempts]
  /\ permanent \subseteq Deliveries /\ delivered \subseteq Deliveries
  /\ deadLet \subseteq Deliveries /\ dlq \subseteq Deliveries
  /\ cancelled \in BOOLEAN

\* A delivery that has returned was delivered or counted as a dead letter,
\* never both; only a cancelled context lets one return with neither.  It gives
\* up early only for a permanent failure or a cancelled context: every other
\* dead letter has used up MaxAttempts ("total tries before dead-lettering",
\* notify.go RetryPolicy, deliverWithRetry), and the dead-letter queue holds
\* nothing that was not counted.
OneFate ==
  /\ \A d \in Deliveries :
       /\ ~(d \in delivered /\ d \in deadLet)
       /\ job[d] = "returned" /\ ~cancelled => d \in delivered \cup deadLet
       /\ d \in deadLet =>
            attempt[d] = MaxAttempts \/ d \in permanent \/ cancelled
  /\ dlq \subseteq deadLet

\* A Dispatch that is called returns, unless its process ends first
\* (notify.go Dispatch).
DispatchReturns ==
  \A a \in Alerts : Dispatched(a) ~>
    (Returned(a) \/ \A n \in Notifiers : job[<<a, n>>] = "gone")

\* "The call returns once all notifiers have either succeeded or been
\* dead-lettered" (notify.go Dispatch).
ReturnedMeansSettled ==
  \A a \in Alerts : Returned(a) =>
    \A n \in Notifiers : <<a, n>> \in delivered \cup deadLet

=============================================================================
