---------------------------- MODULE AlertEngine ----------------------------
(***************************************************************************)
(* The alert engine (internal/alerts/engine.go) with its dispatcher: one   *)
(* goroutine takes records from the bus, evaluates the rules it has cached *)
(* against each, suppresses repeats within the dedupe window, inserts an   *)
(* alert and starts a Dispatch for it.  The process may end at any moment, *)
(* and takes the goroutines of the Dispatches with it.                     *)
(*                                                                         *)
(* Time advances in ticks, and within evaluate, which reads the clock more *)
(* than once.  Matching is data: Matches says which rules match the        *)
(* records of a source, and a source stands for a connector id and a       *)
(* source id together.  A reload may find any rules in the store.          *)
(***************************************************************************)
EXTENDS Integers, Sequences, FiniteSets

CONSTANTS
  Rules,        \* ids of alert rules
  Sources,      \* sources of records
  Matches,      \* the rules that match a record of each source
  Window,       \* dedupeWindow, in ticks
  MaxTime,      \* bound: the last tick
  Notifiers, AttemptsArg, MaxAlerts   \* as in Dispatcher

ASSUME AlertEngineAssumption ==
  /\ IsFiniteSet(Rules) /\ Matches \in [Sources -> SUBSET Rules]
  /\ Window \in Nat \ {0} /\ MaxTime \in Nat
  /\ AttemptsArg \in Int /\ MaxAlerts \in Nat

VARIABLES job, attempt, permanent, delivered, deadLet, dlq, cancelled

dispVars == <<job, attempt, permanent, delivered, deadLet, dlq>>

D == INSTANCE Dispatcher

VARIABLES
  now,         \* the clock
  rules,       \* the enabled rules of Engine.rules
  dedupe,      \* Engine.dedupe: when each key was last noted, or Never
  engine,      \* "loading", "loop" or "done"; "gone" with its process
  todo,        \* the keys evaluate has still to look at
  raised,      \* history: the alerts, in order: the key, when it was noted
               \* and whether InsertAlert stored the alert
  suppressed   \* history: the keys the dedupe map suppressed, with the times

vars == <<dispVars, cancelled, now, rules, dedupe, engine, todo, raised, suppressed>>

Keys == Rules \X Sources
Never == -1
Times == 0 .. MaxTime

Init ==
  /\ D!Init
  /\ now = 0
  /\ rules = {}
  /\ dedupe = [k \in Keys |-> Never]
  /\ engine = "loading"
  /\ todo = {}
  /\ raised = <<>> /\ suppressed = {}

-----------------------------------------------------------------------------
Tick ==
  /\ now < MaxTime /\ engine # "gone"
  /\ now' = now + 1
  /\ UNCHANGED <<dispVars, cancelled, rules, dedupe, engine, todo, raised, suppressed>>

\* Run: the first load of the rules; a failed one leaves none.
Load(rs) ==
  /\ engine = "loading"
  /\ engine' = "loop"
  /\ rules' = rs
  /\ UNCHANGED <<dispVars, cancelled, now, dedupe, todo, raised, suppressed>>

\* The goroutine is at the select of Run.
AtSelect == engine = "loop" /\ todo = {}

\* case <-reloadTick.C; a failed reload keeps the rules.
Reload(rs) ==
  /\ AtSelect
  /\ rules' = rs
  /\ UNCHANGED <<dispVars, cancelled, now, dedupe, engine, todo, raised, suppressed>>

\* A prune whose cut forgets the window.
PruneNow ==
  /\ AtSelect
  /\ dedupe' = [k \in Keys |-> IF dedupe[k] < now THEN Never ELSE dedupe[k]]
  /\ UNCHANGED <<dispVars, cancelled, now, rules, engine, todo, raised, suppressed>>

\* case <-pruneTick.C.
Prune ==
  /\ AtSelect
  /\ dedupe' = [k \in Keys |-> IF dedupe[k] < now - Window THEN Never ELSE dedupe[k]]
  /\ UNCHANGED <<dispVars, cancelled, now, rules, engine, todo, raised, suppressed>>

\* case rec := <-sub.C(): evaluate copies the rules and begins its loop.
Receive(s) ==
  /\ AtSelect
  /\ todo' = {k \in Keys : k[1] \in rules \cap Matches[s] /\ k[2] = s}
  /\ Len(raised) + Cardinality(todo') <= MaxAlerts
  /\ UNCHANGED <<dispVars, cancelled, now, rules, dedupe, engine, raised, suppressed>>

\* The key was noted less than a window ago.
Fresh(k) == dedupe[k] # Never /\ now - dedupe[k] < Window

\* evaluate comes to a key of its record.
Looks(k) == engine = "loop" /\ k \in todo /\ todo' = todo \ {k}

\* A suppression that restarts the window.
SuppressSliding(k) ==
  /\ Looks(k) /\ Fresh(k)
  /\ suppressed' = suppressed \cup {<<k, now>>}
  /\ dedupe' = [dedupe EXCEPT ![k] = now]
  /\ UNCHANGED <<dispVars, cancelled, now, rules, engine, raised>>

\* evaluate: one more match of a fresh key.
Suppress(k) ==
  /\ Looks(k) /\ Fresh(k)
  /\ suppressed' = suppressed \cup {<<k, now>>}
  /\ UNCHANGED <<dispVars, cancelled, now, rules, dedupe, engine, raised>>

\* The key is noted at one reading of the clock; the alert is triggered, and its
\* insert has come back, at a later one.
Notes(k, noted, saved) ==
  /\ now' \in noted .. MaxTime
  /\ raised' = Append(raised, [key |-> k, noted |-> noted, saved |-> saved])

\* An evaluate that notes when the window ends, not when it began.
RaiseUntil(k) ==
  /\ Looks(k) /\ ~Fresh(k)
  /\ \E noted \in now .. MaxTime, saved \in BOOLEAN :
       /\ dedupe' = [dedupe EXCEPT ![k] = noted + Window]
       /\ Notes(k, noted, saved)
  /\ D!Dispatch(Len(raised) + 1)
  /\ UNCHANGED <<cancelled, rules, engine, suppressed>>

\* An evaluate that inserts the alert and dispatches nothing.
RaiseQuietly(k) ==
  /\ Looks(k) /\ ~Fresh(k)
  /\ \E noted \in now .. MaxTime, saved \in BOOLEAN :
       /\ dedupe' = [dedupe EXCEPT ![k] = noted]
       /\ Notes(k, noted, saved)
  /\ UNCHANGED <<dispVars, cancelled, rules, engine, suppressed>>

\* An evaluate that goes on to the next rule when the insert has failed.
RaiseOnlyWhenSaved(k) ==
  /\ Looks(k) /\ ~Fresh(k)
  /\ \E noted \in now .. MaxTime, saved \in BOOLEAN :
       /\ dedupe' = [dedupe EXCEPT ![k] = noted]
       /\ Notes(k, noted, saved)
       /\ IF saved THEN D!Dispatch(Len(raised) + 1) ELSE UNCHANGED dispVars
  /\ UNCHANGED <<cancelled, rules, engine, suppressed>>

\* evaluate: time.Since is tested, the key noted, the alert built and inserted
\* and a Dispatch started, whether or not InsertAlert has failed.
Raise(k) ==
  /\ Looks(k) /\ ~Fresh(k)
  /\ \E noted \in now .. MaxTime, saved \in BOOLEAN :
       /\ dedupe' = [dedupe EXCEPT ![k] = noted]
       /\ Notes(k, noted, saved)
  /\ D!Dispatch(Len(raised) + 1)
  /\ UNCHANGED <<cancelled, rules, engine, suppressed>>

\* A ctx.Done case that leaves the select instead of the function.
EngineDoneBreaks == AtSelect /\ cancelled /\ UNCHANGED vars

\* case <-ctx.Done(): Run returns.
EngineDone ==
  /\ AtSelect /\ cancelled
  /\ engine' = "done"
  /\ UNCHANGED <<dispVars, cancelled, now, rules, dedupe, todo, raised, suppressed>>

\* main has returned, the engine done or its two seconds over, or the process is
\* killed: nothing waits for the goroutines of the Dispatches.
ProcessEnds ==
  /\ engine # "gone"
  /\ engine' = "gone"
  /\ job' = [d \in D!Deliveries |->
               IF job[d] \in {"none", "returned"} THEN job[d] ELSE "gone"]
  /\ UNCHANGED <<attempt, permanent, delivered, deadLet, dlq, cancelled, now, rules,
                 dedupe, todo, raised, suppressed>>

Evaluate == \E k \in Keys : Suppress(k) \/ Raise(k)

DispatcherStep ==
  /\ D!Cancel \/ \E d \in D!Deliveries : D!JobStep(d)
  /\ UNCHANGED <<now, rules, dedupe, engine, todo, raised, suppressed>>

Next ==
  \/ Tick \/ Prune \/ Evaluate \/ EngineDone \/ DispatcherStep \/ ProcessEnds
  \/ \E rs \in SUBSET Rules : Load(rs) \/ Reload(rs)
  \/ \E s \in Sources : Receive(s)

\* The engine's goroutine is scheduled, its rule load returns, and the select,
\* which picks among its ready cases at random, takes ctx.Done in the end;
\* deliveries return as in Dispatcher.  No record, reload, tick or
\* end of the process is owed.
Fairness ==
  /\ WF_vars(\E rs \in SUBSET Rules : Load(rs))
  /\ WF_vars(Evaluate)
  /\ SF_vars(EngineDone)
  /\ \A d \in D!Deliveries :
       WF_vars(D!JobStep(d) /\ UNCHANGED <<now, rules, dedupe, engine, todo,
                                            raised, suppressed>>)

Spec == Init /\ [][Next]_vars /\ Fairness

-----------------------------------------------------------------------------
(***************************************************************************)
(* Properties                                                              *)
(***************************************************************************)

\* The type of every variable; alerts are dispatched as they are raised.
TypeOK ==
  /\ D!TypeOK
  /\ now \in Times /\ rules \subseteq Rules
  /\ dedupe \in [Keys -> Times \cup {Never}]
  /\ engine \in {"loading", "loop", "done", "gone"}
  /\ todo \subseteq Keys
  /\ raised \in Seq([key : Keys, noted : Times, saved : BOOLEAN])
  /\ Len(raised) <= MaxAlerts
  /\ suppressed \subseteq Keys \X Times

\* Two alerts of one rule for one source are noted a dedupe window or more
\* apart, whatever prunes and reloads come between ("prevents re-emitting the
\* same alert for the same (rule, source)", engine.go Engine).  Their Triggered
\* times, read later, may be closer by what evaluate took in between.
AlertsSpaced ==
  \A i, j \in 1 .. Len(raised) :
    (i < j /\ raised[i].key = raised[j].key)
      => raised[j].noted - raised[i].noted >= Window

\* A match is suppressed only for an alert of the same rule and source, noted
\* less than a window before, that was given to the dispatcher: a source that
\* keeps matching is notified of once per window, even if the insert of the
\* alert has failed and the table lacks it (engine.go evaluate).
SuppressedByAlert ==
  \A x \in suppressed : \E i \in 1 .. Len(raised) :
    /\ raised[i].key = x[1]
    /\ raised[i].noted <= x[2] /\ x[2] - raised[i].noted < Window
    /\ D!Dispatched(i)

\* Every alert raised is dispatched, and each of its deliveries returns, before
\* or after the engine has ended, unless the process ends first: main waits
\* for the engine but for no Dispatch (engine.go evaluate, notify.go Dispatch).
AlertsSettle ==
  \A a \in D!Alerts : (Len(raised) >= a) ~>
    \A n \in Notifiers : job[<<a, n>>] \in {"returned", "gone"}

\* Once the root context is cancelled the engine ends, by itself or with its
\* process (engine.go Run).
EngineStops == cancelled ~> (engine \in {"done", "gone"})

=============================================================================
