-------------------------------- MODULE Saga --------------------------------
(***************************************************************************)
(* The sb-tx SagaOrchestrator (saga.rs) over InMemorySagaStore             *)
(* (memory/saga_store.rs) for one saga instance.  A tick loads the saga,   *)
(* advances a private copy (tick_running / tick_compensating, awaiting the *)
(* participant between steps) and saves the copy back.  Several tickers    *)
(* may tick the same id, and a ticker may crash before it saves.           *)
(*                                                                         *)
(* Steps are 1..N; the code's 0-based cursor is kept as is, so the step a  *)
(* Running saga executes is cursor + 1 and the step a Compensating saga    *)
(* undoes is cursor.                                                       *)
(***************************************************************************)
EXTENDS Naturals

CONSTANTS
  N,            \* number of steps of the SagaDefinition
  Compensable,  \* steps whose compensate_uri is Some
  Tickers,      \* tasks calling SagaOrchestrator::tick(id)
  MaxCrashes    \* bound on crashes of a ticker before its save

ASSUME /\ N \in Nat \ {0}
       /\ Compensable \subseteq 1..N
       /\ MaxCrashes \in Nat

Steps == 1..N

VARIABLES
  store,    \* InMemorySagaStore.items[id]; NoSaga before start
  tk,       \* per ticker: pc and its loaded copy of the saga
  execs,    \* history: participant.execute calls per step (0, 1, 2 = more)
  comps,    \* history: participant.compensate calls per step (0, 1, 2 = more)
  okRan,    \* history: steps whose execute returned Ok(true)
  crashes

vars == <<store, tk, execs, comps, okRan, crashes>>

SagaStates == {"Running", "Compensating", "Completed", "Failed", "Cancelled", "Paused"}
StepStates == {"Ready", "InFlight", "Succeeded", "Failed", "Compensated", "Skipped"}
Terminal   == {"Completed", "Failed", "Cancelled"}

(* A history count that only tells 0, 1 and more than one apart.          *)
Bump(f, i) == [f EXCEPT ![i] = IF @ < 2 THEN @ + 1 ELSE 2]

(* No instance stored under the id (before start).                        *)
NoSaga == [state |-> "None", cursor |-> 0, steps |-> [i \in Steps |-> "Ready"]]

(* SagaOrchestrator::start: Running, cursor 0, every step Ready.          *)
NewSaga == [state |-> "Running", cursor |-> 0, steps |-> [i \in Steps |-> "Ready"]]

Copy(t) == tk[t].copy

(* Update ticker t's copy and move it to pc.                               *)
Work(t, s, pc) == tk' = [tk EXCEPT ![t] = [pc |-> pc, copy |-> s]]

(* cursor moved past the last step: Completed.                            *)
Advanced(s) ==
  [s EXCEPT !.cursor = @ + 1,
            !.state  = IF s.cursor + 1 >= N THEN "Completed" ELSE @]

-----------------------------------------------------------------------------
Init ==
  /\ store = NoSaga
  /\ tk = [t \in Tickers |-> [pc |-> "idle", copy |-> NoSaga]]
  /\ execs = [i \in Steps |-> 0]
  /\ comps = [i \in Steps |-> 0]
  /\ okRan = {}
  /\ crashes = 0

(* start: insert the new instance.                                        *)
Start ==
  /\ store.state = "None"
  /\ store' = NewSaga
  /\ UNCHANGED <<tk, execs, comps, okRan, crashes>>

(* tick, first await: store.load; dispatch on the loaded state (Paused and *)
(* terminal states go straight to the save).                               *)
Load(t) ==
  /\ tk[t].pc = "idle" /\ store.state # "None"
  /\ Work(t, store, CASE store.state = "Running"      -> "running"
                      [] store.state = "Compensating" -> "compensating"
                      [] OTHER                        -> "save")
  /\ UNCHANGED <<store, execs, comps, okRan, crashes>>

(* Variant: the end test one step early, "cursor + 1 >= len".           *)
RunStepEarlyComplete(t) ==
  /\ tk[t].pc = "running"
  /\ LET s == Copy(t) IN
       IF s.cursor + 1 >= N
       THEN Work(t, [s EXCEPT !.state = "Completed"], "save")
       ELSE IF s.steps[s.cursor + 1] = "Succeeded"
       THEN Work(t, Advanced(s), "save")
       ELSE Work(t, [s EXCEPT !.steps[s.cursor + 1] = "InFlight"], "executing")
  /\ UNCHANGED <<store, execs, comps, okRan, crashes>>

(* tick_running up to participant.execute: past the end Completed, an     *)
(* already Succeeded step skipped, otherwise the step marked InFlight.    *)
RunStep(t) ==
  /\ tk[t].pc = "running"
  /\ LET s == Copy(t) IN
       IF s.cursor >= N
       THEN Work(t, [s EXCEPT !.state = "Completed"], "save")
       ELSE IF s.steps[s.cursor + 1] = "Succeeded"
       THEN Work(t, Advanced(s), "save")
       ELSE Work(t, [s EXCEPT !.steps[s.cursor + 1] = "InFlight"], "executing")
  /\ UNCHANGED <<store, execs, comps, okRan, crashes>>

(* Variant: a failed step sets cursor = idx + 2.                           *)
ExecuteFailCursorPlusOne(t) ==
  /\ tk[t].pc = "executing"
  /\ LET s == Copy(t)
         i == s.cursor + 1
     IN  /\ execs' = Bump(execs, i)
         /\ \E ok \in BOOLEAN :
              IF ok
              THEN /\ Work(t, Advanced([s EXCEPT !.steps[i] = "Succeeded"]), "save")
                   /\ okRan' = okRan \cup {i}
              ELSE /\ Work(t, [s EXCEPT !.steps[i] = "Failed", !.state = "Compensating",
                                        !.cursor = i + 1], "save")
                   /\ UNCHANGED okRan
  /\ UNCHANGED <<store, comps, crashes>>

(* participant.execute returns Ok(true), or Ok(false) / Err: the step is  *)
(* Failed, the saga Compensating with cursor = idx + 1.                    *)
Execute(t) ==
  /\ tk[t].pc = "executing"
  /\ LET s == Copy(t)
         i == s.cursor + 1
     IN  /\ execs' = Bump(execs, i)
         /\ \E ok \in BOOLEAN :
              IF ok
              THEN /\ Work(t, Advanced([s EXCEPT !.steps[i] = "Succeeded"]), "save")
                   /\ okRan' = okRan \cup {i}
              ELSE /\ Work(t, [s EXCEPT !.steps[i] = "Failed", !.state = "Compensating",
                                        !.cursor = i], "save")
                   /\ UNCHANGED okRan
  /\ UNCHANGED <<store, comps, crashes>>

(* Variant: a Succeeded step passed over like a Compensated one.         *)
CompStepSkipSucceeded(t) ==
  /\ tk[t].pc = "compensating"
  /\ LET s == Copy(t)
         j == s.cursor
     IN  IF j = 0
         THEN Work(t, [s EXCEPT !.state = "Cancelled"], "save")
         ELSE IF s.steps[j] \in {"Compensated", "Skipped", "Succeeded"}
         THEN Work(t, [s EXCEPT !.cursor = j - 1], "compensating")
         ELSE IF j \notin Compensable
         THEN Work(t, [s EXCEPT !.steps[j] = "Skipped", !.cursor = j - 1,
                                !.state = IF j - 1 = 0 THEN "Failed" ELSE @], "compensating")
         ELSE Work(t, s, "undoing")
  /\ UNCHANGED <<store, execs, comps, okRan, crashes>>

(* One turn of the tick_compensating loop up to participant.compensate:   *)
(* at cursor 0 Cancelled; a Compensated or Skipped step passed over; a    *)
(* step without compensate_uri marked Skipped (and the saga Failed when   *)
(* that reaches cursor 0, which the next turn overwrites with Cancelled). *)
CompStep(t) ==
  /\ tk[t].pc = "compensating"
  /\ LET s == Copy(t)
         j == s.cursor
     IN  IF j = 0
         THEN Work(t, [s EXCEPT !.state = "Cancelled"], "save")
         ELSE IF s.steps[j] \in {"Compensated", "Skipped"}
         THEN Work(t, [s EXCEPT !.cursor = j - 1], "compensating")
         ELSE IF j \notin Compensable
         THEN Work(t, [s EXCEPT !.steps[j] = "Skipped", !.cursor = j - 1,
                                !.state = IF j - 1 = 0 THEN "Failed" ELSE @], "compensating")
         ELSE Work(t, s, "undoing")
  /\ UNCHANGED <<store, execs, comps, okRan, crashes>>

(* Variant: a failed compensation retried instead of failing the saga.   *)
CompensateRetry(t) ==
  /\ tk[t].pc = "undoing"
  /\ LET s == Copy(t)
         j == s.cursor
     IN  /\ comps' = Bump(comps, j)
         /\ \E ok \in BOOLEAN :
              IF ok
              THEN Work(t, [s EXCEPT !.steps[j] = "Compensated", !.cursor = j - 1], "compensating")
              ELSE Work(t, s, "compensating")
  /\ UNCHANGED <<store, execs, okRan, crashes>>

(* participant.compensate: Ok(true) marks the step Compensated and loops; *)
(* Ok(false) or Err fails the saga.                                        *)
Compensate(t) ==
  /\ tk[t].pc = "undoing"
  /\ LET s == Copy(t)
         j == s.cursor
     IN  /\ comps' = Bump(comps, j)
         /\ \E ok \in BOOLEAN :
              IF ok
              THEN Work(t, [s EXCEPT !.steps[j] = "Compensated", !.cursor = j - 1], "compensating")
              ELSE Work(t, [s EXCEPT !.state = "Failed"], "save")
  /\ UNCHANGED <<store, execs, okRan, crashes>>

(* tick, last await: store.save(&saga) writes the copy back whole.        *)
Save(t) ==
  /\ tk[t].pc = "save"
  /\ store' = Copy(t)
  /\ tk' = [tk EXCEPT ![t] = [pc |-> "idle", copy |-> NoSaga]]
  /\ UNCHANGED <<execs, comps, okRan, crashes>>

(* The process running a tick stops before save; the copy is lost and the *)
(* id is ticked again later.                                               *)
Crash(t) ==
  /\ tk[t].pc # "idle" /\ crashes < MaxCrashes
  /\ tk' = [tk EXCEPT ![t] = [pc |-> "idle", copy |-> NoSaga]]
  /\ crashes' = crashes + 1
  /\ UNCHANGED <<store, execs, comps, okRan>>

Ticker(t) ==
  \/ Load(t) \/ RunStep(t) \/ Execute(t) \/ CompStep(t) \/ Compensate(t) \/ Save(t)

Next ==
  \/ Start
  \/ \E t \in Tickers : Ticker(t) \/ Crash(t)

(* Ticks keep coming for the id and each tick runs to its end unless it   *)
(* crashes ("given a finite tick schedule", spec property 10).            *)
Fairness == WF_vars(Start) /\ \A t \in Tickers : WF_vars(Ticker(t))

Spec == Init /\ [][Next]_vars /\ Fairness

-----------------------------------------------------------------------------
(* Properties.                                                             *)

TypeOK ==
  /\ store \in [state : SagaStates \cup {"None"}, cursor : 0..N, steps : [Steps -> StepStates]]
  /\ \A t \in Tickers :
       /\ tk[t].pc \in {"idle", "running", "executing", "compensating", "undoing", "save"}
       /\ tk[t].copy \in [state : SagaStates \cup {"None"}, cursor : 0..N, steps : [Steps -> StepStates]]
  /\ execs \in [Steps -> 0..2] /\ comps \in [Steps -> 0..2]
  /\ okRan \subseteq Steps /\ crashes \in 0..MaxCrashes

(* A saga the store holds as Completed has had every step executed with   *)
(* success: tick_running reaches Completed only past the last step.        *)
CompletedMeansAllSucceeded ==
  store.state = "Completed" => \A i \in Steps : store.steps[i] = "Succeeded"

(* Spec 4.6.3: a saga that the store holds as Cancelled has compensated    *)
(* every step with a compensate_uri whose execute succeeded, including one *)
(* whose success a crash before save lost (tick_compensating walks the     *)
(* cursor down to 0).                                                      *)
CancelledUndoesSucceeded ==
  store.state = "Cancelled" => \A i \in okRan \cap Compensable : comps[i] > 0

(* Spec 4.6.3: compensation is called only for an already-succeeded step;  *)
(* tick_running's failure branch sets cursor = idx + 1, so the failed step *)
(* itself is the first one tick_compensating undoes.                       *)
CompensatesOnlySucceeded ==
  \A i \in Steps : comps[i] > 0 => i \in okRan

(* Spec property 10: a started saga is eventually Completed, Cancelled or  *)
(* Failed when ticks keep coming, crashes before save included.            *)
Terminates ==
  <>(store.state \in Terminal)

=============================================================================
