--------------------------- MODULE Transformation ---------------------------
(***************************************************************************)
(* The model transformation engine: one mtworker (mt/mtworker.py), its     *)
(* PyTCoreAbstractionLayer (mt/ptcal/ptcal.py) and the context of one      *)
(* MoTif transformation (mt/ptcal/motifcontext.py, tcontext.py).           *)
(*                                                                         *)
(* The engine is a set of threads: every command (play, pause, step, stop) *)
(* is handled by a thread of its own, and every delay is a timer thread.   *)
(* A play loop or a stop waits for the FEEDBACK of the last step: the      *)
(* changelog that the asworker emits when the engine prints on its         *)
(* console.  Changelogs come by a socket whose messages are each handled   *)
(* by a thread, hence in any order; they are applied to the graph in the   *)
(* order of their numbers, by whoever polls.                               *)
(*                                                                         *)
(* Not here: debugging pauses, nested transformations, the mode in which   *)
(* the edits are sent at the end (incUpdates = False), the Transformation  *)
(* and T-Core formalisms.  A test-and-set of execmode is one step.         *)
(***************************************************************************)
EXTENDS Integers, Sequences, FiniteSets, Functions

CONSTANTS
  Rule,        \* the rules of the transformation
  First,       \* the one it starts with
  MaxThread,   \* threads at work at the same time
  MaxCommand,  \* commands the users send
  MaxEdit,     \* changes: the engine's batchEdits and the edits of others
  MaxEvent     \* commands, which count twice, changes and rules together; then
               \* nobody begins anything and the transformation reaches its end

ASSUME TransformationAssumption ==
  /\ First \in Rule /\ Rule \cap {"none", "stray", "end"} = {}
  /\ {MaxThread, MaxCommand, MaxEdit, MaxEvent} \subseteq Nat

VARIABLES
  queue,     \* the asworker's changelogs that are not handled yet, oldest first
  arrived,   \* how many of the oldest have arrived (_changelogs)
  loading,   \* "asked": the model is to be sent; "sent"; "loaded"
  included,  \* how many of them the model that was sent includes
  late,      \* changelogs included in the loaded model that are still to arrive
  invalid,   \* one of these has arrived: its number is out of date
  locked,    \* _lock was left acquired: nothing is ever handled again
  execmode,  \* _execmode
  ctx,       \* the context _mtContexts[-1], Started if there is none
  below,     \* the contexts under it, the nearest first
  emptied,   \* _mtContexts is empty: contexts are being loaded anew
  thread,    \* what each thread is about to do
  commands, steps, edits,   \* counters, for the bounds
  raised,    \* a rule has raised an exception
  cut        \* the contexts were changed while a step was under way

loadVars == <<loading, included, late>>
stack == <<below, emptied, cut>>
vars == <<queue, arrived, loadVars, invalid, locked, execmode, ctx, stack, thread,
          commands, steps, edits, raised>>
lockVars == <<invalid, locked>>
counters == <<commands, steps, raised>>

Thread == 1..MaxThread
Modes == {"play", "pause", "step", "stop"}
\* What a thread polls for: to take a step in a loop, one step, or to stop.
Goals == {"play", "step", "stop"}
Idle == [pc |-> "none", goal |-> "none"]
Places == Modes \cup {"none", "poll", "act", "rule", "edited", "success", "failure",
                      "exception", "flag", "done", "popped", "emptied", "reloaded"}

Started == [last |-> "none", fed |-> {}, told |-> {}, expired |-> FALSE]

\* Feedback: a console line that tells the result of a step.
Kinds == {"edit", "feedback", "line"}
-----------------------------------------------------------------------------
(* The context.  _lastStep is a dictionary that belongs to the rule, so    *)
(* what is written in it is found again when the rule comes back; "none"   *)
(* is the empty one, "stray" the empty one once something is written in it,*)
(* "end" the one of an end state, born with its feedback.                  *)

Steps == Rule \cup {"none", "stray", "end"}

Contexts == [last : Steps, fed : SUBSET Steps, told : SUBSET Steps, expired : BOOLEAN]

Written(c) == IF c.last = "none" THEN "stray" ELSE c.last

isLastStepFeedbackReceived(c) ==
  \/ ~ c.expired /\ c.last = "none"
  \/ c.last \in c.fed

setLastStepFeedbackReceived(c) ==
  [c EXCEPT !.last = Written(c), !.fed = @ \cup {Written(c)}]

setLastStepApplicationInfo(c) ==
  [c EXCEPT !.last = Written(c), !.told = @ \cup {Written(c)}]

\* The next step cannot be found: an expired context, no 'id' or no
\* 'applicationInfo' in the last step.
StepIsLost(c) ==
  \/ c.expired
  \/ c.last # "none" /\ ~ (c.last \in Rule /\ c.last \in c.told)

\* The bound of all that users, other clients and rules do.
Within == 2 * commands + steps + edits < MaxEvent

\* The steps that may come next; when the bound is reached, the end only.
NextRules(c) ==
  IF c.last = "none" THEN {First} ELSE IF Within THEN Rule ELSE {}
-----------------------------------------------------------------------------
(* Changelogs: their numbers are consecutive, so the place in the queue   *)
(* says what is next.  The sort makes those that arrive before an older    *)
(* one wait for it: what counts is how many of the oldest have arrived.    *)

Emit(kind) == queue' = Append(queue, kind) /\ UNCHANGED arrived

Fed(c, handled) == IF "feedback" \in Range(handled)
                   THEN setLastStepFeedbackReceived(c) ELSE c

\* The context when those that have arrived are handled.
Handled == Fed(ctx, SubSeq(queue, 1, arrived))

(* The first that tells a feedback to a context that is not there.         *)
Unheard == {k \in 1..arrived : emptied /\ queue[k] = "feedback"
                               /\ \A i \in 1..k-1 : queue[i] # "feedback"}

\* n changelogs are taken out of the queue
Take(n) == queue' = SubSeq(queue, n + 1, Len(queue)) /\ arrived' = arrived - n

(* _handleChangelogs() by thread t, which goes on to `next`: an out-of-date*)
(* number raises, and so does a missing context, with the lock held.       *)
HandleChangelogs(t, next) ==
  /\ ~ locked
  /\ IF invalid \/ Unheard # {}
     THEN /\ locked' = TRUE
          /\ thread' = [thread EXCEPT ![t] = Idle]
          /\ IF invalid THEN Take(0) ELSE \E k \in Unheard : Take(k)
          /\ UNCHANGED ctx
     ELSE /\ Take(arrived)
          /\ ctx' = Handled
          /\ thread' = [thread EXCEPT ![t] = next]
          /\ UNCHANGED locked
  /\ UNCHANGED <<loadVars, invalid>>
-----------------------------------------------------------------------------
Init ==
  /\ queue = <<>> /\ arrived = 0 /\ loading = "asked" /\ included = 0 /\ late = 0
  /\ invalid = FALSE /\ locked = FALSE
  /\ execmode = "STOPPED" /\ ctx = Started /\ below = <<>> /\ emptied = FALSE
  /\ thread = [t \in Thread |-> Idle]
  /\ commands = 0 /\ steps = 0 /\ edits = 0
  /\ raised = FALSE /\ cut = FALSE

Free == {t \in Thread : thread[t] = Idle}
At(t, pc) == thread[t].pc = pc
Goto(t, pc) == thread' = [thread EXCEPT ![t].pc = pc]
End(t) == thread' = [thread EXCEPT ![t] = Idle]
Poll(t, goal) == thread' = [thread EXCEPT ![t] = [pc |-> "poll", goal |-> goal]]

\* A thread between the choice of a rule and the end of _step().
InStep(t) ==
  thread[t].pc \in {"rule", "edited", "success", "failure", "exception", "flag"}

(* Others than the engine change the model. *)
OthersEdit ==
  /\ Within /\ edits < MaxEdit /\ edits' = edits + 1
  /\ Emit("line")
  /\ UNCHANGED <<loadVars, lockVars, execmode, ctx, thread, counters, stack>>

(* The asworker sends its model with the number of its last changelog. *)
SendModel ==
  /\ loading = "asked" /\ loading' = "sent"
  /\ included' = Len(queue)
  /\ UNCHANGED <<queue, arrived, late, lockVars, execmode, ctx, thread, edits, counters, stack>>

(* Mutant: forgets how many of the changelogs it drops had arrived. *)
LoadModel_KeepsArrived ==
  /\ loading = "sent" /\ loading' = "loaded"
  /\ queue' = SubSeq(queue, included + 1, Len(queue)) /\ included' = 0
  /\ late' = 0
  /\ UNCHANGED <<arrived, lockVars, execmode, ctx, thread, edits, counters, stack>>

(* loadModel(): of the changelogs that the model includes, those that came *)
(* are forgotten.                                                          *)
LoadModel ==
  /\ loading = "sent" /\ loading' = "loaded"
  /\ queue' = SubSeq(queue, included + 1, Len(queue)) /\ included' = 0
  /\ late' = IF arrived < included THEN included - arrived ELSE 0
  /\ arrived' = IF arrived < included THEN 0 ELSE arrived - included
  /\ UNCHANGED <<lockVars, execmode, ctx, thread, edits, counters, stack>>

(* onchangelog(), by a thread of its own *)
OnChangelog ==
  /\ ~ locked
  /\ arrived < Len(queue) /\ arrived' = arrived + 1
  /\ UNCHANGED <<queue, loadVars, lockVars, execmode, ctx, thread, edits, counters, stack>>

(* ... of a changelog that the model includes *)
OnLateChangelog ==
  /\ ~ locked /\ late > 0
  /\ late' = late - 1 /\ invalid' = TRUE
  /\ UNCHANGED <<queue, arrived, loading, included, locked, execmode, ctx, thread, edits, counters, stack>>

(* PUT /execmode: refused (503) while stopping; its thread runs after the  *)
(* answer, maybe after that of a later command.                            *)
Command(mode) ==
  /\ loading = "loaded" /\ Within /\ commands < MaxCommand
  /\ execmode # "STOPPING"
  /\ commands' = commands + 1
  /\ \E t \in Free : (\A u \in Free : t <= u) /\ Goto(t, mode)
  /\ UNCHANGED <<queue, arrived, edits, loadVars, lockVars, execmode, ctx, steps, raised, stack>>

Play(t) ==
  /\ At(t, "play")
  /\ IF execmode # "PLAY" THEN execmode' = "PLAY" /\ Poll(t, "play")
                          ELSE End(t) /\ UNCHANGED execmode
  /\ UNCHANGED <<queue, arrived, edits, loadVars, lockVars, ctx, counters, stack>>

Pause(t) ==
  /\ At(t, "pause") /\ execmode' = "PAUSE" /\ End(t)
  /\ UNCHANGED <<queue, arrived, edits, loadVars, lockVars, ctx, counters, stack>>

Step(t) ==
  /\ At(t, "step")
  /\ IF execmode # "PLAY" THEN execmode' = "STEP" /\ Poll(t, "step")
                          ELSE End(t) /\ UNCHANGED execmode
  /\ UNCHANGED <<queue, arrived, edits, loadVars, lockVars, ctx, counters, stack>>

Stop(t) ==
  /\ At(t, "stop") /\ execmode' = "STOPPING" /\ Poll(t, "stop")
  /\ UNCHANGED <<queue, arrived, edits, loadVars, lockVars, ctx, counters, stack>>
-----------------------------------------------------------------------------
(* _doWhenLastStepFeedbackReceived(): handle what has come, then look for  *)
(* the feedback, and again after a while.  Without a context this raises.  *)
DoWhenFed(t) ==
  /\ At(t, "poll")
  /\ HandleChangelogs(t, IF emptied THEN Idle
                         ELSE [thread[t] EXCEPT !.pc = IF isLastStepFeedbackReceived(Handled)
                                                       THEN "act" ELSE "poll"])
  /\ UNCHANGED <<edits, execmode, counters, stack>>

(* The play loop is over: no longer in PLAY mode. *)
LoopEnds(t) ==
  /\ At(t, "act") /\ thread[t].goal = "play" /\ execmode # "PLAY" /\ End(t)
  /\ UNCHANGED <<queue, arrived, edits, loadVars, lockVars, execmode, ctx, counters, stack>>

MayStep(t) ==
  \/ At(t, "popped")
  \/ /\ At(t, "act")
     /\ thread[t].goal = "step" \/ (thread[t].goal = "play" /\ execmode = "PLAY")

Lost == emptied \/ StepIsLost(ctx)

(* _step(), _nextRule(), nextStep(): a rule to run. *)
StepBegins(t) ==
  /\ MayStep(t) /\ ~ Lost
  /\ \E r \in NextRules(ctx) : ctx' = [ctx EXCEPT !.last = r]
  /\ steps' = steps + 1
  /\ Goto(t, "rule")
  /\ UNCHANGED <<queue, arrived, edits, loadVars, lockVars, execmode, commands, raised, stack>>

(* _step(): an end state, or no way on from the last step. *)
TransformationDone(t) ==
  /\ MayStep(t) /\ ~ Lost /\ ctx.last # "none" /\ below = <<>>
  /\ \/ ctx' = [ctx EXCEPT !.last = "end", !.fed = @ \cup {"end"}]
     \/ ctx' = [ctx EXCEPT !.last = "none", !.expired = TRUE]
  /\ Goto(t, "done")
  /\ UNCHANGED <<queue, arrived, edits, loadVars, lockVars, execmode, counters, stack>>

(* ... of a context over another one: it is popped, the other is told the  *)
(* result unless it has not begun, and is asked for the next step at once. *)
ContextDone(t) ==
  /\ MayStep(t) /\ ~ Lost /\ ctx.last # "none" /\ below # <<>>
  /\ LET c == Head(below) IN
       \/ ctx' = setLastStepApplicationInfo(c)
       \/ c.last = "none" /\ ctx' = c
  /\ below' = Tail(below)
  /\ cut' = (cut \/ \E u \in Thread : u # t /\ InStep(u))
  /\ Goto(t, "popped")
  /\ UNCHANGED <<queue, arrived, edits, loadVars, lockVars, emptied, execmode, counters>>

(* _step(): the exception of nextStep() is caught: there is no next rule,  *)
(* a line says so and _stop() is called at once, in whatever mode.         *)
NoNextRule(t) ==
  /\ MayStep(t) /\ Lost
  /\ Emit("line")
  /\ thread' = [thread EXCEPT ![t] = [pc |-> "act", goal |-> "stop"]]
  /\ UNCHANGED <<edits, loadVars, lockVars, execmode, ctx, counters, stack>>

(* The result is printed; stop(). *)
PrintDone(t) ==
  /\ At(t, "done") /\ Emit("feedback") /\ Goto(t, "stop")
  /\ UNCHANGED <<edits, loadVars, lockVars, execmode, ctx, counters, stack>>
-----------------------------------------------------------------------------
(* sendAndApplyDelta(), called by a rule: the batchEdit is accepted. *)
Edit(t) ==
  /\ At(t, "rule") /\ Within /\ edits < MaxEdit
  /\ edits' = edits + 1 /\ Emit("edit") /\ Goto(t, "edited")
  /\ UNCHANGED <<loadVars, lockVars, execmode, ctx, counters, stack>>

(* ... and what has come by then is handled. *)
AfterEdit(t) ==
  /\ At(t, "edited")
  /\ HandleChangelogs(t, [thread[t] EXCEPT !.pc = "rule"])
  /\ UNCHANGED <<edits, execmode, counters, stack>>

(* Mutant: a refused batchEdit changes the mode and does not call stop(). *)
EditRefused_NoStop(t) ==
  /\ At(t, "rule") /\ Within /\ edits < MaxEdit
  /\ edits' = edits + 1 /\ Emit("feedback")
  /\ execmode' = "STOPPING"
  /\ UNCHANGED <<thread, loadVars, lockVars, ctx, counters, stack>>

(* ... it is refused: stop(), in a timer of its own, and a line that counts*)
(* as feedback; the rule goes on.                                          *)
EditRefused(t) ==
  /\ At(t, "rule") /\ Within /\ edits < MaxEdit
  /\ edits' = edits + 1 /\ Emit("feedback")
  /\ execmode' = "STOPPING"
  /\ \E u \in Free :
       /\ \A v \in Free : u <= v
       /\ thread' = [thread EXCEPT ![u] = [pc |-> "poll", goal |-> "stop"]]
  /\ UNCHANGED <<loadVars, lockVars, ctx, counters, stack>>

(* The rule is over and its application information set.  A success and a  *)
(* failure are printed with the alias of the last step: the thread dies    *)
(* when _lastStep is no longer that of a rule, or the context is gone.     *)
RuleEnds(t, result) ==
  /\ At(t, "rule") /\ ~ emptied
  /\ ctx' = setLastStepApplicationInfo(ctx)
  /\ raised' = (raised \/ result = "exception")
  /\ IF result = "exception" \/ ctx'.last \in Rule THEN Goto(t, result) ELSE End(t)
  /\ UNCHANGED <<queue, arrived, edits, loadVars, lockVars, execmode, commands, steps, stack>>

ContextIsGone(t) ==
  /\ At(t, "rule") \/ At(t, "flag")
  /\ emptied /\ End(t)
  /\ UNCHANGED <<queue, arrived, edits, loadVars, lockVars, execmode, ctx, counters, stack>>

\* The end of a _step() that returned True: the loop goes on after a delay.
StepReturns(t) ==
  IF thread[t].goal = "play" THEN Goto(t, "poll") ELSE End(t)

PrintSuccess(t) ==
  /\ At(t, "success") /\ Emit("feedback") /\ Goto(t, "flag")
  /\ UNCHANGED <<edits, loadVars, lockVars, execmode, ctx, counters, stack>>

(* ... and the feedback is noted without waiting for its changelog. *)
FlagSuccess(t) ==
  /\ At(t, "flag") /\ ~ emptied /\ ctx' = setLastStepFeedbackReceived(ctx) /\ StepReturns(t)
  /\ UNCHANGED <<queue, arrived, edits, loadVars, lockVars, execmode, counters, stack>>

(* Mutant: the line of a failure is not one that counts as feedback. *)
PrintFailure_Mute(t) ==
  /\ At(t, "failure") /\ Emit("line") /\ StepReturns(t)
  /\ UNCHANGED <<edits, loadVars, lockVars, execmode, ctx, counters, stack>>

PrintFailure(t) ==
  /\ At(t, "failure") /\ Emit("feedback") /\ StepReturns(t)
  /\ UNCHANGED <<edits, loadVars, lockVars, execmode, ctx, counters, stack>>

(* This line is not among those that count as feedback. *)
PrintException(t) ==
  /\ At(t, "exception") /\ Emit("line") /\ StepReturns(t)
  /\ UNCHANGED <<edits, loadVars, lockVars, execmode, ctx, counters, stack>>
-----------------------------------------------------------------------------
\* the contexts change: a step that is under way is cut off from its own
Cuts == cut' = (cut \/ \E u \in Thread : InStep(u))

(* _stop(): the contexts are forgotten, *)
ForgetContexts(t) ==
  /\ At(t, "act") /\ thread[t].goal = "stop"
  /\ ctx' = Started /\ below' = <<>> /\ emptied' = TRUE /\ Cuts
  /\ Goto(t, "emptied")
  /\ UNCHANGED <<queue, arrived, edits, loadVars, lockVars, execmode, counters>>

(* ... that of the transformation is loaded, over those of another stop,   *)
(* and a line is printed,                                                  *)
LoadContext(t) ==
  /\ At(t, "emptied")
  /\ ctx' = Started /\ below' = IF emptied THEN <<>> ELSE <<ctx>> \o below
  /\ emptied' = FALSE /\ Cuts
  /\ Goto(t, "reloaded")
  /\ UNCHANGED <<queue, arrived, edits, loadVars, lockVars, execmode, counters>>

(* ... and commands are welcome again. *)
Stopped(t) ==
  /\ At(t, "reloaded") /\ Emit("line")
  /\ execmode' = "STOPPED" /\ End(t)
  /\ UNCHANGED <<edits, loadVars, lockVars, ctx, counters, stack>>

ThreadStep(t) ==
  \/ Play(t) \/ Pause(t) \/ Step(t) \/ Stop(t)
  \/ DoWhenFed(t) \/ LoopEnds(t) \/ StepBegins(t)
  \/ TransformationDone(t) \/ ContextDone(t) \/ PrintDone(t) \/ NoNextRule(t)
  \/ Edit(t) \/ AfterEdit(t) \/ EditRefused(t)
  \/ \E result \in {"success", "failure", "exception"} : RuleEnds(t, result)
  \/ PrintSuccess(t) \/ FlagSuccess(t) \/ PrintFailure(t) \/ PrintException(t)
  \/ ContextIsGone(t) \/ ForgetContexts(t) \/ LoadContext(t) \/ Stopped(t)

Next ==
  \/ OthersEdit \/ SendModel \/ LoadModel
  \/ OnChangelog \/ OnLateChangelog
  \/ \E mode \in Modes : Command(mode)
  \/ \E t \in Thread : ThreadStep(t)

(* Threads are scheduled, timers fire, requests are answered and what is   *)
(* sent arrives; nobody has to edit or to send a command.                  *)
Fairness ==
  /\ WF_vars(SendModel) /\ WF_vars(LoadModel)
  /\ WF_vars(OnChangelog) /\ WF_vars(OnLateChangelog)
  /\ \A t \in Thread : WF_vars(ThreadStep(t))

Spec == Init /\ [][Next]_vars /\ Fairness
-----------------------------------------------------------------------------
TypeOK ==
  /\ queue \in Seq(Kinds) /\ arrived \in 0..Len(queue)
  /\ loading \in {"asked", "sent", "loaded"}
  /\ included \in 0..Len(queue) /\ late \in 0..MaxEdit
  /\ {invalid, locked} \subseteq BOOLEAN
  /\ execmode \in {"STOPPED", "PLAY", "PAUSE", "STEP", "STOPPING"}
  /\ ctx \in Contexts /\ below \in Seq(Contexts) /\ emptied \in BOOLEAN
  /\ thread \in [Thread -> [pc : Places, goal : Goals \cup {"none"}]]
  /\ {commands, steps} \subseteq Nat /\ edits \in 0..MaxEdit /\ {raised, cut} \subseteq BOOLEAN

\* A thread that is about to ask for the next step or to load contexts anew: it
\* does not wait for the feedback of the present one.
GoesOn(t) == At(t, "popped") \/ (At(t, "act") /\ thread[t].goal = "stop")

\* A step of which nobody will ever tell the end: what is waited for cannot
\* come, no step is under way and no feedback is on its way.
Orphaned ==
  /\ ~ isLastStepFeedbackReceived(ctx)
  /\ \A t \in Thread : ~ InStep(t) /\ ~ At(t, "done") /\ ~ GoesOn(t)
  /\ "feedback" \notin Range(queue)

(* Every step tells its end, whatever its result and however commands      *)
(* interleave: the engine waits for a feedback that will never come only   *)
(* when a rule raised an exception, when another thread changed the        *)
(* contexts under the step, or when the changelogs hang.                   *)
FeedbackComes == Orphaned => raised \/ cut \/ locked

(* A stop comes to its end, from whatever mix of commands, and commands are*)
(* accepted again, unless the feedback of the last step can never come or  *)
(* the changelogs hang.                                                    *)
StopEndsIfFed == execmode = "STOPPING" ~> (execmode # "STOPPING" \/ Orphaned \/ locked)

(* "we're done STOPPING and can handle new requests" (ptcal.py): without   *)
(* any condition.                                                          *)
StopEnds == execmode = "STOPPING" ~> (execmode # "STOPPING")

(* "this function assumes that feedback for the last step has already been *)
(* received": a rule is matched on a graph that has the edits of the rules *)
(* before it.                                                              *)
SeesLastStep ==
  [][\A t \in Thread : StepBegins(t) => "edit" \notin Range(queue)]_vars
=============================================================================
