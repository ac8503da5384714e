------------------------ MODULE TransformationProofs ------------------------
(***************************************************************************)
(* Proofs about the transformation engine, for any rules, any number of    *)
(* threads, commands, steps and edits: types, and that the end of every    *)
(* step is told.                                                           *)
(***************************************************************************)
EXTENDS Transformation, SequenceTheorems, WellFoundedInduction, TLAPS

-----------------------------------------------------------------------------
(* The invariant.                                                          *)

\* Before the model is loaded no command is taken: nothing but edits of others happens.
BeforeLoad ==
    /\ loading # "loaded" =>
          /\ ctx = Started /\ ~ emptied /\ \A t \in Thread : thread[t] = Idle
          /\ late = 0 /\ Len(queue) <= edits
    /\ loading # "sent" => included = 0

\* A context that is not there is like a new one, and the contexts under the present one
\* have what their ends need.
Stacked ==
    /\ emptied => ctx = Started
    /\ \A i \in DOMAIN below :
          /\ below[i].last = "end" => "end" \in below[i].fed
          /\ "none" \notin below[i].fed

\* The feedback of the last step is there, about to be printed or on its way, or a thread
\* goes on without it.
Pending ==
    \/ isLastStepFeedbackReceived(ctx)
    \/ \E u \in Thread : At(u, "done") \/ GoesOn(u)
    \/ "feedback" \in Range(queue)

\* Where the last step is not that of a rule, no step can be under way that would tell its
\* end: a rule that ends then takes its thread with it.
EndsAreFed ==
    /\ ctx.last \notin Rule => Pending \/ cut \/ locked
    /\ ctx.last = "end" => "end" \in ctx.fed
    /\ "none" \notin ctx.fed

\* A context without a last step has no step under way, unless it was reloaded under it.
NoStepYet ==
    ctx.last = "none" /\ ~ ctx.expired /\ (\E u \in Thread : InStep(u)) => cut

ExceptionsNoted == \A t \in Thread : At(t, "exception") => raised

Told == EndsAreFed /\ NoStepYet /\ ExceptionsNoted /\ FeedbackComes

IInv == TypeOK /\ BeforeLoad /\ Stacked /\ Told

-----------------------------------------------------------------------------
(* Lemmas.                                                                 *)

\* A context in which feedback was noted has it; what it had it keeps.
LEMMA FeedbackNoted ==
    ASSUME NEW c \in Contexts
    PROVE  LET d == setLastStepFeedbackReceived(c) IN
           /\ d \in Contexts /\ isLastStepFeedbackReceived(d)
           /\ d.last \in d.fed /\ d.expired = c.expired /\ d.last # "none"
           /\ d.fed = c.fed \cup {d.last}
           /\ c.last # "none" => d.last = c.last
           /\ c.last = "none" => d.last = "stray"
<1>1. c.last \in Steps /\ "stray" \in Steps /\ Written(c) \in Steps
  BY DEF Contexts, Steps, Written
<1> QED BY <1>1 DEF Contexts, setLastStepFeedbackReceived, isLastStepFeedbackReceived, Written

\* What one more changelog does to the queue.
LEMMA EmitFacts ==
    ASSUME TypeOK, NEW kind \in Kinds, Emit(kind)
    PROVE  /\ queue' \in Seq(Kinds) /\ Len(queue') = Len(queue) + 1
           /\ arrived' = arrived /\ arrived' \in 0..Len(queue') /\ included \in 0..Len(queue')
           /\ Range(queue') = Range(queue) \cup {kind}
<1>1. queue \in Seq(Kinds) /\ Len(queue) \in Nat
  BY DEF TypeOK
<1>2. /\ queue' = Append(queue, kind) /\ queue' \in Seq(Kinds) /\ Len(queue') = Len(queue) + 1
      /\ \A i \in 1 .. Len(queue) : queue'[i] = queue[i]
      /\ queue'[Len(queue) + 1] = kind
  BY <1>1, AppendProperties DEF Emit
<1>3. DOMAIN queue = 1 .. Len(queue) /\ DOMAIN queue' = 1 .. Len(queue) + 1
  BY <1>1, <1>2
<1>4. ASSUME NEW x PROVE x \in Range(queue') <=> x \in Range(queue) \cup {kind}
  BY <1>1, <1>2, <1>3 DEF Range
<1> QED BY <1>1, <1>2, <1>4 DEF Emit, TypeOK

\* What is handled and what is left are what was there.
LEMMA QueueCut ==
    ASSUME TypeOK, NEW n \in 0..Len(queue)
    PROVE  /\ SubSeq(queue, n + 1, Len(queue)) \in Seq(Kinds)
           /\ Len(SubSeq(queue, n + 1, Len(queue))) = Len(queue) - n
           /\ Range(queue) = Range(SubSeq(queue, 1, n)) \cup Range(SubSeq(queue, n + 1, Len(queue)))
<1> DEFINE a == SubSeq(queue, 1, n)
           b == SubSeq(queue, n + 1, Len(queue))
<1>1. queue \in Seq(Kinds) /\ Len(queue) \in Nat /\ DOMAIN queue = 1 .. Len(queue)
  BY DEF TypeOK
<1>2. /\ a \in Seq(Kinds) /\ DOMAIN a = 1 .. n /\ \A i \in 1 .. n : a[i] = queue[i]
      /\ b \in Seq(Kinds) /\ Len(b) = Len(queue) - n /\ DOMAIN b = 1 .. Len(queue) - n
      /\ \A i \in 1 .. Len(queue) - n : b[i] = queue[n + i]
  <2>1. 1 \in 1 .. Len(queue) + 1 /\ n \in 0 .. Len(queue) /\ n + 1 \in 1 .. Len(queue) + 1
        /\ Len(queue) \in n .. Len(queue)
    BY <1>1
  <2>2. a \in Seq(Kinds) /\ Len(a) = n /\ \A i \in 1 .. n : a[i] = queue[i]
    BY <1>1, <2>1, SubSeqProperties
  <2>3. b \in Seq(Kinds) /\ Len(b) = Len(queue) - n /\ \A i \in 1 .. Len(queue) - n : b[i] = queue[n + i]
    <3>1. n \in Int /\ n + 1 \in Int /\ Len(queue) \in Int /\ Len(queue) >= n
          /\ \A i \in n + 1 .. Len(queue) : queue[i] \in Kinds
      BY <1>1, <2>1
    <3>2. /\ b \in Seq(Kinds)
          /\ Len(b) = IF n + 1 <= Len(queue) THEN Len(queue) - (n + 1) + 1 ELSE 0
          /\ \A i \in 1 .. Len(queue) - (n + 1) + 1 : b[i] = queue[n + 1 + i - 1]
      BY <3>1, SubSeqProperties
    <3> HIDE DEF b
    <3>3. Len(b) = Len(queue) - n /\ Len(queue) - (n + 1) + 1 = Len(queue) - n
      BY <3>1, <3>2
    <3>4. ASSUME NEW i \in 1 .. Len(queue) - n PROVE b[i] = queue[n + i]
      <4>1. n + 1 + i - 1 = n + i
        BY <3>1, <3>4
      <4> QED BY <3>2, <3>3, <3>4, <4>1
    <3> QED BY <3>2, <3>3, <3>4
  <2> HIDE DEF a, b
  <2> QED BY <2>2, <2>3
<1> HIDE DEF a, b
<1>3. ASSUME NEW x PROVE x \in Range(queue) <=> x \in Range(a) \cup Range(b)
  <2>1. ASSUME NEW i \in DOMAIN queue PROVE queue[i] \in Range(a) \cup Range(b)
    <3>1. CASE i <= n
      BY <1>1, <1>2, <2>1, <3>1 DEF Range
    <3>2. CASE i > n
      <4>1. i - n \in 1 .. Len(queue) - n /\ n + (i - n) = i
        BY <1>1, <2>1, <3>2
      <4>2. b[i - n] = queue[i]
        BY <1>2, <4>1
      <4> QED BY <1>2, <4>1, <4>2 DEF Range
    <3> QED BY <1>1, <2>1, <3>1, <3>2
  <2>2. ASSUME NEW i \in DOMAIN a PROVE a[i] \in Range(queue)
    BY <1>1, <1>2, <2>2 DEF Range
  <2>3. ASSUME NEW i \in DOMAIN b PROVE b[i] \in Range(queue)
    <3>1. n + i \in DOMAIN queue /\ b[i] = queue[n + i]
      BY <1>1, <1>2, <2>3
    <3> QED BY <3>1 DEF Range
  <2> QED BY <2>1, <2>2, <2>3 DEF Range
<1> QED BY <1>2, <1>3 DEF a, b

\* A set of numbers that has some has a smallest.
LEMMA SmallestOf ==
    ASSUME NEW S \in SUBSET Nat, S # {}
    PROVE  \E k \in S : \A i \in S : k <= i
<1> DEFINE R == { ss \in Nat \X Nat : ss[1] < ss[2] }
<1>1. IsWellFoundedOn(R, Nat)
  BY NatLessThanWellFounded DEF OpToRel
<1>2. R = { ss \in Nat \X Nat : ss[1] < ss[2] }
  OBVIOUS
<1> HIDE DEF R
<1>3. PICK k \in S : \A i \in S : ~ (<<i, k>> \in R)
  BY <1>1, WFMin
<1>4. ASSUME NEW i \in S PROVE k <= i
  <2>1. k \in Nat /\ i \in Nat /\ ~ (<<i, k>> \in R)
    BY <1>3
  <2>2. ~ (i < k)
    BY <1>2, <2>1
  <2> QED BY <2>1, <2>2
<1> QED BY <1>4

\* Without a context, a feedback that has arrived is the first one or comes after it.
LEMMA HeardOrUnheard ==
    ASSUME TypeOK, "feedback" \in Range(SubSeq(queue, 1, arrived)), Unheard = {}
    PROVE  ~ emptied
<1> DEFINE Feeds == {k \in 1 .. arrived : queue[k] = "feedback"}
<1>1. queue \in Seq(Kinds) /\ arrived \in 0 .. Len(queue) /\ Len(queue) \in Nat
  BY DEF TypeOK
<1>2. /\ DOMAIN SubSeq(queue, 1, arrived) = 1 .. arrived
      /\ \A i \in 1 .. arrived : SubSeq(queue, 1, arrived)[i] = queue[i]
  BY <1>1, SubSeqProperties
<1>3. Feeds # {}
  BY <1>2 DEF Range
<1>4. Feeds \subseteq Nat
  BY <1>1
<1>5. PICK k \in Feeds : \A i \in Feeds : k <= i
  BY <1>3, <1>4, SmallestOf
<1>6. \A i \in 1 .. k - 1 : queue[i] # "feedback"
  BY <1>1, <1>5
<1>7. k \notin Unheard
  OBVIOUS
<1> QED BY <1>5, <1>6, <1>7 DEF Unheard

\* A thread that handles changelogs goes on, and what was fed stays so, or it leaves the lock.
LEMMA HandleFacts ==
    ASSUME IInv, loading = "loaded", NEW t \in Thread,
           NEW next \in [pc : Places, goal : Goals \cup {"none"}], HandleChangelogs(t, next)
    PROVE  /\ queue' \in Seq(Kinds) /\ arrived' \in 0..Len(queue') /\ included' \in 0..Len(queue')
           /\ ctx' \in Contexts /\ locked' \in BOOLEAN
           /\ thread' \in [Thread -> [pc : Places, goal : Goals \cup {"none"}]]
           /\ \A u \in Thread \ {t} : thread'[u] = thread[u]
           /\ \/ locked' /\ ctx' = ctx /\ thread'[t] = Idle
              \/ /\ thread'[t] = next /\ ctx' = Handled /\ ~ locked'
                 /\ \/ ctx' = ctx /\ ("feedback" \in Range(queue) => "feedback" \in Range(queue'))
                    \/ ctx' = setLastStepFeedbackReceived(ctx) /\ ~ emptied
<1> DEFINE h == SubSeq(queue, 1, arrived)
           r == SubSeq(queue, arrived + 1, Len(queue))
<1>1. /\ arrived \in 0..Len(queue) /\ ctx \in Contexts /\ locked \in BOOLEAN
      /\ thread \in [Thread -> [pc : Places, goal : Goals \cup {"none"}]]
      /\ included = 0 /\ included' = included
      /\ queue \in Seq(Kinds) /\ Len(queue) \in Nat
  BY DEF IInv, TypeOK, BeforeLoad, HandleChangelogs, loadVars
<1>2. r \in Seq(Kinds) /\ Len(r) = Len(queue) - arrived /\ Range(queue) = Range(h) \cup Range(r)
  BY <1>1, QueueCut DEF IInv
<1>3. Idle \in [pc : Places, goal : Goals \cup {"none"}]
  BY DEF Idle, Places
<1>4. CASE invalid \/ Unheard # {}
  <2>1. /\ locked' = TRUE /\ thread' = [thread EXCEPT ![t] = Idle] /\ ctx' = ctx
        /\ Take(0) \/ \E k \in Unheard : Take(k)
    BY <1>4 DEF HandleChangelogs
  <2>2. PICK n \in 0 .. arrived : Take(n)
    <3>1. 0 \in 0 .. arrived /\ \A k \in Unheard : k \in 0 .. arrived
      BY <1>1 DEF Unheard
    <3> QED BY <2>1, <3>1
  <2>3. n \in 0 .. Len(queue) /\ arrived - n \in 0 .. Len(queue) - n
    BY <1>1, <2>2
  <2>4. queue' \in Seq(Kinds) /\ Len(queue') = Len(queue) - n /\ arrived' \in 0 .. Len(queue')
    BY <2>2, <2>3, QueueCut DEF IInv, Take
  <2>5. 0 \in 0 .. Len(queue')
    BY <1>1, <2>3, <2>4
  <2> QED BY <1>1, <1>3, <2>1, <2>4, <2>5
<1>5. CASE ~ (invalid \/ Unheard # {})
  <2>1. /\ queue' = r /\ arrived' = arrived - arrived /\ ctx' = Handled
        /\ locked' = locked /\ ~ locked
        /\ thread' = [thread EXCEPT ![t] = next]
    BY <1>5 DEF HandleChangelogs, Take
  <2>2. /\ thread' \in [Thread -> [pc : Places, goal : Goals \cup {"none"}]]
        /\ thread'[t] = next /\ \A u \in Thread \ {t} : thread'[u] = thread[u]
    BY <1>1, <2>1
  <2>3. Len(r) \in Nat /\ 0 \in 0..Len(r) /\ arrived' = 0
    BY <1>1, <1>2, <2>1
  <2>4. CASE "feedback" \in Range(h)
    <3>1. ctx' = setLastStepFeedbackReceived(ctx)
      BY <2>1, <2>4 DEF Handled, Fed
    <3>2. ~ emptied
      BY <1>1, <1>5, <2>4, HeardOrUnheard DEF IInv
    <3> QED BY <1>1, <1>2, <2>1, <2>2, <2>3, <3>1, <3>2, FeedbackNoted
  <2>5. CASE "feedback" \notin Range(h)
    <3>1. ctx' = ctx
      BY <2>1, <2>5 DEF Handled, Fed
    <3>2. "feedback" \in Range(queue) => "feedback" \in Range(queue')
      BY <1>2, <2>1, <2>5
    <3> QED BY <1>1, <1>2, <2>1, <2>2, <2>3, <3>1, <3>2
  <2> QED BY <2>4, <2>5
<1> QED BY <1>4, <1>5

\* A thread that has something to do has it since the model was loaded.
LEMMA Loaded ==
    ASSUME IInv, NEW t \in Thread, thread[t].pc # "none"
    PROVE  loading = "loaded"
BY DEF IInv, BeforeLoad, Idle

ThreadType == [Thread -> [pc : Places, goal : Goals \cup {"none"}]]

\* What a thread does next is all that changes when it moves.
LEMMA Moves ==
    ASSUME TypeOK, NEW t \in Thread
    PROVE  /\ \A pc \in Places : Goto(t, pc) =>
                 /\ thread' \in ThreadType /\ thread'[t].pc = pc
                 /\ \A u \in Thread \ {t} : thread'[u] = thread[u]
           /\ End(t) =>
                 /\ thread' \in ThreadType /\ thread'[t] = Idle /\ thread'[t].pc = "none"
                 /\ \A u \in Thread \ {t} : thread'[u] = thread[u]
           /\ \A goal \in Goals : Poll(t, goal) =>
                 /\ thread' \in ThreadType /\ thread'[t].pc = "poll"
                 /\ \A u \in Thread \ {t} : thread'[u] = thread[u]
<1>1. thread \in ThreadType
  BY DEF TypeOK, ThreadType
<1>2. ASSUME NEW pc \in Places, Goto(t, pc)
      PROVE  /\ thread' \in ThreadType /\ thread'[t].pc = pc
             /\ \A u \in Thread \ {t} : thread'[u] = thread[u]
  BY <1>1, <1>2 DEF Goto, ThreadType
<1>3. ASSUME End(t)
      PROVE  /\ thread' \in ThreadType /\ thread'[t] = Idle /\ thread'[t].pc = "none"
             /\ \A u \in Thread \ {t} : thread'[u] = thread[u]
  <2>1. Idle \in [pc : Places, goal : Goals \cup {"none"}] /\ Idle.pc = "none"
    BY DEF Idle, Places
  <2> QED BY <1>1, <1>3, <2>1 DEF End, ThreadType
<1>4. ASSUME NEW goal \in Goals, Poll(t, goal)
      PROVE  /\ thread' \in ThreadType /\ thread'[t].pc = "poll"
             /\ \A u \in Thread \ {t} : thread'[u] = thread[u]
  <2>1. [pc |-> "poll", goal |-> goal] \in [pc : Places, goal : Goals \cup {"none"}]
    BY DEF Places
  <2> QED BY <1>1, <1>4, <2>1 DEF Poll, ThreadType
<1> QED BY <1>2, <1>3, <1>4

-----------------------------------------------------------------------------
(* Types.                                                                  *)

\* A step of a thread that adds at most one changelog and leaves the rest in its type.
LEMMA TypesAfter ==
    ASSUME IInv, loading = "loaded", UNCHANGED loadVars,
           thread' \in ThreadType, ctx' \in Contexts, below' \in Seq(Contexts), emptied' \in BOOLEAN,
           (\E kind \in Kinds : Emit(kind)) \/ UNCHANGED <<queue, arrived>>,
           {invalid', locked', raised', cut'} \subseteq BOOLEAN,
           execmode' \in {"STOPPED", "PLAY", "PAUSE", "STEP", "STOPPING"},
           {commands', steps'} \subseteq Nat, edits' \in 0..MaxEdit
    PROVE  TypeOK' /\ BeforeLoad'
<1>1. /\ queue' \in Seq(Kinds) /\ arrived' \in 0..Len(queue') /\ included' \in 0..Len(queue')
  <2>1. CASE \E kind \in Kinds : Emit(kind)
    BY <2>1, EmitFacts DEF IInv, loadVars
  <2>2. CASE UNCHANGED <<queue, arrived>>
    BY <2>2 DEF IInv, TypeOK, loadVars
  <2> QED BY <2>1, <2>2
<1>2. loading' = loading /\ included' = included /\ late' = late
  BY DEF loadVars
<1> QED BY <1>1, <1>2 DEF IInv, TypeOK, BeforeLoad, ThreadType

\* The contexts under the present one are left alone, and so is one that is not there.
LEMMA StackKept ==
    ASSUME IInv, UNCHANGED <<below, emptied>>, emptied => ctx' = ctx
    PROVE  Stacked' /\ below' \in Seq(Contexts) /\ emptied' \in BOOLEAN
BY DEF IInv, TypeOK, Stacked

-----------------------------------------------------------------------------
(* Feedback.                                                               *)

\* A step that leaves the context alone: what is told or will be told stays so.
LEMMA Quiet ==
    ASSUME Told, UNCHANGED <<ctx, cut, locked>>, raised => raised',
           "feedback" \in Range(queue) => "feedback" \in Range(queue'),
           \A u \in Thread :
              /\ InStep(u)' => InStep(u)
              /\ At(u, "exception")' => At(u, "exception")
              /\ InStep(u) => InStep(u)' \/ raised \/ "feedback" \in Range(queue')
              /\ At(u, "done") => At(u, "done")' \/ "feedback" \in Range(queue')
              /\ GoesOn(u) => GoesOn(u)'
    PROVE  Told'
<1>1. Pending => Pending'
  BY DEF Pending
<1>2. EndsAreFed'
  BY <1>1 DEF Told, EndsAreFed
<1>3. NoStepYet'
  BY DEF Told, NoStepYet
<1>4. ExceptionsNoted'
  BY DEF Told, ExceptionsNoted
<1>5. FeedbackComes'
  <2>1. Orphaned' /\ ~ raised => Orphaned
    BY DEF Orphaned
  <2> QED BY <2>1 DEF Told, FeedbackComes
<1> QED BY <1>2, <1>3, <1>4, <1>5 DEF Told

\* A step after which the feedback of the last step is there.
LEMMA Received ==
    ASSUME Told, isLastStepFeedbackReceived(ctx)', ctx'.last = "end" => "end" \in ctx'.fed,
           "none" \notin ctx'.fed,
           ctx'.last # "none" \/ cut' \/ \A u \in Thread : ~ InStep(u)',
           raised => raised', \A u \in Thread : At(u, "exception")' => At(u, "exception")
    PROVE  Told'
<1>1. EndsAreFed'
  BY DEF EndsAreFed, Pending
<1>2. NoStepYet'
  BY DEF NoStepYet
<1>3. ExceptionsNoted'
  BY DEF Told, ExceptionsNoted
<1>4. FeedbackComes'
  BY DEF FeedbackComes, Orphaned
<1> QED BY <1>1, <1>2, <1>3, <1>4 DEF Told

-----------------------------------------------------------------------------
(* The model and its changelogs.                                           *)

LEMMA OthersEditKeeps ==
    ASSUME IInv, OthersEdit
    PROVE  IInv'
<1>1. "line" \in Kinds /\ Emit("line")
  BY DEF OthersEdit, Kinds
<1>2. /\ queue' \in Seq(Kinds) /\ Len(queue') = Len(queue) + 1 /\ arrived' \in 0..Len(queue')
      /\ included \in 0..Len(queue') /\ Range(queue') = Range(queue) \cup {"line"}
  BY <1>1, EmitFacts DEF IInv
<1>3. edits < MaxEdit /\ edits' = edits + 1 /\ edits \in 0..MaxEdit /\ MaxEdit \in Nat
      /\ UNCHANGED <<loading, included, late, invalid, locked, execmode, ctx, thread, commands, steps, raised, cut, below, emptied>>
  BY TransformationAssumption DEF IInv, TypeOK, OthersEdit, loadVars, lockVars, stack, counters
<1>4. TypeOK'
  BY <1>2, <1>3 DEF IInv, TypeOK
<1>5. BeforeLoad'
  <2>1. Len(queue) \in Nat
    BY DEF IInv, TypeOK
  <2> QED BY <1>2, <1>3, <2>1 DEF IInv, BeforeLoad
<1>6. Told'
  BY <1>2, <1>3, Quiet DEF IInv, InStep, At, GoesOn
<1> QED BY <1>3, <1>4, <1>5, <1>6, StackKept DEF IInv

LEMMA SendModelKeeps ==
    ASSUME IInv, SendModel
    PROVE  IInv'
<1>1. loading' = "sent" /\ included' = Len(queue)
      /\ UNCHANGED <<queue, arrived, late, invalid, locked, execmode, ctx, thread, edits, commands, steps, raised, cut, below, emptied>>
      /\ Len(queue) \in Nat /\ loading = "asked"
  BY DEF SendModel, lockVars, stack, counters, IInv, TypeOK
<1>2. TypeOK'
  BY <1>1 DEF IInv, TypeOK
<1>3. BeforeLoad'
  BY <1>1 DEF IInv, BeforeLoad
<1>4. Told'
  BY <1>1, Quiet DEF IInv, InStep, At, GoesOn
<1> QED BY <1>1, <1>2, <1>3, <1>4, StackKept DEF IInv

LEMMA LoadModelKeeps ==
    ASSUME IInv, LoadModel
    PROVE  IInv'
<1>1. /\ loading = "sent" /\ loading' = "loaded" /\ included' = 0
      /\ queue' = SubSeq(queue, included + 1, Len(queue))
      /\ late' = IF arrived < included THEN included - arrived ELSE 0
      /\ arrived' = IF arrived < included THEN 0 ELSE arrived - included
      /\ UNCHANGED <<invalid, locked, execmode, ctx, thread, edits, commands, steps, raised, cut, below, emptied>>
  BY DEF LoadModel, lockVars, stack, counters
<1>2. /\ included \in 0..Len(queue) /\ arrived \in 0..Len(queue) /\ Len(queue) \in Nat
      /\ Len(queue) <= edits /\ edits \in 0..MaxEdit /\ MaxEdit \in Nat
      /\ ctx = Started /\ \A t \in Thread : thread[t] = Idle
  BY <1>1, TransformationAssumption DEF IInv, TypeOK, BeforeLoad
<1>3. queue' \in Seq(Kinds) /\ Len(queue') = Len(queue) - included
  BY <1>1, <1>2, QueueCut DEF IInv
<1>4. arrived' \in 0..Len(queue') /\ 0 \in 0..Len(queue') /\ late' \in 0..MaxEdit
  <2> HIDE TransformationAssumption
  <2>1. CASE arrived < included
    <3>1. arrived' = 0 /\ late' = included - arrived
      BY <1>1, <2>1
    <3> QED BY <1>2, <1>3, <2>1, <3>1
  <2>2. CASE ~(arrived < included)
    <3>1. arrived' = arrived - included /\ late' = 0
      BY <1>1, <2>2
    <3> QED BY <1>2, <1>3, <2>2, <3>1
  <2> QED BY <2>1, <2>2
<1>5. TypeOK'
  BY <1>1, <1>3, <1>4 DEF IInv, TypeOK
<1>6. BeforeLoad'
  BY <1>1 DEF BeforeLoad
<1>7. Told'
  <2>1. isLastStepFeedbackReceived(ctx)' /\ ctx'.last = "none"
    BY <1>1, <1>2 DEF isLastStepFeedbackReceived, Started
  <2>3. "none" \notin ctx'.fed
    BY <1>1 DEF IInv, Told, EndsAreFed
  <2>2. \A u \in Thread : ~ InStep(u)' /\ ~ At(u, "exception")'
    BY <1>1, <1>2 DEF InStep, At, Idle
  <2> QED BY <1>1, <2>1, <2>2, <2>3, Received DEF IInv
<1> QED BY <1>1, <1>5, <1>6, <1>7, StackKept DEF IInv

LEMMA OnChangelogKeeps ==
    ASSUME IInv, OnChangelog
    PROVE  IInv'
<1>1. arrived < Len(queue) /\ arrived' = arrived + 1
      /\ UNCHANGED <<queue, loading, included, late, invalid, locked, execmode, ctx, thread, edits, commands, steps, raised, cut, below, emptied>>
      /\ Len(queue) \in Nat /\ arrived \in 0..Len(queue)
  BY DEF OnChangelog, loadVars, lockVars, stack, counters, IInv, TypeOK
<1>2. arrived' \in 0..Len(queue')
  BY <1>1
<1>3. TypeOK'
  BY <1>1, <1>2 DEF IInv, TypeOK
<1>4. BeforeLoad'
  BY <1>1 DEF IInv, BeforeLoad
<1>5. Told'
  BY <1>1, Quiet DEF IInv, InStep, At, GoesOn
<1> QED BY <1>1, <1>3, <1>4, <1>5, StackKept DEF IInv

LEMMA OnLateChangelogKeeps ==
    ASSUME IInv, OnLateChangelog
    PROVE  IInv'
<1>1. late > 0 /\ late' = late - 1 /\ invalid' = TRUE
      /\ UNCHANGED <<queue, arrived, loading, included, locked, execmode, ctx, thread, edits, commands, steps, raised, cut, below, emptied>>
      /\ late \in 0..MaxEdit /\ MaxEdit \in Nat
  BY TransformationAssumption DEF OnLateChangelog, counters, stack, IInv, TypeOK
<1>2. late' \in 0..MaxEdit
  BY <1>1
<1>3. TypeOK'
  BY <1>1, <1>2 DEF IInv, TypeOK
<1>4. BeforeLoad'
  BY <1>1 DEF IInv, BeforeLoad
<1>5. Told'
  BY <1>1, Quiet DEF IInv, InStep, At, GoesOn
<1> QED BY <1>1, <1>3, <1>4, <1>5, StackKept DEF IInv

-----------------------------------------------------------------------------
(* Threads.                                                                *)

ExecModes == {"STOPPED", "PLAY", "PAUSE", "STEP", "STOPPING"}

\* A thread that moves and leaves the context alone; if it ends its step it says so.
LEMMA QuietStep ==
    ASSUME IInv, NEW t \in Thread, loading = "loaded",
           UNCHANGED <<loading, included, late, invalid, locked, ctx, below, emptied, cut, raised>>,
           thread' \in ThreadType, \A u \in Thread \ {t} : thread'[u] = thread[u],
           (\E kind \in Kinds : Emit(kind)) \/ UNCHANGED <<queue, arrived>>,
           execmode' \in ExecModes, {commands', steps'} \subseteq Nat, edits' \in 0..MaxEdit,
           InStep(t)' => InStep(t),
           At(t, "exception")' => At(t, "exception"),
           InStep(t) => InStep(t)' \/ raised \/ Emit("feedback"),
           At(t, "done") => At(t, "done")' \/ Emit("feedback"),
           GoesOn(t) => GoesOn(t)'
    PROVE  IInv'
<1>1. TypeOK' /\ BeforeLoad' /\ Stacked'
  <2>1. /\ ctx' \in Contexts /\ {invalid', locked', raised', cut'} \subseteq BOOLEAN
        /\ UNCHANGED loadVars
    BY DEF IInv, TypeOK, loadVars
  <2> QED BY <2>1, StackKept, TypesAfter DEF ExecModes
<1>2. "feedback" \in Range(queue) => "feedback" \in Range(queue')
  BY EmitFacts DEF IInv
<1>3. Emit("feedback") => "feedback" \in Range(queue')
  <2>1. "feedback" \in Kinds
    BY DEF Kinds
  <2> QED BY <2>1, EmitFacts DEF IInv
<1>4. ASSUME NEW u \in Thread
      PROVE  /\ InStep(u)' => InStep(u)
             /\ At(u, "exception")' => At(u, "exception")
             /\ InStep(u) => InStep(u)' \/ raised \/ "feedback" \in Range(queue')
             /\ At(u, "done") => At(u, "done")' \/ "feedback" \in Range(queue')
             /\ GoesOn(u) => GoesOn(u)'
  <2>1. CASE u = t
    BY <1>3, <2>1
  <2>2. CASE u # t
    BY <2>2 DEF InStep, At, GoesOn
  <2> QED BY <2>1, <2>2
<1>5. Told'
  BY <1>2, <1>4, Quiet DEF IInv
<1> QED BY <1>1, <1>5 DEF IInv

\* What most steps of threads leave as it is.
LEMMA StepTypes ==
    ASSUME IInv
    PROVE  /\ execmode \in ExecModes /\ commands \in Nat /\ steps \in Nat /\ edits \in 0..MaxEdit
           /\ MaxEdit \in Nat /\ ctx \in Contexts /\ thread \in ThreadType
           /\ {invalid, locked, raised, cut} \subseteq BOOLEAN
           /\ {"edit", "feedback", "line"} \subseteq Kinds
           /\ below \in Seq(Contexts) /\ emptied \in BOOLEAN
           /\ Modes \cup {"poll", "act", "rule", "edited", "success", "failure", "exception", "flag",
                          "done", "popped", "emptied", "reloaded", "none"} = Places
           /\ Modes = {"play", "pause", "step", "stop"} /\ Goals = {"play", "step", "stop"}
BY TransformationAssumption DEF IInv, TypeOK, ExecModes, ThreadType, Kinds, Places, Modes, Goals

LEMMA CommandKeeps ==
    ASSUME IInv, NEW mode \in Modes, Command(mode)
    PROVE  IInv'
<1>1. PICK t \in Free : Goto(t, mode)
  BY DEF Command
<1>2. t \in Thread /\ thread[t] = Idle
  BY <1>1 DEF Free
<1>3. /\ thread' \in ThreadType /\ thread'[t].pc = mode
      /\ \A u \in Thread \ {t} : thread'[u] = thread[u]
  BY <1>1, <1>2, StepTypes, Moves DEF IInv
<1>4. loading = "loaded" /\ commands' = commands + 1
      /\ UNCHANGED <<queue, arrived, edits, loading, included, late, invalid, locked, execmode, ctx, steps, raised, cut, below, emptied>>
  BY DEF Command, loadVars, lockVars, stack
<1>5. commands' \in Nat /\ thread[t].pc = "none"
  BY <1>2, <1>4, StepTypes DEF Idle
<1>6. ~ InStep(t)' /\ ~ At(t, "exception")' /\ ~ InStep(t) /\ ~ At(t, "done")
      /\ ~ GoesOn(t)
  BY <1>3, <1>5, StepTypes DEF InStep, At, GoesOn
<1> QED BY <1>2, <1>3, <1>4, <1>5, <1>6, StepTypes, QuietStep

\* play, pause, step and stop
LEMMA CommandsRun ==
    ASSUME IInv, NEW t \in Thread, Play(t) \/ Pause(t) \/ Step(t) \/ Stop(t)
    PROVE  IInv'
<1>1. /\ thread[t].pc \in Modes
      /\ UNCHANGED <<queue, arrived, edits, loading, included, late, invalid, locked, ctx, commands, steps, raised, cut, below, emptied>>
      /\ End(t) \/ \E goal \in Goals : Poll(t, goal)
      /\ execmode' \in ExecModes
  BY StepTypes DEF Play, Pause, Step, Stop, At, loadVars, lockVars, stack, counters, ExecModes
<1>2. loading = "loaded"
  BY <1>1, StepTypes, Loaded
<1>3. /\ thread' \in ThreadType /\ thread'[t].pc \in {"none", "poll"}
      /\ \A u \in Thread \ {t} : thread'[u] = thread[u]
  BY <1>1, Moves DEF IInv
<1>4. ~ InStep(t)' /\ ~ At(t, "exception")' /\ ~ InStep(t) /\ ~ At(t, "done")
      /\ ~ GoesOn(t)
  BY <1>1, <1>3, StepTypes DEF InStep, At, GoesOn
<1> QED BY <1>1, <1>2, <1>3, <1>4, StepTypes, QuietStep

\* Steps that do nothing to the context: the end of a loop, a step that cannot be found, what
\* is printed, and the end of a stop.
LEMMA QuietSteps ==
    ASSUME IInv, NEW t \in Thread,
           \/ LoopEnds(t) \/ NoNextRule(t) \/ PrintDone(t) \/ Edit(t) \/ PrintSuccess(t)
           \/ PrintFailure(t) \/ PrintException(t) \/ Stopped(t)
    PROVE  IInv'
<1>0. UNCHANGED <<loading, included, late, invalid, locked, ctx, commands, steps, raised, cut, below, emptied>>
      /\ thread[t].pc # "none"
  BY DEF LoopEnds, NoNextRule, PrintDone, Edit, PrintSuccess, PrintFailure, PrintException, Stopped,
         At, loadVars, lockVars, stack, counters, MayStep
<1>1. loading = "loaded"
  BY <1>0, Loaded
<1>2. CASE LoopEnds(t)
  <2>1. UNCHANGED <<queue, arrived, edits, execmode>> /\ thread[t].pc = "act" /\ thread[t].goal = "play" /\ End(t)
    BY <1>2 DEF LoopEnds, At
  <2>2. /\ thread' \in ThreadType /\ thread'[t].pc = "none"
        /\ \A u \in Thread \ {t} : thread'[u] = thread[u]
    BY <2>1, Moves DEF IInv
  <2>3. ~ InStep(t)' /\ ~ At(t, "exception")' /\ ~ InStep(t) /\ ~ At(t, "done") /\ ~ GoesOn(t)
    BY <2>1, <2>2 DEF InStep, At, GoesOn
  <2> QED BY <1>0, <1>1, <2>1, <2>2, <2>3, StepTypes, QuietStep
<1>3. CASE NoNextRule(t)
  <2>1. UNCHANGED <<edits, execmode>> /\ thread[t].pc \in {"act", "popped"} /\ Emit("line")
        /\ thread' = [thread EXCEPT ![t] = [pc |-> "act", goal |-> "stop"]]
    BY <1>3 DEF NoNextRule, MayStep, At
  <2>2. /\ thread' \in ThreadType /\ thread'[t] = [pc |-> "act", goal |-> "stop"]
        /\ \A u \in Thread \ {t} : thread'[u] = thread[u]
    BY <2>1, StepTypes DEF ThreadType
  <2>3. ~ InStep(t)' /\ ~ At(t, "exception")' /\ ~ InStep(t) /\ ~ At(t, "done") /\ GoesOn(t)'
    BY <2>1, <2>2 DEF InStep, At, GoesOn
  <2> QED BY <1>0, <1>1, <2>1, <2>2, <2>3, StepTypes, QuietStep
<1>4. CASE PrintDone(t)
  <2>1. UNCHANGED <<edits, execmode>> /\ thread[t].pc = "done" /\ Emit("feedback") /\ Goto(t, "stop")
    BY <1>4 DEF PrintDone, At
  <2>2. /\ thread' \in ThreadType /\ thread'[t].pc = "stop"
        /\ \A u \in Thread \ {t} : thread'[u] = thread[u]
    BY <2>1, Moves, StepTypes DEF IInv
  <2>3. ~ InStep(t)' /\ ~ At(t, "exception")' /\ ~ InStep(t) /\ ~ GoesOn(t)
    BY <2>1, <2>2 DEF InStep, At, GoesOn
  <2> QED BY <1>0, <1>1, <2>1, <2>2, <2>3, StepTypes, QuietStep
<1>5. CASE Edit(t)
  <2>1. /\ edits < MaxEdit /\ edits' = edits + 1 /\ UNCHANGED execmode
        /\ thread[t].pc = "rule" /\ Emit("edit") /\ Goto(t, "edited")
    BY <1>5 DEF Edit, At
  <2>2. /\ thread' \in ThreadType /\ thread'[t].pc = "edited"
        /\ \A u \in Thread \ {t} : thread'[u] = thread[u]
    BY <2>1, Moves, StepTypes DEF IInv
  <2>3. InStep(t)' /\ ~ At(t, "exception")' /\ InStep(t) /\ ~ At(t, "done") /\ ~ GoesOn(t)
    BY <2>1, <2>2 DEF InStep, At, GoesOn
  <2>4. edits' \in 0..MaxEdit
    BY <2>1, StepTypes
  <2> QED BY <1>0, <1>1, <2>1, <2>2, <2>3, <2>4, StepTypes, QuietStep
<1>6. CASE PrintSuccess(t)
  <2>1. UNCHANGED <<edits, execmode>> /\ thread[t].pc = "success" /\ Emit("feedback") /\ Goto(t, "flag")
    BY <1>6 DEF PrintSuccess, At
  <2>2. /\ thread' \in ThreadType /\ thread'[t].pc = "flag"
        /\ \A u \in Thread \ {t} : thread'[u] = thread[u]
    BY <2>1, Moves, StepTypes DEF IInv
  <2>3. InStep(t)' /\ ~ At(t, "exception")' /\ InStep(t) /\ ~ At(t, "done") /\ ~ GoesOn(t)
    BY <2>1, <2>2 DEF InStep, At, GoesOn
  <2> QED BY <1>0, <1>1, <2>1, <2>2, <2>3, StepTypes, QuietStep
<1>7. CASE PrintFailure(t)
  <2>1. UNCHANGED <<edits, execmode>> /\ thread[t].pc = "failure" /\ Emit("feedback")
        /\ (Goto(t, "poll") \/ End(t))
    BY <1>7 DEF PrintFailure, At, StepReturns
  <2>2. /\ thread' \in ThreadType /\ thread'[t].pc \in {"poll", "none"}
        /\ \A u \in Thread \ {t} : thread'[u] = thread[u]
    BY <2>1, Moves, StepTypes DEF IInv
  <2>3. ~ InStep(t)' /\ ~ At(t, "exception")' /\ ~ At(t, "done") /\ ~ GoesOn(t)
    BY <2>1, <2>2 DEF InStep, At, GoesOn
  <2> QED BY <1>0, <1>1, <2>1, <2>2, <2>3, StepTypes, QuietStep
<1>8. CASE PrintException(t)
  <2>1. UNCHANGED <<edits, execmode>> /\ thread[t].pc = "exception" /\ Emit("line")
        /\ (Goto(t, "poll") \/ End(t))
    BY <1>8 DEF PrintException, At, StepReturns
  <2>2. /\ thread' \in ThreadType /\ thread'[t].pc \in {"poll", "none"}
        /\ \A u \in Thread \ {t} : thread'[u] = thread[u]
    BY <2>1, Moves, StepTypes DEF IInv
  <2>3. ~ InStep(t)' /\ ~ At(t, "exception")' /\ ~ At(t, "done") /\ raised /\ ~ GoesOn(t)
    BY <2>1, <2>2 DEF InStep, At, GoesOn, IInv, Told, ExceptionsNoted
  <2> QED BY <1>0, <1>1, <2>1, <2>2, <2>3, StepTypes, QuietStep
<1>9. CASE Stopped(t)
  <2>1. UNCHANGED edits /\ execmode' = "STOPPED" /\ thread[t].pc = "reloaded" /\ Emit("line") /\ End(t)
    BY <1>9 DEF Stopped, At
  <2>2. /\ thread' \in ThreadType /\ thread'[t].pc = "none"
        /\ \A u \in Thread \ {t} : thread'[u] = thread[u]
    BY <2>1, Moves DEF IInv
  <2>3. ~ InStep(t)' /\ ~ At(t, "exception")' /\ ~ InStep(t) /\ ~ At(t, "done") /\ execmode' \in ExecModes /\ ~ GoesOn(t)
    BY <2>1, <2>2 DEF InStep, At, GoesOn, ExecModes
  <2> QED BY <1>0, <1>1, <2>1, <2>2, <2>3, StepTypes, QuietStep
<1> QED BY <1>2, <1>3, <1>4, <1>5, <1>6, <1>7, <1>8, <1>9

\* A batchEdit that is refused: another thread will stop, and a line says so.
LEMMA EditRefusedKeeps ==
    ASSUME IInv, NEW t \in Thread, EditRefused(t)
    PROVE  IInv'
<1>1. PICK u \in Free : Poll(u, "stop")
  BY DEF EditRefused, Poll
<1>2. /\ edits < MaxEdit /\ edits' = edits + 1 /\ Emit("feedback") /\ execmode' = "STOPPING"
      /\ UNCHANGED <<loading, included, late, invalid, locked, ctx, commands, steps, raised, cut, below, emptied>>
      /\ thread[t].pc = "rule"
  BY DEF EditRefused, At, loadVars, lockVars, stack, counters
<1>3. u \in Thread /\ thread[u].pc = "none" /\ loading = "loaded"
  BY <1>1, <1>2, Loaded DEF Free, Idle
<1>4. /\ thread' \in ThreadType /\ thread'[u].pc = "poll"
      /\ \A v \in Thread \ {u} : thread'[v] = thread[v]
  BY <1>1, <1>3, Moves, StepTypes DEF IInv
<1>5. ~ InStep(u)' /\ ~ At(u, "exception")' /\ ~ InStep(u) /\ ~ At(u, "done") /\ ~ GoesOn(u)
  BY <1>3, <1>4 DEF InStep, At, GoesOn
<1>6. edits' \in 0..MaxEdit /\ execmode' \in ExecModes
  BY <1>2, StepTypes DEF ExecModes
<1> QED BY <1>2, <1>3, <1>4, <1>5, <1>6, StepTypes, QuietStep

\* Changelogs are handled, by a thread that polls or by one whose rule has changed the model.
LEMMA HandlingKeeps ==
    ASSUME IInv, NEW t \in Thread, DoWhenFed(t) \/ AfterEdit(t)
    PROVE  IInv'
<1>1. PICK next \in [pc : Places, goal : Goals \cup {"none"}] :
         /\ HandleChangelogs(t, next)
         /\ \/ thread[t].pc = "edited" /\ next.pc = "rule"
            \/ thread[t].pc = "poll" /\ next.pc \in {"act", "poll", "none"}
  <2>1. CASE DoWhenFed(t)
    <3> DEFINE n == IF emptied THEN Idle
                    ELSE [thread[t] EXCEPT !.pc = IF isLastStepFeedbackReceived(Handled)
                                                  THEN "act" ELSE "poll"]
    <3>1. n \in [pc : Places, goal : Goals \cup {"none"}] /\ n.pc \in {"act", "poll", "none"}
      BY StepTypes DEF Idle, ThreadType
    <3>2. HandleChangelogs(t, n) /\ thread[t].pc = "poll"
      BY <2>1 DEF DoWhenFed, At
    <3> QED BY <3>1, <3>2
  <2>2. CASE AfterEdit(t)
    <3>1. [thread[t] EXCEPT !.pc = "rule"] \in [pc : Places, goal : Goals \cup {"none"}]
          /\ [thread[t] EXCEPT !.pc = "rule"].pc = "rule"
      BY StepTypes DEF ThreadType
    <3> QED BY <2>2, <3>1 DEF AfterEdit, At
  <2> QED BY <2>1, <2>2
<1>2. UNCHANGED <<loading, included, late, invalid, edits, execmode, commands, steps, raised, cut, below, emptied>>
      /\ loading = "loaded"
  <2>1. thread[t].pc # "none"
    BY <1>1
  <2> QED BY <2>1, Loaded DEF DoWhenFed, AfterEdit, HandleChangelogs, loadVars, stack, counters
<1>3. /\ queue' \in Seq(Kinds) /\ arrived' \in 0..Len(queue') /\ included' \in 0..Len(queue')
      /\ ctx' \in Contexts /\ locked' \in BOOLEAN /\ thread' \in ThreadType
      /\ \A u \in Thread \ {t} : thread'[u] = thread[u]
      /\ \/ locked' /\ ctx' = ctx /\ thread'[t] = Idle
         \/ /\ thread'[t] = next /\ ~ locked'
            /\ \/ ctx' = ctx /\ ("feedback" \in Range(queue) => "feedback" \in Range(queue'))
               \/ ctx' = setLastStepFeedbackReceived(ctx) /\ ~ emptied
  BY <1>1, <1>2, HandleFacts DEF ThreadType
<1>4. TypeOK'
  BY <1>2, <1>3 DEF IInv, TypeOK, ThreadType
<1>5. BeforeLoad' /\ Stacked'
  <2>1. emptied => ctx' = ctx
    BY <1>3
  <2> QED BY <1>2, <2>1, StackKept DEF IInv, BeforeLoad
<1>6. Told'
  <2>1. CASE locked' /\ ctx' = ctx /\ thread'[t] = Idle
    <3>1. \A u \in Thread : (InStep(u)' => InStep(u)) /\ (At(u, "exception")' => At(u, "exception"))
      BY <1>3, <2>1 DEF InStep, At, Idle
    <3>2. EndsAreFed' /\ NoStepYet' /\ ExceptionsNoted' /\ FeedbackComes'
      BY <1>2, <2>1, <3>1 DEF IInv, Told, EndsAreFed, NoStepYet, ExceptionsNoted, FeedbackComes
    <3> QED BY <3>2 DEF Told
  <2>2. ASSUME thread'[t] = next
        PROVE  \A u \in Thread : /\ InStep(u)' <=> InStep(u)
                                 /\ At(u, "exception")' => At(u, "exception")
                                 /\ At(u, "done") => At(u, "done")'
                                 /\ GoesOn(u) => GoesOn(u)'
    <3>1. ASSUME NEW u \in Thread \ {t}
          PROVE  /\ InStep(u)' <=> InStep(u)
                 /\ At(u, "exception")' => At(u, "exception")
                 /\ At(u, "done") => At(u, "done")'
                 /\ GoesOn(u) => GoesOn(u)'
      BY <1>3, <3>1 DEF InStep, At, GoesOn
    <3>2. /\ InStep(t)' <=> InStep(t)
          /\ At(t, "exception")' => At(t, "exception")
          /\ At(t, "done") => At(t, "done")'
          /\ GoesOn(t) => GoesOn(t)'
      BY <1>1, <2>2 DEF InStep, At, GoesOn
    <3> QED BY <3>1, <3>2
  <2>3. CASE /\ thread'[t] = next /\ ~ locked'
             /\ ctx' = ctx /\ ("feedback" \in Range(queue) => "feedback" \in Range(queue'))
    <3>1. CASE locked
      BY <1>1, <3>1 DEF HandleChangelogs
    <3>2. CASE ~ locked
      <4>1. locked' = locked
        BY <1>3, <2>3, <3>2 DEF IInv, TypeOK
      <4> QED BY <1>2, <2>2, <2>3, <4>1, Quiet DEF IInv
    <3> QED BY <3>1, <3>2
  <2>4. CASE thread'[t] = next /\ ctx' = setLastStepFeedbackReceived(ctx)
    <3>1. isLastStepFeedbackReceived(ctx)' /\ ctx'.last \in ctx'.fed /\ ctx'.last # "none"
          /\ "none" \notin ctx'.fed
      BY <2>4, FeedbackNoted, StepTypes DEF isLastStepFeedbackReceived, IInv, Told, EndsAreFed
    <3> QED BY <1>2, <2>2, <2>4, <3>1, Received DEF IInv
  <2> QED BY <1>3, <2>1, <2>3, <2>4
<1> QED BY <1>4, <1>5, <1>6 DEF IInv

\* A step has a rule to run: it is under way.
LEMMA StepBeginsKeeps ==
    ASSUME IInv, NEW t \in Thread, StepBegins(t)
    PROVE  IInv'
<1>1. PICK r \in NextRules(ctx) : ctx' = [ctx EXCEPT !.last = r]
  BY DEF StepBegins
<1>2. r \in Rule /\ r \notin {"none", "stray", "end"}
  BY <1>1, TransformationAssumption DEF NextRules
<1>3. /\ thread[t].pc \in {"act", "popped"} /\ Goto(t, "rule") /\ steps' = steps + 1 /\ ~ emptied
      /\ UNCHANGED <<queue, arrived, edits, loading, included, late, invalid, locked, execmode, commands, raised, cut, below, emptied>>
  BY DEF StepBegins, MayStep, Lost, At, loadVars, lockVars, stack
<1>4. loading = "loaded"
  BY <1>3, Loaded
<1>5. /\ thread' \in ThreadType /\ thread'[t].pc = "rule"
      /\ \A u \in Thread \ {t} : thread'[u] = thread[u]
  BY <1>3, Moves, StepTypes DEF IInv
<1>6. ctx' \in Contexts /\ ctx'.last = r
  BY <1>1, <1>2, StepTypes DEF Contexts, Steps
<1>7. TypeOK' /\ BeforeLoad' /\ Stacked'
  <2>1. steps' \in Nat
    BY <1>3, StepTypes
  <2> QED BY <1>3, <1>4, <1>5, <1>6, <2>1, StackKept, StepTypes, TypesAfter DEF loadVars, ExecModes
<1>8. EndsAreFed' /\ NoStepYet'
  <2>1. ctx'.fed = ctx.fed
    BY <1>1, StepTypes DEF Contexts
  <2> QED BY <1>2, <1>6, <2>1 DEF EndsAreFed, NoStepYet, IInv, Told
<1>9. ExceptionsNoted'
  <2>1. \A u \in Thread : At(u, "exception")' => At(u, "exception")
    BY <1>5 DEF At
  <2> QED BY <1>3, <2>1 DEF IInv, Told, ExceptionsNoted
<1>10. FeedbackComes'
  <2>1. InStep(t)'
    BY <1>5 DEF InStep
  <2> QED BY <2>1 DEF FeedbackComes, Orphaned
<1> QED BY <1>7, <1>8, <1>9, <1>10 DEF IInv, Told

\* The transformation is at its end: the thread is about to say so.
LEMMA TransformationDoneKeeps ==
    ASSUME IInv, NEW t \in Thread, TransformationDone(t)
    PROVE  IInv'
<1>1. /\ thread[t].pc \in {"act", "popped"} /\ Goto(t, "done") /\ ~ emptied
      /\ \/ ctx' = [ctx EXCEPT !.last = "end", !.fed = @ \cup {"end"}]
         \/ ctx' = [ctx EXCEPT !.last = "none", !.expired = TRUE]
      /\ UNCHANGED <<queue, arrived, edits, loading, included, late, invalid, locked, execmode, commands, steps, raised, cut, below, emptied>>
  BY DEF TransformationDone, MayStep, Lost, At, loadVars, lockVars, stack, counters
<1>2. loading = "loaded"
  BY <1>1, Loaded
<1>3. /\ thread' \in ThreadType /\ thread'[t].pc = "done"
      /\ \A u \in Thread \ {t} : thread'[u] = thread[u]
  BY <1>1, Moves, StepTypes DEF IInv
<1>4. /\ ctx' \in Contexts
      /\ "none" \notin ctx.fed => "none" \notin ctx'.fed
      /\ ctx'.last = "end" => "end" \in ctx'.fed
      /\ ctx'.last = "none" => ctx'.expired
  <2>1. ctx \in Contexts /\ "end" \in Steps /\ "none" \in Steps
    BY StepTypes DEF Steps
  <2>2. CASE ctx' = [ctx EXCEPT !.last = "end", !.fed = @ \cup {"end"}]
    BY <2>1, <2>2 DEF Contexts
  <2>3. CASE ctx' = [ctx EXCEPT !.last = "none", !.expired = TRUE]
    BY <2>1, <2>3 DEF Contexts
  <2> QED BY <1>1, <2>2, <2>3
<1>5. TypeOK' /\ BeforeLoad' /\ Stacked'
  BY <1>1, <1>2, <1>3, <1>4, StackKept, StepTypes, TypesAfter DEF loadVars, ExecModes
<1>6. At(t, "done")'
  BY <1>3 DEF At
<1>7. EndsAreFed' /\ NoStepYet' /\ FeedbackComes'
  BY <1>4, <1>6 DEF IInv, Told, EndsAreFed, Pending, NoStepYet, FeedbackComes, Orphaned
<1>8. ExceptionsNoted'
  <2>1. \A u \in Thread : At(u, "exception")' => At(u, "exception")
    BY <1>3 DEF At
  <2> QED BY <1>1, <2>1 DEF IInv, Told, ExceptionsNoted
<1> QED BY <1>5, <1>7, <1>8 DEF IInv, Told

\* A rule is over: its result is to be printed, or its thread dies where the last step is
\* no longer that of a rule.
LEMMA RuleEndsKeeps ==
    ASSUME IInv, NEW t \in Thread, NEW result \in {"success", "failure", "exception"},
           RuleEnds(t, result)
    PROVE  IInv'
<1>1. /\ thread[t].pc = "rule" /\ ~ emptied /\ ctx' = setLastStepApplicationInfo(ctx)
      /\ raised' = (raised \/ result = "exception")
      /\ IF result = "exception" \/ ctx'.last \in Rule THEN Goto(t, result) ELSE End(t)
      /\ UNCHANGED <<queue, arrived, edits, loading, included, late, invalid, locked, execmode, commands, steps, cut, below, emptied>>
  BY DEF RuleEnds, At, loadVars, lockVars, stack
<1>2. loading = "loaded"
  BY <1>1, Loaded
<1>3. /\ thread' \in ThreadType
      /\ \A u \in Thread \ {t} : thread'[u] = thread[u]
      /\ \/ thread'[t].pc = result
         \/ thread'[t].pc = "none" /\ result # "exception" /\ ctx'.last \notin Rule
  <2>1. result \in Places
    BY StepTypes
  <2>2. CASE result = "exception" \/ ctx'.last \in Rule
    <3>1. Goto(t, result)
      BY <1>1, <2>2
    <3> QED BY <2>1, <3>1, Moves DEF IInv
  <2>3. CASE ~(result = "exception" \/ ctx'.last \in Rule)
    <3>1. End(t)
      BY <1>1, <2>3
    <3> QED BY <2>3, <3>1, Moves DEF IInv
  <2> QED BY <2>2, <2>3
<1>4. /\ ctx' \in Contexts /\ ctx'.fed = ctx.fed /\ ctx'.expired = ctx.expired
      /\ ctx'.last = IF ctx.last = "none" THEN "stray" ELSE ctx.last
  <2>1. ctx \in Contexts /\ Written(ctx) \in Steps
    BY StepTypes DEF Written, Steps, Contexts
  <2> QED BY <1>1, <2>1 DEF setLastStepApplicationInfo, Contexts, Written
<1>5. TypeOK' /\ BeforeLoad' /\ Stacked'
  <2>1. raised' \in BOOLEAN
    BY <1>1
  <2>2. Stacked' /\ below' \in Seq(Contexts) /\ emptied' \in BOOLEAN
    BY <1>1, StackKept
  <2> QED BY <1>1, <1>2, <1>3, <1>4, <2>1, <2>2, StepTypes, TypesAfter DEF loadVars, ExecModes
<1>6. EndsAreFed'
  <2>1. ctx'.last \notin Rule => Pending' \/ cut' \/ locked'
    <3>1. SUFFICES ASSUME ctx'.last \notin Rule, ~ cut, ~ locked PROVE Pending'
      BY <1>1
    <3>2. ctx.last \notin Rule
      BY <1>4, <3>1, TransformationAssumption
    <3>3. Pending
      BY <3>1, <3>2 DEF IInv, Told, EndsAreFed
    <3>4. ctx.last # "none" \/ ctx.expired
      <4>1. InStep(t)
        BY <1>1 DEF InStep
      <4> QED BY <3>1, <4>1 DEF IInv, Told, NoStepYet
    <3>5. CASE isLastStepFeedbackReceived(ctx)
      <4>1. ctx.last \in ctx.fed /\ ctx.last # "none"
        BY <3>4, <3>5 DEF isLastStepFeedbackReceived, IInv, Told, EndsAreFed
      <4> QED BY <1>4, <4>1 DEF Pending, isLastStepFeedbackReceived
    <3>6. ASSUME NEW u \in Thread, At(u, "done") \/ GoesOn(u) PROVE Pending'
      <4>1. u # t
        BY <1>1, <3>6 DEF At, GoesOn
      <4>2. At(u, "done")' \/ GoesOn(u)'
        BY <1>3, <3>6, <4>1 DEF At, GoesOn
      <4> QED BY <4>2 DEF Pending
    <3>7. CASE "feedback" \in Range(queue)
      BY <1>1, <3>7 DEF Pending
    <3> QED BY <3>3, <3>5, <3>6, <3>7 DEF Pending
  <2> QED BY <1>4, <2>1 DEF IInv, Told, EndsAreFed
<1>7. NoStepYet'
  BY <1>4 DEF NoStepYet
<1>8. ExceptionsNoted'
  <2>1. ASSUME NEW u \in Thread, At(u, "exception")' PROVE raised'
    <3>1. CASE u = t
      BY <1>1, <1>3, <2>1, <3>1 DEF At
    <3>2. CASE u # t
      BY <1>1, <1>3, <2>1, <3>2 DEF At, IInv, Told, ExceptionsNoted
    <3> QED BY <3>1, <3>2
  <2> QED BY <2>1 DEF ExceptionsNoted
<1>9. FeedbackComes'
  <2>1. CASE thread'[t].pc = result
    BY <2>1 DEF InStep, FeedbackComes, Orphaned
  <2>2. CASE ctx'.last \notin Rule
    <3>1. Orphaned' => ~ Pending'
      BY DEF Orphaned, Pending
    <3> QED BY <1>6, <2>2, <3>1 DEF EndsAreFed, FeedbackComes
  <2> QED BY <1>3, <2>1, <2>2
<1> QED BY <1>5, <1>6, <1>7, <1>8, <1>9 DEF IInv, Told

\* A success notes its feedback at once.
LEMMA FlagSuccessKeeps ==
    ASSUME IInv, NEW t \in Thread, FlagSuccess(t)
    PROVE  IInv'
<1>1. /\ thread[t].pc = "flag" /\ ~ emptied /\ ctx' = setLastStepFeedbackReceived(ctx)
      /\ Goto(t, "poll") \/ End(t)
      /\ UNCHANGED <<queue, arrived, edits, loading, included, late, invalid, locked, execmode, commands, steps, raised, cut, below, emptied>>
  BY DEF FlagSuccess, At, StepReturns, loadVars, lockVars, stack, counters
<1>2. loading = "loaded"
  BY <1>1, Loaded
<1>3. /\ thread' \in ThreadType /\ thread'[t].pc \in {"poll", "none"}
      /\ \A u \in Thread \ {t} : thread'[u] = thread[u]
  BY <1>1, Moves, StepTypes DEF IInv
<1>4. /\ ctx' \in Contexts /\ isLastStepFeedbackReceived(ctx)' /\ ctx'.last \in ctx'.fed
      /\ ctx'.last # "none" /\ "none" \notin ctx'.fed
  BY <1>1, FeedbackNoted, StepTypes DEF isLastStepFeedbackReceived, IInv, Told, EndsAreFed
<1>5. TypeOK' /\ BeforeLoad' /\ Stacked'
  BY <1>1, <1>2, <1>3, <1>4, StackKept, StepTypes, TypesAfter DEF loadVars, ExecModes
<1>6. \A u \in Thread : At(u, "exception")' => At(u, "exception")
  BY <1>3 DEF At
<1>7. Told'
  BY <1>1, <1>4, <1>6, Received DEF IInv
<1> QED BY <1>5, <1>7 DEF IInv

\* A rule that finds no context takes its thread with it: the contexts were taken away.
LEMMA ContextIsGoneKeeps ==
    ASSUME IInv, NEW t \in Thread, ContextIsGone(t)
    PROVE  IInv'
<1>1. /\ thread[t].pc \in {"rule", "flag"} /\ emptied /\ End(t)
      /\ UNCHANGED <<queue, arrived, edits, loading, included, late, invalid, locked, execmode, ctx, commands, steps, raised, cut, below, emptied>>
  BY DEF ContextIsGone, At, loadVars, lockVars, stack, counters
<1>2. loading = "loaded"
  BY <1>1, Loaded
<1>3. /\ thread' \in ThreadType /\ thread'[t].pc = "none"
      /\ \A u \in Thread \ {t} : thread'[u] = thread[u]
  BY <1>1, Moves DEF IInv
<1>4. TypeOK' /\ BeforeLoad' /\ Stacked'
  BY <1>1, <1>2, <1>3, StackKept, StepTypes, TypesAfter DEF loadVars, ExecModes
<1>5. isLastStepFeedbackReceived(ctx)' /\ ctx'.last = "none" /\ ctx'.fed = {}
  BY <1>1 DEF IInv, Stacked, Started, isLastStepFeedbackReceived
<1>6. cut'
  <2>1. InStep(t) /\ ctx.last = "none" /\ ~ ctx.expired
    BY <1>1 DEF InStep, IInv, Stacked, Started
  <2> QED BY <1>1, <2>1 DEF IInv, Told, NoStepYet
<1>7. \A u \in Thread : At(u, "exception")' => At(u, "exception")
  BY <1>3 DEF At
<1>8. Told'
  BY <1>1, <1>5, <1>6, <1>7, Received DEF IInv
<1> QED BY <1>4, <1>8 DEF IInv

\* A context is done and popped: the thread asks the one under it for the next step.
LEMMA ContextDoneKeeps ==
    ASSUME IInv, NEW t \in Thread, ContextDone(t)
    PROVE  IInv'
<1> DEFINE c == Head(below)
<1>1. /\ thread[t].pc \in {"act", "popped"} /\ Goto(t, "popped") /\ ~ emptied /\ below # <<>>
      /\ ctx' = setLastStepApplicationInfo(c) \/ (c.last = "none" /\ ctx' = c)
      /\ below' = Tail(below) /\ cut' = (cut \/ \E u \in Thread : u # t /\ InStep(u))
      /\ UNCHANGED <<queue, arrived, edits, loading, included, late, invalid, locked, execmode, commands, steps, raised, emptied>>
  BY DEF ContextDone, MayStep, Lost, At, loadVars, lockVars, counters
<1>2. loading = "loaded"
  BY <1>1, Loaded
<1>3. /\ thread' \in ThreadType /\ thread'[t].pc = "popped"
      /\ \A u \in Thread \ {t} : thread'[u] = thread[u]
  BY <1>1, Moves, StepTypes DEF IInv
<1>4. /\ below \in Seq(Contexts) /\ Len(below) \in Nat /\ 1 \in DOMAIN below /\ c = below[1]
      /\ c \in Contexts /\ below' \in Seq(Contexts)
      /\ \A i \in DOMAIN below' : i + 1 \in DOMAIN below /\ below'[i] = below[i + 1]
  <2>1. below \in Seq(Contexts)
    BY StepTypes
  <2> QED BY <1>1, <2>1, HeadTailProperties
<1>5. /\ c.last = "end" => "end" \in c.fed
      /\ "none" \notin c.fed
  BY <1>4 DEF IInv, Stacked
<1>6. /\ ctx' \in Contexts /\ ctx'.fed = c.fed
      /\ ctx'.last = "end" => c.last = "end"
  <2>1. CASE ctx' = setLastStepApplicationInfo(c)
    <3>1. c.last \in Steps /\ Written(c) \in Steps /\ (Written(c) = "end" => c.last = "end")
      BY <1>4 DEF Written, Steps, Contexts
    <3> QED BY <1>4, <2>1, <3>1 DEF setLastStepApplicationInfo, Contexts
  <2>2. CASE ctx' = c
    BY <1>4, <2>2
  <2> QED BY <1>1, <2>1, <2>2
<1> HIDE DEF c
<1>7. TypeOK' /\ BeforeLoad'
  <2>1. cut' \in BOOLEAN
    BY <1>1
  <2> QED BY <1>1, <1>2, <1>3, <1>4, <1>6, <2>1, StepTypes, TypesAfter DEF loadVars, ExecModes
<1>8. Stacked'
  BY <1>1, <1>4 DEF IInv, Stacked
<1>9. GoesOn(t)'
  BY <1>3 DEF GoesOn, At
<1>10. EndsAreFed' /\ FeedbackComes'
  BY <1>5, <1>6, <1>9 DEF EndsAreFed, Pending, FeedbackComes, Orphaned
<1>11. \A u \in Thread : /\ At(u, "exception")' => At(u, "exception")
                         /\ InStep(u)' => u # t /\ InStep(u)
  BY <1>3 DEF At, InStep
<1>12. NoStepYet' /\ ExceptionsNoted'
  BY <1>1, <1>11 DEF IInv, Told, NoStepYet, ExceptionsNoted
<1> QED BY <1>7, <1>8, <1>10, <1>12 DEF IInv, Told

\* A stop takes the contexts away, or puts one that is new over what another stop has put there.
LEMMA StopKeeps ==
    ASSUME IInv, NEW t \in Thread, ForgetContexts(t) \/ LoadContext(t)
    PROVE  IInv'
<1>1. /\ thread[t].pc \in {"act", "emptied"} /\ ctx' = Started
      /\ Goto(t, "emptied") \/ Goto(t, "reloaded")
      /\ cut' = (cut \/ \E u \in Thread : InStep(u)) /\ emptied' \in BOOLEAN
      /\ below' = <<>> \/ below' = <<ctx>> \o below
      /\ UNCHANGED <<queue, arrived, edits, loading, included, late, invalid, locked, execmode, commands, steps, raised>>
  BY DEF ForgetContexts, LoadContext, Cuts, At, loadVars, lockVars, counters
<1>2. loading = "loaded"
  BY <1>1, Loaded
<1>3. /\ thread' \in ThreadType /\ thread'[t].pc \in {"emptied", "reloaded"}
      /\ \A u \in Thread \ {t} : thread'[u] = thread[u]
  BY <1>1, Moves, StepTypes DEF IInv
<1>4. ctx' \in Contexts /\ isLastStepFeedbackReceived(ctx)' /\ ctx'.last = "none" /\ ctx'.fed = {}
  BY <1>1 DEF Started, Contexts, Steps, isLastStepFeedbackReceived
<1>5. /\ below' \in Seq(Contexts)
      /\ \A i \in DOMAIN below' :
            below'[i] = ctx \/ \E j \in DOMAIN below : below'[i] = below[j]
  <2>1. below \in Seq(Contexts) /\ <<ctx>> \in Seq(Contexts) /\ Len(<<ctx>>) = 1 /\ <<ctx>>[1] = ctx
    BY StepTypes
  <2>2. CASE below' = <<>>
    BY <2>2
  <2>3. CASE below' = <<ctx>> \o below
    <3>1. /\ below' \in Seq(Contexts) /\ Len(below') = 1 + Len(below) /\ Len(below) \in Nat
          /\ \A i \in 1 .. 1 + Len(below) :
                below'[i] = IF i <= 1 THEN <<ctx>>[i] ELSE below[i - 1]
      BY <2>1, <2>3, ConcatProperties
    <3>2. ASSUME NEW i \in DOMAIN below'
          PROVE  below'[i] = ctx \/ \E j \in DOMAIN below : below'[i] = below[j]
      <4>1. i \in 1 .. 1 + Len(below)
        BY <3>1, <3>2
      <4>2. CASE i = 1
        BY <2>1, <3>1, <4>1, <4>2
      <4>3. CASE i # 1
        <5>1. ~ (i <= 1) /\ i - 1 \in 1 .. Len(below)
          BY <3>1, <4>1, <4>3
        <5> QED BY <2>1, <3>1, <4>1, <5>1
      <4> QED BY <4>2, <4>3
    <3> QED BY <3>1, <3>2
  <2> QED BY <1>1, <2>2, <2>3
<1>6. TypeOK' /\ BeforeLoad'
  <2>1. cut' \in BOOLEAN
    BY <1>1
  <2> QED BY <1>1, <1>2, <1>3, <1>4, <1>5, <2>1, StepTypes, TypesAfter DEF loadVars, ExecModes
<1>7. Stacked'
  BY <1>1, <1>5 DEF IInv, Stacked, Told, EndsAreFed
<1>8. \A u \in Thread : /\ At(u, "exception")' => At(u, "exception")
                        /\ InStep(u)' => InStep(u)
  BY <1>3 DEF At, InStep
<1>9. Told'
  BY <1>1, <1>4, <1>8, Received DEF IInv
<1> QED BY <1>6, <1>7, <1>9 DEF IInv

-----------------------------------------------------------------------------
(* Theorems.                                                               *)

LEMMA InitInv == Init => IInv
<1> SUFFICES ASSUME Init PROVE IInv
  OBVIOUS
<1>1. /\ queue = <<>> /\ Len(queue) = 0 /\ queue \in Seq(Kinds) /\ 0 \in 0..0
      /\ MaxEdit \in Nat /\ 0 \in 0..MaxEdit
  BY TransformationAssumption DEF Init
<1>2. ctx = Started /\ ctx \in Contexts /\ ctx.last = "none" /\ ctx.fed = {}
      /\ isLastStepFeedbackReceived(ctx)
  BY DEF Init, Started, Contexts, Steps, isLastStepFeedbackReceived
<1>3. thread \in ThreadType /\ \A t \in Thread : thread[t] = Idle /\ thread[t].pc = "none"
  BY DEF Init, ThreadType, Idle, Places
<1>4. TypeOK
  <2>1. arrived \in 0..Len(queue) /\ included \in 0..Len(queue) /\ late \in 0..MaxEdit /\ edits \in 0..MaxEdit
    BY <1>1 DEF Init
  <2>2. {commands, steps} \subseteq Nat /\ loading = "asked" /\ execmode = "STOPPED"
    BY DEF Init
  <2>3. {invalid, locked} \subseteq BOOLEAN /\ {raised, cut} \subseteq BOOLEAN
    <3>1. invalid \in BOOLEAN /\ locked \in BOOLEAN /\ raised \in BOOLEAN /\ cut \in BOOLEAN
      BY Zenon DEF Init
    <3> QED BY <3>1, Zenon
  <2>4. below \in Seq(Contexts) /\ emptied \in BOOLEAN
    <3>1. below = <<>> /\ emptied \in BOOLEAN
      BY Zenon DEF Init
    <3> QED BY <3>1
  <2> QED BY <1>1, <1>2, <1>3, <2>1, <2>2, <2>3, <2>4 DEF TypeOK, ThreadType
<1>5. BeforeLoad /\ Stacked
  BY <1>1, <1>2, <1>3 DEF Init, BeforeLoad, Stacked
<1>6. Told
  <2>1. \A t \in Thread : ~ InStep(t) /\ ~ At(t, "exception")
    BY <1>3 DEF InStep, At
  <2> QED BY <1>2, <2>1 DEF Told, EndsAreFed, Pending, NoStepYet, ExceptionsNoted, FeedbackComes, Orphaned
<1> QED BY <1>4, <1>5, <1>6 DEF IInv

LEMMA StutterInv ==
    ASSUME IInv, UNCHANGED vars
    PROVE  IInv'
<1>1. UNCHANGED <<queue, arrived, loading, included, late, invalid, locked, execmode, ctx, thread,
                  commands, steps, edits, raised, cut, below, emptied>>
  BY DEF vars, loadVars, stack
<1>2. TypeOK' /\ BeforeLoad' /\ Stacked'
  BY <1>1, StackKept DEF IInv, TypeOK, BeforeLoad
<1>3. Told'
  BY <1>1, Quiet DEF IInv, InStep, At, GoesOn
<1> QED BY <1>2, <1>3 DEF IInv

LEMMA NextInv ==
    ASSUME IInv, Next
    PROVE  IInv'
<1>1. CASE OthersEdit \/ SendModel \/ LoadModel \/ OnChangelog \/ OnLateChangelog
  BY <1>1, OthersEditKeeps, SendModelKeeps, LoadModelKeeps, OnChangelogKeeps, OnLateChangelogKeeps
<1>2. ASSUME NEW mode \in Modes, Command(mode) PROVE IInv'
  BY <1>2, CommandKeeps
<1>3. ASSUME NEW t \in Thread, ThreadStep(t) PROVE IInv'
  <2>1. CASE Play(t) \/ Pause(t) \/ Step(t) \/ Stop(t)
    BY <2>1, CommandsRun
  <2>2. CASE \/ LoopEnds(t) \/ NoNextRule(t) \/ PrintDone(t) \/ Edit(t) \/ PrintSuccess(t)
             \/ PrintFailure(t) \/ PrintException(t) \/ Stopped(t)
    BY <2>2, QuietSteps
  <2>3. CASE DoWhenFed(t) \/ AfterEdit(t)
    BY <2>3, HandlingKeeps
  <2>4. CASE StepBegins(t) \/ TransformationDone(t) \/ ContextDone(t) \/ EditRefused(t) \/ FlagSuccess(t)
    BY <2>4, StepBeginsKeeps, TransformationDoneKeeps, ContextDoneKeeps, EditRefusedKeeps, FlagSuccessKeeps
  <2>6. CASE ContextIsGone(t) \/ ForgetContexts(t) \/ LoadContext(t)
    BY <2>6, ContextIsGoneKeeps, StopKeeps
  <2>5. ASSUME NEW result \in {"success", "failure", "exception"}, RuleEnds(t, result) PROVE IInv'
    BY <2>5, RuleEndsKeeps
  <2> QED BY <1>3, <2>1, <2>2, <2>3, <2>4, <2>5, <2>6 DEF ThreadStep
<1> QED BY <1>1, <1>2, <1>3 DEF Next

\* Each step of an engine with any rules, threads and commands keeps what its end needs.
THEOREM StepsAreTold == Spec => []IInv
<1>1. IInv /\ [Next]_vars => IInv'
  BY NextInv, StutterInv
<1> QED BY <1>1, InitInv, PTL DEF Spec

\* The engine's variables keep their types: what has arrived and what the sent model includes
\* are beginnings of the asworker's changelogs (_changelogs, loadModel).
THEOREM TypesKept == Spec => []TypeOK
<1>1. IInv => TypeOK
  BY DEF IInv
<1> QED BY <1>1, StepsAreTold, PTL

\* Nobody waits for a feedback that cannot come, but for a rule that raised an exception, contexts
\* that were changed under a step, and a lock that was left acquired
\* (_doWhenLastStepFeedbackReceived, _step, _stop, _handleChangelogs).
THEOREM FeedbackAlwaysComes == Spec => []FeedbackComes
<1>1. IInv => FeedbackComes
  BY DEF IInv, Told
<1> QED BY <1>1, StepsAreTold, PTL
=============================================================================
