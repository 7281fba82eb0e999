----------------------------- MODULE TrainingProofs -----------------------------
(***************************************************************************)
(* Training runs are safe from their stale trainers, for any number of     *)
(* jobs, workers, attempts and steps: HistoryIsFinal, the output of a      *)
(* SUCCEEDED job, and the lineage of every checkpoint.                     *)
(***************************************************************************)
EXTENDS Training, AttemptHostProofs, FiniteSetTheorems

-----------------------------------------------------------------------------
(* What the trainer reports *)

\* Checkpoints, and the steps they are compared with, are finitely many.
LEMMA CheckpointsFinite ==
    /\ IsFiniteSet(CheckpointSteps)
    /\ \A S \in SUBSET CheckpointSteps :
          /\ IsFiniteSet(S)
          /\ Cardinality(S) \in Nat
          /\ Cardinality(S) <= Cardinality(CheckpointSteps)
<1>1. IsFiniteSet(Steps)
  BY FS_Interval, StepsAreNat DEF Steps
<1>2. CheckpointSteps \subseteq Steps
  BY DEF CheckpointSteps
<1>3. IsFiniteSet(CheckpointSteps)
  BY <1>1, <1>2, FS_Subset
<1> QED
  BY <1>3, FS_Subset, FS_CardinalityType

\* "final" is reported after everything else.
LEMMA FinalIsLast ==
    /\ \A s \in Steps : MetricAt(s) # Last
    /\ \A s \in CheckpointSteps : MetricAt(s) + 1 # Last
    /\ \A s \in CheckpointSteps \cup {0} : ResumeAt(s) \in Nat /\ ResumeAt(s) < Last
<1> DEFINE Before(s) == {c \in CheckpointSteps : c < s}
           Upto(s) == {c \in CheckpointSteps : c <= s}
           All == Cardinality(CheckpointSteps)
<1>1. Before(MaxSteps) = CheckpointSteps
  BY StepsAreNat DEF CheckpointSteps, Steps
<1>2. Last = MaxSteps + All + 1 /\ All \in Nat
  BY <1>1, LastIsFinal, CheckpointsFinite DEF MetricAt
<1>3. \A s \in Steps : Cardinality(Before(s)) \in Nat /\ Cardinality(Before(s)) <= All
  <2> SUFFICES ASSUME NEW s \in Steps
               PROVE  Cardinality(Before(s)) \in Nat /\ Cardinality(Before(s)) <= All
    OBVIOUS
  <2>1. Before(s) \in SUBSET CheckpointSteps
    OBVIOUS
  <2> QED
    BY <2>1, CheckpointsFinite
<1>4. \A s \in Nat : Cardinality(Upto(s)) \in Nat /\ Cardinality(Upto(s)) <= All
  <2> SUFFICES ASSUME NEW s \in Nat
               PROVE  Cardinality(Upto(s)) \in Nat /\ Cardinality(Upto(s)) <= All
    OBVIOUS
  <2>1. Upto(s) \in SUBSET CheckpointSteps
    OBVIOUS
  <2> QED
    BY <2>1, CheckpointsFinite
<1>5. \A s : MetricAt(s) = s + Cardinality(Before(s)) /\ ResumeAt(s) = s + Cardinality(Upto(s))
  BY DEF MetricAt, ResumeAt
<1>6. /\ \A s \in Steps : s \in Nat /\ s <= MaxSteps
      /\ \A s \in CheckpointSteps : s \in Steps /\ s < MaxSteps
      /\ MaxSteps \in Nat \ {0}
  BY StepsAreNat DEF Steps, CheckpointSteps
<1> HIDE DEF Before, Upto, All
<1> QED
  BY <1>2, <1>3, <1>4, <1>5, <1>6

-----------------------------------------------------------------------------
(* The invariant *)

TrainTypeOK ==
    /\ run \subseteq Jobs
    /\ decisions \in [Jobs \X Attempts -> 0..MaxSteps \cup {None}]
    /\ checkpoints \in [Jobs -> SUBSET (Attempts \X CheckpointSteps)]
    /\ metrics \in [Jobs -> SUBSET (Attempts \X Steps)]
    /\ output \in [Jobs -> Attempts \cup {None}]

\* An attempt that has not started has decided nothing.
DecisionsAhead ==
    \A j \in Jobs : \A a \in Attempts : a > attempt[j] => decisions[<<j, a>>] = None

\* Nor has one whose worker has not come to Prepare.
Undecided(w) ==
    /\ Mine(w)
    /\ \/ exec[w].pc = "claimed"
       \/ exec[w].pc \in {"lookup", "prepare"} /\ exec[w].attempt = attempt[exec[w].job]
    => decisions[<<exec[w].job, attempt[exec[w].job]>>] = None

\* While the lease lasts, "final" was taken with its row.
OutputAtLast(w) ==
    exec[w].pc \in {"stream", "close"} /\ exec[w].at = Last /\ Mine(w) /\ Holds(w)
        => output[exec[w].job] = exec[w].attempt

\* The outcome SUCCEEDED comes from such a "final", or was simulated.
ResultHasOutput(w) ==
    exec[w].pc = "finalize" /\ exec[w].result = "SUCCEEDED" /\ Mine(w) /\ Holds(w)
        => \/ decisions[<<exec[w].job, exec[w].attempt>>] = None
           \/ output[exec[w].job] = exec[w].attempt

\* What a subprocess can end with.
ErrorsAtClose(w) ==
    exec[w].pc = "close" => exec[w].result \in {"transient", "permanent", None}

\* A job that succeeded through its worker had an attempt.
SucceededStarted ==
    \A j \in Jobs : status[j] = "SUCCEEDED" /\ PatchTargets = {} => attempt[j] \in Attempts

TrainInv ==
    /\ HostOK
    /\ TrainTypeOK
    /\ DecisionsAhead
    /\ \A w \in Workers : /\ Undecided(w) /\ OutputAtLast(w)
                          /\ ResultHasOutput(w) /\ ErrorsAtClose(w)
    /\ SucceededStarted
    /\ SucceededHasOutput

LEMMA TrainInvInit == Init => TrainInv
<1> SUFFICES ASSUME Init PROVE TrainInv
  OBVIOUS
<1>1. HostOK
  BY HostOKInit DEF Init
<1>2. TrainTypeOK
  BY DEF Init, TrainTypeOK
<1>3. DecisionsAhead
  BY DEF Init, DecisionsAhead
<1>4. \A w \in Workers : exec[w].pc = "idle"
  BY DEF Init, HostInit, ExecIdle
<1>5. SucceededStarted /\ SucceededHasOutput
  BY DEF Init, HostInit, LifeInit, SucceededStarted, SucceededHasOutput, Absent
<1> QED
  BY <1>1, <1>2, <1>3, <1>4, <1>5
  DEF TrainInv, Undecided, OutputAtLast, ResultHasOutput, ErrorsAtClose

-----------------------------------------------------------------------------
(* Steps of the host *)

\* A worker that holds the lease holds it for an attempt that exists.
LEMMA HeldAttempt ==
    ASSUME HostOK, NEW w \in Workers, Mine(w)
    PROVE  /\ exec[w].job \in Jobs /\ attempt[exec[w].job] \in Attempts
           /\ Holds(w) <=> attempt[exec[w].job] = exec[w].attempt
BY NullIsNobody DEF Mine, Holds, HostOK, Attempts

\* The decision of an attempt belongs to the worker that started it.
LEMMA HostUndecided ==
    ASSUME TrainInv, HostStep, UNCHANGED trainVars, NEW w \in Workers
    PROVE  Undecided(w)'
<1> USE DEF TrainInv
<1> SUFFICES ASSUME Mine(w)',
                    \/ exec'[w].pc = "claimed"
                    \/ /\ exec'[w].pc \in {"lookup", "prepare"}
                       /\ exec'[w].attempt = attempt'[exec'[w].job]
             PROVE  decisions[<<exec'[w].job, attempt'[exec'[w].job]>>] = None
  BY DEF Undecided, trainVars
<1>1. CASE exec'[w] = exec[w]
  <2>1. exec[w].pc # "idle"
    BY <1>1
  <2>2. Mine(w) /\ attempt'[exec[w].job] = attempt[exec[w].job]
    BY <1>1, <2>1, MineKept
  <2> QED
    BY <1>1, <2>2 DEF Undecided
<1>2. CASE exec'[w] = ExecIdle
  BY <1>2 DEF ExecIdle
<1>3. ASSUME NEW j \in Jobs, StartAttempt(w, j)
      PROVE  decisions[<<exec'[w].job, attempt'[exec'[w].job]>>] = None
  <2>1. exec'[w].job = j /\ attempt'[j] = attempt[j] + 1 /\ attempt[j] + 1 \in Attempts
        /\ attempt[j] \in Nat
    BY <1>3, StartFrame, MaxAttemptsIsNat DEF Attempts, HostOK, HostTypeOK
  <2>2. decisions[<<j, attempt[j] + 1>>] = None
    BY <2>1 DEF DecisionsAhead
  <2> QED
    BY <2>1, <2>2
<1>4. CASE ReadBack(w)
  <2>1. exec[w].pc = "claimed" /\ exec'[w].job = exec[w].job
    BY <1>4 DEF ReadBack, HostOK, HostTypeOK, ExecState
  <2>2. Mine(w) /\ attempt'[exec[w].job] = attempt[exec[w].job]
    BY <2>1, MineKept
  <2> QED
    BY <2>1, <2>2 DEF Undecided
<1>5. CASE HeartbeatRejected(w)
  <2>1. /\ exec[w].pc # "idle" /\ exec'[w].pc = exec[w].pc
        /\ exec'[w].job = exec[w].job /\ exec'[w].attempt = exec[w].attempt
    BY <1>5 DEF HeartbeatRejected, HostOK, HostTypeOK, ExecState
  <2>2. Mine(w) /\ attempt'[exec[w].job] = attempt[exec[w].job]
    BY <2>1, MineKept
  <2> QED
    BY <2>1, <2>2 DEF Undecided
<1> QED
  BY <1>1, <1>2, <1>3, <1>4, <1>5, HostExecs DEF ExecStep

\* What a worker found is still so while it holds the lease.
LEMMA HostResults ==
    ASSUME TrainInv, HostStep, UNCHANGED trainVars, NEW w \in Workers
    PROVE  OutputAtLast(w)' /\ ResultHasOutput(w)' /\ ErrorsAtClose(w)'
<1> USE DEF TrainInv
<1>1. CASE exec'[w].pc \notin {"stream", "close", "finalize"}
  BY <1>1 DEF OutputAtLast, ResultHasOutput, ErrorsAtClose
<1>2. CASE exec'[w].pc \in {"stream", "close", "finalize"}
  BY <1>2, BusyKept DEF OutputAtLast, ResultHasOutput, ErrorsAtClose, trainVars
<1> QED
  BY <1>1, <1>2

\* finalize_attempt finds the output that the result stands for.
LEMMA HostSucceeded ==
    ASSUME TrainInv, HostStep, UNCHANGED trainVars
    PROVE  SucceededStarted' /\ SucceededHasOutput'
<1> USE DEF TrainInv
<1> SUFFICES ASSUME NEW j \in Jobs, status'[j] = "SUCCEEDED", PatchTargets = {}
             PROVE  /\ attempt'[j] \in Attempts
                    /\ decisions[<<j, attempt'[j]>>] # None => output[j] = attempt'[j]
  BY DEF SucceededStarted, SucceededHasOutput, trainVars
<1>1. JobStep(j)
  BY HostJobs
<1>2. CASE status'[j] = status[j] /\ attempt'[j] = attempt[j]
  BY <1>2 DEF SucceededStarted, SucceededHasOutput
<1>3. ASSUME NEW w \in Workers, StartAttempt(w, j) PROVE FALSE
  BY <1>3, StartFrame
<1>4. ASSUME NEW w \in Workers, exec[w].job = j, exec[w].pc = "finalize",
             exec[w].result = "SUCCEEDED", Holds(w), attempt'[j] = attempt[j]
      PROVE  /\ attempt'[j] \in Attempts
             /\ decisions[<<j, attempt'[j]>>] # None => output[j] = attempt'[j]
  <2>1. Mine(w)
    BY <1>4 DEF Mine, Holds
  <2> QED
    BY <1>4, <2>1, HeldAttempt DEF ResultHasOutput, Holds
<1> QED
  BY <1>1, <1>2, <1>3, <1>4 DEF JobStep

LEMMA HostKeepsTrainInv ==
    ASSUME TrainInv, HostStep, UNCHANGED trainVars
    PROVE  TrainInv'
<1> USE DEF TrainInv
<1>1. HostOK'
  BY HostStepOK
<1>2. TrainTypeOK'
  BY DEF TrainTypeOK, trainVars
<1>3. DecisionsAhead'
  <2> SUFFICES ASSUME NEW j \in Jobs, NEW a \in Attempts, a > attempt'[j]
               PROVE  decisions[<<j, a>>] = None
    BY DEF DecisionsAhead, trainVars
  <2>1. attempt'[j] = attempt[j] \/ attempt'[j] = attempt[j] + 1
    BY HostJobs, StartFrame DEF JobStep
  <2>2. a > attempt[j]
    BY <2>1, MaxAttemptsIsNat DEF HostOK, HostTypeOK, Attempts
  <2> QED
    BY <2>2 DEF DecisionsAhead
<1> QED
  BY <1>1, <1>2, <1>3, HostUndecided, HostResults, HostSucceeded

-----------------------------------------------------------------------------
(* Steps of an executor *)

\* A step of w's executor, which writes for the attempt it holds, if it holds it.
ExecutorFrame(w) ==
    /\ UNCHANGED <<status, attempt, owner>>
    /\ \A x \in Workers \ {w} : exec'[x] = exec[x]
    /\ \A j \in Jobs :
          /\ ~(Mine(w) /\ Holds(w) /\ j = exec[w].job)
                => /\ output'[j] = output[j]
                   /\ \A a \in Attempts : decisions'[<<j, a>>] = decisions[<<j, a>>]
          /\ \A a \in Attempts :
                a # attempt[j] => decisions'[<<j, a>>] = decisions[<<j, a>>]

\* Such a step is of no concern to the other workers, nor to jobs that are over.
LEMMA FrameKeepsOthers ==
    ASSUME TrainInv, NEW w \in Workers, ExecutorFrame(w)
    PROVE  /\ \A x \in Workers \ {w} : /\ Undecided(x)' /\ OutputAtLast(x)'
                                        /\ ResultHasOutput(x)' /\ ErrorsAtClose(x)'
           /\ DecisionsAhead'
           /\ SucceededStarted'
           /\ SucceededHasOutput'
<1> USE DEF TrainInv
<1>1. ASSUME NEW x \in Workers \ {w}
      PROVE  Undecided(x)' /\ OutputAtLast(x)' /\ ResultHasOutput(x)' /\ ErrorsAtClose(x)'
  <2>1. /\ exec'[x] = exec[x] /\ (Mine(x)' <=> Mine(x)) /\ (Holds(x)' <=> Holds(x))
        /\ UNCHANGED attempt
    BY DEF ExecutorFrame, Mine, Holds
  <2>2. ASSUME Mine(x)
        PROVE  /\ output'[exec[x].job] = output[exec[x].job]
               /\ attempt[exec[x].job] \in Attempts
               /\ \A a \in Attempts :
                     decisions'[<<exec[x].job, a>>] = decisions[<<exec[x].job, a>>]
    <3>1. exec[x].job \in Jobs /\ attempt[exec[x].job] \in Attempts
      BY <2>2, HeldAttempt
    <3>2. ~(Mine(w) /\ exec[x].job = exec[w].job)
      BY <2>2 DEF Mine
    <3> QED
      BY <3>1, <3>2 DEF ExecutorFrame
  <2>3. Undecided(x)'
    BY <2>1, <2>2 DEF Undecided
  <2>4. OutputAtLast(x)' /\ ErrorsAtClose(x)'
    BY <2>1, <2>2 DEF OutputAtLast, ErrorsAtClose
  <2>5. ResultHasOutput(x)'
    <3> SUFFICES ASSUME exec[x].pc = "finalize", exec[x].result = "SUCCEEDED",
                        Mine(x), Holds(x)
                 PROVE  \/ decisions'[<<exec[x].job, exec[x].attempt>>] = None
                        \/ output'[exec[x].job] = exec[x].attempt
      BY <2>1 DEF ResultHasOutput
    <3>1. exec[x].attempt = attempt[exec[x].job]
      BY HeldAttempt
    <3> QED
      BY <2>2, <3>1 DEF ResultHasOutput
  <2> QED
    BY <2>3, <2>4, <2>5
<1>2. DecisionsAhead'
  <2> SUFFICES ASSUME NEW j \in Jobs, NEW a \in Attempts, a > attempt[j]
               PROVE  decisions'[<<j, a>>] = None
    BY DEF DecisionsAhead, ExecutorFrame
  <2>1. a # attempt[j]
    BY MaxAttemptsIsNat DEF HostOK, HostTypeOK, Attempts
  <2> QED
    BY <2>1 DEF DecisionsAhead, ExecutorFrame
<1>3. SucceededHasOutput'
  <2> SUFFICES ASSUME NEW j \in Jobs, status[j] = "SUCCEEDED", PatchTargets = {},
                      decisions'[<<j, attempt[j]>>] # None
               PROVE  output'[j] = attempt[j]
    BY DEF SucceededHasOutput, ExecutorFrame
  <2>1. output'[j] = output[j]
        /\ \A a \in Attempts : decisions'[<<j, a>>] = decisions[<<j, a>>]
    BY DEF ExecutorFrame, Mine
  <2>2. attempt[j] \in Attempts
    BY DEF SucceededStarted
  <2> QED
    BY <2>1, <2>2 DEF SucceededHasOutput
<1>4. SucceededStarted'
  BY DEF SucceededStarted, ExecutorFrame
<1> QED
  BY <1>1, <1>2, <1>3, <1>4

\* What is left to show of a step of w's executor.
LEMMA FrameKeepsTrainInv ==
    ASSUME TrainInv, NEW w \in Workers, ExecutorFrame(w),
           NEW e \in ExecState, exec' = [exec EXCEPT ![w] = e],
           e.pc # "idle" => e.job \in Jobs,
           e.pc \in {"claimed", "lookup", "prepare"} => e.at = 0,
           TrainTypeOK', Undecided(w)', OutputAtLast(w)', ResultHasOutput(w)', ErrorsAtClose(w)'
    PROVE  TrainInv'
<1>1. HostOK'
  BY ExecutorOK DEF TrainInv, ExecutorFrame
<1>2. \A x \in Workers : /\ Undecided(x)' /\ OutputAtLast(x)'
                        /\ ResultHasOutput(x)' /\ ErrorsAtClose(x)'
  BY FrameKeepsOthers
<1> QED
  BY <1>1, <1>2, FrameKeepsOthers DEF TrainInv

\* An executor that gives up.
LEMMA IdleKeepsTrainInv ==
    ASSUME TrainInv, NEW w \in Workers, UNCHANGED <<status, attempt, owner, trainVars>>,
           exec' = [exec EXCEPT ![w] = ExecIdle]
    PROVE  TrainInv'
<1>1. ExecIdle \in ExecState /\ ExecIdle.pc = "idle"
  BY MaxAttemptsIsNat, LastIsNat DEF ExecIdle, ExecState
<1>2. exec'[w] = ExecIdle /\ ExecutorFrame(w)
  BY DEF TrainInv, HostOK, HostTypeOK, ExecutorFrame, trainVars
<1>3. TrainTypeOK'
  BY DEF TrainInv, TrainTypeOK, trainVars
<1>4. Undecided(w)' /\ OutputAtLast(w)' /\ ResultHasOutput(w)' /\ ErrorsAtClose(w)'
  BY <1>1, <1>2 DEF Undecided, OutputAtLast, ResultHasOutput, ErrorsAtClose
<1> QED
  BY <1>1, <1>2, <1>3, <1>4, FrameKeepsTrainInv

\* An attempt whose execution is simulated has decided nothing.
LEMMA LookupKeepsTrainInv ==
    ASSUME TrainInv, NEW w \in Workers, Lookup(w)
    PROVE  TrainInv'
<1> USE DEF TrainInv
<1>1. /\ exec[w] \in ExecState /\ exec[w].pc = "lookup" /\ exec[w].at = 0
      /\ exec[w].job \in Jobs
      /\ UNCHANGED <<status, attempt, owner, trainVars>>
  BY DEF Lookup, Simulate, HostOK, HostTypeOK
<1>2. PICK e \in ExecState :
         /\ exec' = [exec EXCEPT ![w] = e]
         /\ e.job = exec[w].job /\ e.attempt = exec[w].attempt /\ e.at = 0
         /\ e.pc \in {"prepare", "finalize"}
  <2>1. CASE GoOn(w, "prepare")
    <3>1. [exec[w] EXCEPT !.pc = "prepare"] \in ExecState
      BY <1>1 DEF ExecState
    <3> QED
      BY <1>1, <2>1, <3>1 DEF GoOn, ExecState
  <2>2. ASSUME NEW r \in Results, Outcome(w, r)
        PROVE \E e \in ExecState :
                 /\ exec' = [exec EXCEPT ![w] = e]
                 /\ e.job = exec[w].job /\ e.attempt = exec[w].attempt /\ e.at = 0
                 /\ e.pc \in {"prepare", "finalize"}
    <3> DEFINE e == [exec[w] EXCEPT !.pc = "finalize", !.result = r]
    <3>1. e \in ExecState /\ e.job = exec[w].job /\ e.attempt = exec[w].attempt /\ e.at = 0
          /\ e.pc = "finalize"
      BY <1>1 DEF ExecState
    <3>2. exec' = [exec EXCEPT ![w] = e]
      BY <2>2 DEF Outcome
    <3> QED
      BY <3>1, <3>2
  <2> QED
    BY <2>1, <2>2 DEF Lookup, Simulate
<1>3. exec'[w] = e
  BY <1>2 DEF HostOK, HostTypeOK
<1>4. ExecutorFrame(w)
  BY <1>1, <1>2 DEF ExecutorFrame, HostOK, HostTypeOK, trainVars
<1>5. TrainTypeOK'
  BY <1>1 DEF TrainTypeOK, trainVars
<1>6. (Mine(w)' <=> Mine(w)) /\ (Holds(w)' <=> Holds(w))
  BY <1>1, <1>2, <1>3 DEF Mine, Holds
<1>7. Undecided(w)'
  BY <1>1, <1>2, <1>3, <1>6 DEF Undecided, trainVars
<1>8. OutputAtLast(w)' /\ ErrorsAtClose(w)'
  BY <1>2, <1>3 DEF OutputAtLast, ErrorsAtClose
<1>9. ResultHasOutput(w)'
  <2>1. ASSUME Mine(w), Holds(w) PROVE decisions[<<exec[w].job, exec[w].attempt>>] = None
    BY <1>1, <2>1, HeldAttempt DEF Undecided
  <2> QED
    BY <1>1, <1>2, <1>3, <1>6, <2>1 DEF ResultHasOutput, trainVars
<1> QED
  BY <1>1, <1>2, <1>4, <1>5, <1>7, <1>8, <1>9, FrameKeepsTrainInv

\* A resumed trainer has still "final" to report.
LEMMA PrepareKeepsTrainInv ==
    ASSUME TrainInv, NEW w \in Workers, Prepare(w)
    PROVE  TrainInv'
<1> USE DEF TrainInv
<1> DEFINE j == exec[w].job
<1>1. /\ exec[w] \in ExecState /\ exec[w].pc = "prepare" /\ j \in Jobs
      /\ UNCHANGED <<status, attempt, owner, run, checkpoints, metrics, output>>
  BY DEF Prepare, HostOK, HostTypeOK
<1>2. PICK step \in UNION {find_resume_checkpoint(j, R) : R \in SUBSET checkpoints[j]} :
         /\ decisions' = IF Holds(w)
                         THEN [decisions EXCEPT ![<<j, exec[w].attempt>>] = ResumedFrom(step)]
                         ELSE decisions
         /\ exec' = [exec EXCEPT ![w] = [@ EXCEPT !.pc = "stream", !.at = ResumeAt(step)]]
  BY DEF Prepare, RecordDecision
<1>3. step \in CheckpointSteps \cup {0}
  BY <1>1 DEF find_resume_checkpoint, TrainTypeOK
<1>4. ResumeAt(step) \in 0..Last /\ ResumeAt(step) # Last
  BY <1>3, FinalIsLast, LastIsNat
<1> DEFINE e == [exec[w] EXCEPT !.pc = "stream", !.at = ResumeAt(step)]
<1>5. e \in ExecState /\ e.pc = "stream" /\ e.job = j /\ e.at # Last
  BY <1>1, <1>4 DEF ExecState
<1>6. exec' = [exec EXCEPT ![w] = e] /\ exec'[w] = e
  BY <1>2 DEF HostOK, HostTypeOK
<1> HIDE DEF e
<1>7. ASSUME Holds(w)
      PROVE  Mine(w) /\ exec[w].attempt \in Attempts /\ exec[w].attempt = attempt[j]
  BY <1>1, <1>7, HeldAttempt DEF Holds, Mine
<1>8. TrainTypeOK'
  <2>1. ResumedFrom(step) \in 0..MaxSteps
    BY <1>3, StepsAreNat DEF ResumedFrom, CheckpointSteps, Steps
  <2> QED
    BY <1>1, <1>2, <1>7, <2>1 DEF TrainTypeOK
<1>9. ExecutorFrame(w)
  BY <1>1, <1>2, <1>6, <1>7 DEF ExecutorFrame, HostOK, HostTypeOK, TrainTypeOK
<1>10. Undecided(w)' /\ OutputAtLast(w)' /\ ResultHasOutput(w)' /\ ErrorsAtClose(w)'
  BY <1>5, <1>6 DEF Undecided, OutputAtLast, ResultHasOutput, ErrorsAtClose
<1> QED
  BY <1>1, <1>5, <1>6, <1>8, <1>9, <1>10, FrameKeepsTrainInv

\* The report handled last while the lease lasts is "final", with its row.
LEMMA EventKeepsTrainInv ==
    ASSUME TrainInv, NEW w \in Workers, Event(w)
    PROVE  TrainInv'
<1> USE DEF TrainInv
<1> DEFINE j == exec[w].job
           i == exec[w].at + 1
           e == [exec[w] EXCEPT !.at = i]
<1>1. /\ exec[w] \in ExecState /\ exec[w].pc = "stream" /\ j \in Jobs
      /\ i \in 0..Last /\ HandleEvent(w, i)
      /\ UNCHANGED <<status, attempt, owner, run, decisions>>
  BY LastIsNat DEF Event, NextEvent, HostOK, HostTypeOK, ExecState
<1>2. e \in ExecState /\ e.pc = "stream" /\ e.job = j /\ e.at = i
      /\ e.attempt = exec[w].attempt
  BY <1>1 DEF ExecState
<1>3. exec' = [exec EXCEPT ![w] = e] /\ exec'[w] = e
  BY DEF Event, NextEvent, HostOK, HostTypeOK
<1> HIDE DEF e
<1>4. ASSUME Holds(w) PROVE Mine(w) /\ exec[w].attempt \in Attempts
  BY <1>1, <1>4, HeldAttempt DEF Holds, Mine
<1>5. TrainTypeOK'
  <2>1. ASSUME NEW s \in Steps
        PROVE  Inserted(metrics, w, s) \in [Jobs -> SUBSET (Attempts \X Steps)]
    BY <1>1, <1>4 DEF Inserted, TrainTypeOK
  <2>2. ASSUME NEW s \in CheckpointSteps
        PROVE  Inserted(checkpoints, w, s) \in [Jobs -> SUBSET (Attempts \X CheckpointSteps)]
    BY <1>1, <1>4 DEF Inserted, TrainTypeOK
  <2> QED
    BY <1>1, <1>4, <2>1, <2>2
    DEF HandleEvent, RecordMetric, RegisterCheckpoint, RegisterOutput, TrainTypeOK
<1>6. ExecutorFrame(w)
  BY <1>1, <1>3, <1>4
  DEF HandleEvent, RecordMetric, RegisterCheckpoint, RegisterOutput, ExecutorFrame,
      HostOK, HostTypeOK, TrainTypeOK
<1>7. OutputAtLast(w)'
  <2> SUFFICES ASSUME i = Last, Holds(w) PROVE output'[j] = exec[w].attempt
    BY <1>1, <1>2, <1>3 DEF OutputAtLast, Holds
  <2>1. output' = [output EXCEPT ![j] = exec[w].attempt]
    BY <1>1, FinalIsLast DEF HandleEvent, RecordMetric, RegisterCheckpoint, RegisterOutput
  <2> QED
    BY <1>1, <2>1 DEF TrainTypeOK
<1>8. Undecided(w)' /\ ResultHasOutput(w)' /\ ErrorsAtClose(w)'
  BY <1>2, <1>3 DEF Undecided, ResultHasOutput, ErrorsAtClose
<1> QED
  BY <1>1, <1>2, <1>3, <1>5, <1>6, <1>7, <1>8, FrameKeepsTrainInv

\* The subprocess ends, however it does.
LEMMA StreamKeepsTrainInv ==
    ASSUME TrainInv, NEW w \in Workers, StreamEnds(w), UNCHANGED <<status, attempt, owner>>,
           UNCHANGED trainVars
    PROVE  TrainInv'
<1> USE DEF TrainInv
<1>1. exec[w] \in ExecState /\ exec[w].pc = "stream" /\ exec[w].job \in Jobs
  BY DEF StreamEnds, HostOK, HostTypeOK
<1>2. PICK r \in {"transient", "permanent", None} :
         exec' = [exec EXCEPT ![w] = [@ EXCEPT !.pc = "close", !.result = r]]
  BY DEF StreamEnds
<1> DEFINE e == [exec[w] EXCEPT !.pc = "close", !.result = r]
<1>3. /\ e \in ExecState /\ e.pc = "close" /\ e.job = exec[w].job /\ e.at = exec[w].at
      /\ e.attempt = exec[w].attempt /\ e.result = r
  BY <1>1 DEF ExecState, Results
<1>4. exec' = [exec EXCEPT ![w] = e] /\ exec'[w] = e
  BY <1>2 DEF HostOK, HostTypeOK
<1> HIDE DEF e
<1>5. ExecutorFrame(w) /\ TrainTypeOK'
  BY <1>4 DEF ExecutorFrame, HostOK, HostTypeOK, TrainTypeOK, trainVars
<1>6. Undecided(w)' /\ OutputAtLast(w)' /\ ResultHasOutput(w)' /\ ErrorsAtClose(w)'
  BY <1>1, <1>3, <1>4
  DEF Undecided, OutputAtLast, ResultHasOutput, ErrorsAtClose, Mine, Holds, trainVars
<1> QED
  BY <1>1, <1>3, <1>4, <1>5, <1>6, FrameKeepsTrainInv

\* The executor's outcome is SUCCEEDED only after "final".
LEMMA CloseKeepsTrainInv ==
    ASSUME TrainInv, NEW w \in Workers, Close(w)
    PROVE  TrainInv'
<1> USE DEF TrainInv
<1> DEFINE r == IF ProducedFinal(w) THEN "SUCCEEDED"
                ELSE IF exec[w].result = None THEN "unknown" ELSE exec[w].result
           e == [exec[w] EXCEPT !.pc = "finalize", !.result = r]
<1>1. /\ exec[w] \in ExecState /\ exec[w].pc = "close" /\ exec[w].job \in Jobs
      /\ UNCHANGED <<status, attempt, owner, trainVars>>
  BY DEF Close, HostOK, HostTypeOK
<1>2. r \in Results /\ (r = "SUCCEEDED" => exec[w].at = Last)
  BY <1>1 DEF ErrorsAtClose, Results, ProducedFinal
<1>3. exec' = [exec EXCEPT ![w] = e]
  BY DEF Close, Outcome
<1> HIDE DEF r
<1>4. /\ e \in ExecState /\ e.pc = "finalize" /\ e.job = exec[w].job
      /\ e.attempt = exec[w].attempt /\ e.result = r
  BY <1>1, <1>2 DEF ExecState
<1>5. exec'[w] = e
  BY <1>3 DEF HostOK, HostTypeOK
<1> HIDE DEF e
<1>6. ExecutorFrame(w) /\ TrainTypeOK'
  BY <1>1, <1>3 DEF ExecutorFrame, HostOK, HostTypeOK, TrainTypeOK, trainVars
<1>7. ResultHasOutput(w)'
  BY <1>1, <1>2, <1>4, <1>5 DEF ResultHasOutput, OutputAtLast, Mine, Holds, trainVars
<1>8. Undecided(w)' /\ OutputAtLast(w)' /\ ErrorsAtClose(w)'
  BY <1>4, <1>5 DEF Undecided, OutputAtLast, ErrorsAtClose
<1> QED
  BY <1>1, <1>3, <1>4, <1>6, <1>7, <1>8, FrameKeepsTrainInv

-----------------------------------------------------------------------------
(* The theorems *)

LEMMA TrainInvStep == TrainInv /\ [Next]_vars => TrainInv'
<1> SUFFICES ASSUME TrainInv, [Next]_vars PROVE TrainInv'
  OBVIOUS
<1>1. CASE UNCHANGED vars
  BY <1>1 DEF vars, hostVars, trainVars, TrainInv, HostOK, HostTypeOK, TrainTypeOK,
              DecisionsAhead, Undecided, OutputAtLast, ResultHasOutput, ErrorsAtClose,
              SucceededStarted, SucceededHasOutput, Mine, Holds
<1>2. CASE HostStep /\ UNCHANGED trainVars
  BY <1>2, HostKeepsTrainInv
<1>3. ASSUME NEW j \in Jobs, CreateRun(j) PROVE TrainInv'
  BY <1>3 DEF CreateRun, hostVars, TrainInv, HostOK, HostTypeOK, TrainTypeOK,
              DecisionsAhead, Undecided, OutputAtLast, ResultHasOutput, ErrorsAtClose,
              SucceededStarted, SucceededHasOutput, Mine, Holds
<1>4. ASSUME NEW w \in Workers, OutputRejected(w) PROVE TrainInv'
  BY <1>4, IdleKeepsTrainInv DEF OutputRejected
<1>5. ASSUME NEW w \in Workers, StreamStep(w), UNCHANGED trainVars PROVE TrainInv'
  <2>1. CASE StreamEnds(w)
    BY <1>5, <2>1, StreamKeepsTrainInv DEF StreamStep
  <2>2. CASE FencedOut(w)
    BY <1>5, <2>2, IdleKeepsTrainInv DEF StreamStep, FencedOut
  <2> QED
    BY <1>5, <2>1, <2>2 DEF StreamStep
<1> QED
  BY <1>1, <1>2, <1>3, <1>4, <1>5, LookupKeepsTrainInv, PrepareKeepsTrainInv,
     EventKeepsTrainInv, CloseKeepsTrainInv
  DEF Next

\* No trainer, stale or not, writes for a job that is over, and none replaces the output.
LEMMA StepKeepsHistory ==
    ASSUME TrainInv, [Next]_vars, NEW j \in Jobs
    PROVE  /\ output[j] # None => output'[j] = output[j]
           /\ status[j] \in Terminal => /\ checkpoints'[j] = checkpoints[j]
                                        /\ metrics'[j] = metrics[j]
                                        /\ output'[j] = output[j]
<1> DEFINE Same == UNCHANGED <<checkpoints, metrics, output>>
<1>1. ASSUME NEW w \in Workers, Event(w), j = exec[w].job, Holds(w)
      PROVE  status[j] \notin Terminal /\ (output[j] # None => output'[j] = output[j])
  <2>1. status[j] \notin Terminal
    BY <1>1, HostSources DEF Holds
  <2>2. CASE exec[w].at + 1 = Last
    BY <1>1, <2>1, <2>2 DEF Event, OutputConflict
  <2>3. CASE exec[w].at + 1 # Last
    BY <1>1, <2>1, <2>3
    DEF Event, HandleEvent, RecordMetric, RegisterCheckpoint, RegisterOutput
  <2> QED
    BY <2>1, <2>2, <2>3
<1>2. ASSUME NEW w \in Workers, Event(w), j # exec[w].job \/ ~Holds(w)
      PROVE  /\ checkpoints'[j] = checkpoints[j] /\ metrics'[j] = metrics[j]
             /\ output'[j] = output[j]
  BY <1>2
  DEF Event, HandleEvent, RecordMetric, RegisterCheckpoint, RegisterOutput, Inserted,
      TrainInv, TrainTypeOK
<1>3. \/ Same
      \/ \E w \in Workers : Event(w)
  BY DEF Next, vars, trainVars, CreateRun, Lookup, Prepare, OutputRejected, Close
<1> QED
  BY <1>1, <1>2, <1>3

LEMMA SpecKeepsTrainInv == Spec => []TrainInv
BY TrainInvInit, TrainInvStep, PTL DEF Spec

\* A job SUCCEEDED through a trainer has the output of its last attempt: the insert that
\* the executor does not look at matched, because whoever holds the lease when the
\* result is finalized has held it since the attempt started.
THEOREM SucceededThroughOutput == Spec => []SucceededHasOutput
<1>1. TrainInv => SucceededHasOutput
  BY DEF TrainInv
<1> QED
  BY <1>1, SpecKeepsTrainInv, PTL

\* The output is written once, and what a job that is over left behind stays as it is.
THEOREM HistoryStays == Spec => HistoryIsFinal
<1>1. ASSUME TrainInv, [Next]_vars
      PROVE  [\A j \in Jobs :
                /\ output[j] # None => output'[j] = output[j]
                /\ status[j] \in Terminal =>
                      /\ checkpoints'[j] = checkpoints[j]
                      /\ metrics'[j] = metrics[j]
                      /\ output'[j] = output[j]]_vars
  BY <1>1, StepKeepsHistory
<1> QED
  BY <1>1, SpecKeepsTrainInv, PTL DEF Spec, HistoryIsFinal

-----------------------------------------------------------------------------
(* Lineage *)

\* Positions of the reports: in the order of the steps, and a checkpoint right after the
\* metric of its step.
LEMMA Positions ==
    /\ \A s \in Nat : ResumeAt(s) \in Nat
    /\ \A s, t \in Nat : s < t => ResumeAt(s) < ResumeAt(t)
    /\ \A s \in Steps : s - 1 \in Nat /\ MetricAt(s) = ResumeAt(s - 1) + 1
    /\ \A c \in CheckpointSteps : ResumeAt(c) = MetricAt(c) + 1
<1> DEFINE Before(s) == {c \in CheckpointSteps : c < s}
           Upto(s) == {c \in CheckpointSteps : c <= s}
<1>1. \A s : MetricAt(s) = s + Cardinality(Before(s)) /\ ResumeAt(s) = s + Cardinality(Upto(s))
  BY DEF MetricAt, ResumeAt
<1>2. /\ \A s \in Steps : s \in Nat /\ s - 1 \in Nat
      /\ CheckpointSteps \subseteq Steps
  BY StepsAreNat DEF Steps, CheckpointSteps
<1>3. \A s : /\ IsFiniteSet(Upto(s)) /\ Cardinality(Upto(s)) \in Nat
             /\ IsFiniteSet(Before(s)) /\ Cardinality(Before(s)) \in Nat
  <2> SUFFICES ASSUME NEW s
               PROVE  /\ IsFiniteSet(Upto(s)) /\ Cardinality(Upto(s)) \in Nat
                      /\ IsFiniteSet(Before(s)) /\ Cardinality(Before(s)) \in Nat
    OBVIOUS
  <2>1. Upto(s) \in SUBSET CheckpointSteps /\ Before(s) \in SUBSET CheckpointSteps
    OBVIOUS
  <2> QED
    BY <2>1, CheckpointsFinite
<1>4. \A s, t \in Nat : s < t => Cardinality(Upto(s)) <= Cardinality(Upto(t))
  <2> SUFFICES ASSUME NEW s \in Nat, NEW t \in Nat, s < t
               PROVE  Cardinality(Upto(s)) <= Cardinality(Upto(t))
    OBVIOUS
  <2>1. Upto(s) \subseteq Upto(t)
    BY <1>2
  <2> QED
    BY <1>3, <2>1, FS_Subset
<1>5. \A s \in Steps : Before(s) = Upto(s - 1)
  BY <1>2
<1>6. \A c \in CheckpointSteps : Cardinality(Upto(c)) = Cardinality(Before(c)) + 1
  <2> SUFFICES ASSUME NEW c \in CheckpointSteps
               PROVE  Cardinality(Upto(c)) = Cardinality(Before(c)) + 1
    OBVIOUS
  <2>1. Upto(c) = Before(c) \cup {c} /\ c \notin Before(c)
    BY <1>2
  <2> QED
    BY <1>3, <2>1, FS_AddElement
<1> HIDE DEF Before, Upto
<1> QED
  BY <1>1, <1>2, <1>3, <1>4, <1>5, <1>6

\* What follows for the trainer that resumes from step from and is at the metric of s, or
\* at its checkpoint.
LEMMA PositionsApart ==
    ASSUME NEW from \in CheckpointSteps \cup {0}, NEW s \in Steps, NEW t \in Steps
    PROVE  /\ MetricAt(s) \in Nat /\ ResumeAt(from) \in Nat
           /\ MetricAt(t) = MetricAt(s) => t = s
           /\ t <= s => MetricAt(t) <= MetricAt(s)
           /\ MetricAt(t) <= ResumeAt(from) => t <= from
           /\ s \in CheckpointSteps => /\ MetricAt(t) # MetricAt(s) + 1
                                       /\ ResumeAt(from) <= MetricAt(s) => from < s
<1>1. /\ from \in Nat /\ s \in Nat /\ t \in Nat /\ s - 1 \in Nat /\ t - 1 \in Nat
      /\ CheckpointSteps \subseteq Steps
  BY Positions, StepsAreNat DEF Steps, CheckpointSteps
<1>2. /\ ResumeAt(from) \in Nat /\ ResumeAt(s) \in Nat /\ ResumeAt(s - 1) \in Nat
      /\ ResumeAt(t - 1) \in Nat
      /\ MetricAt(s) = ResumeAt(s - 1) + 1 /\ MetricAt(t) = ResumeAt(t - 1) + 1
  BY <1>1, Positions
<1>3. /\ t - 1 < s - 1 => ResumeAt(t - 1) < ResumeAt(s - 1)
      /\ s - 1 < t - 1 => ResumeAt(s - 1) < ResumeAt(t - 1)
      /\ from < t - 1 => ResumeAt(from) < ResumeAt(t - 1)
      /\ s < t - 1 => ResumeAt(s) < ResumeAt(t - 1)
      /\ s < from => ResumeAt(s) < ResumeAt(from)
  BY <1>1, Positions
<1>4. s \in CheckpointSteps => ResumeAt(s) = MetricAt(s) + 1
  BY Positions
<1>5. /\ t - 1 = s - 1 => t = s
      /\ t - 1 = s => ResumeAt(t - 1) = ResumeAt(s)
      /\ t - 1 = from => ResumeAt(t - 1) = ResumeAt(from)
      /\ from = s => ResumeAt(from) = ResumeAt(s)
      /\ t = s => ResumeAt(t - 1) = ResumeAt(s - 1)
  BY <1>1
<1> QED
  BY <1>1, <1>2, <1>3, <1>4, <1>5

\* What an attempt that holds its lease has recorded so far: it resumed from a step that
\* an earlier attempt left, and its metrics since are there.
Recorded(j, a, at) ==
    LET from == decisions[<<j, a>>] IN
    /\ from \in CheckpointSteps \cup {0}
    /\ ResumeAt(from) <= at
    /\ from > 0 => \E b \in 1..(a - 1) : <<b, from>> \in checkpoints[j]
    /\ \A t \in Steps : from < t /\ MetricAt(t) <= at => <<a, t>> \in metrics[j]

HeldLineage(w) ==
    exec[w].pc = "stream" /\ Mine(w) /\ Holds(w)
        => Recorded(exec[w].job, exec[w].attempt, exec[w].at)

LineageInv ==
    /\ LineageIsComplete
    /\ \A w \in Workers : HeldLineage(w)

\* Rows are only added, and a decision stands: what was recorded is recorded.
LEMMA RecordedStays ==
    ASSUME NEW j, NEW a, decisions'[<<j, a>>] = decisions[<<j, a>>],
           checkpoints[j] \subseteq checkpoints'[j], metrics[j] \subseteq metrics'[j]
    PROVE  /\ \A s : Descends(j, a, s) => Descends(j, a, s)'
           /\ \A at : Recorded(j, a, at) => Recorded(j, a, at)'
BY DEF Descends, Recorded

\* A step that leaves the rows alone, and in which no worker begins to stream.
LEMMA QuietKeepsLineage ==
    ASSUME LineageInv, UNCHANGED <<decisions, checkpoints, metrics, output>>,
           \A w \in Workers : exec'[w].pc = "stream" /\ Mine(w)' /\ Holds(w)' =>
              /\ exec[w].pc = "stream" /\ Mine(w) /\ Holds(w)
              /\ exec'[w].job = exec[w].job /\ exec'[w].attempt = exec[w].attempt
              /\ exec'[w].at = exec[w].at
    PROVE  LineageInv'
<1>1. LineageIsComplete'
  BY DEF LineageInv, LineageIsComplete, Descends
<1>2. ASSUME NEW w \in Workers PROVE HeldLineage(w)'
  BY DEF LineageInv, HeldLineage, Recorded
<1> QED
  BY <1>1, <1>2 DEF LineageInv

\* Attempts that left a checkpoint or the output have decided, and are not ahead.
LEMMA Decided ==
    ASSUME TrainInv, LineageInv, NEW j \in Jobs
    PROVE  /\ \A c \in checkpoints[j] :
                 /\ c[1] \in Attempts /\ c[1] <= attempt[j] /\ c[2] \in CheckpointSteps
                 /\ c = <<c[1], c[2]>>
                 /\ decisions[<<j, c[1]>>] # None
           /\ output[j] # None => decisions[<<j, output[j]>>] # None
<1>1. ASSUME NEW c \in checkpoints[j]
      PROVE  /\ c[1] \in Attempts /\ c[2] \in CheckpointSteps /\ c = <<c[1], c[2]>>
             /\ decisions[<<j, c[1]>>] # None
  <2>1. c \in Attempts \X CheckpointSteps
    BY DEF TrainInv, TrainTypeOK
  <2>2. Descends(j, c[1], c[2])
    BY DEF LineageInv, LineageIsComplete
  <2> QED
    BY <2>1, <2>2 DEF Descends
<1>2. ASSUME NEW c \in checkpoints[j] PROVE c[1] <= attempt[j]
  <2>1. PICK a \in Attempts : a = c[1]
    BY <1>1
  <2>2. a \in Int /\ attempt[j] \in Int
    BY MaxAttemptsIsNat DEF Attempts, TrainInv, HostOK, HostTypeOK
  <2>3. ~(a > attempt[j])
    BY <1>1, <2>1 DEF TrainInv, DecisionsAhead
  <2> QED
    BY <2>1, <2>2, <2>3
<1> QED
  BY <1>1, <1>2 DEF LineageInv, LineageIsComplete, Descends

\* The candidate that Prepare finds was left by an earlier attempt, since its own attempt
\* has decided nothing yet.
LEMMA PrepareKeepsLineage ==
    ASSUME TrainInv, TrainInv', LineageInv, NEW w \in Workers, Prepare(w)
    PROVE  LineageInv'
<1>j. PICK j \in Jobs : j = exec[w].job
  BY DEF Prepare, TrainInv, HostOK
<1>a. PICK a : a = exec[w].attempt
  OBVIOUS
<1>1. /\ exec[w] \in ExecState /\ exec[w].pc = "prepare" /\ exec[w].at = 0
      /\ UNCHANGED <<status, attempt, owner, run, checkpoints, metrics, output>>
  BY DEF Prepare, TrainInv, HostOK, HostTypeOK
<1>2. PICK R \in SUBSET checkpoints[j] : \E step \in find_resume_checkpoint(j, R) :
         /\ RecordDecision(w, step)
         /\ exec' = [exec EXCEPT ![w] = [@ EXCEPT !.pc = "stream", !.at = ResumeAt(step)]]
  BY <1>j DEF Prepare
<1>3. PICK step \in find_resume_checkpoint(j, R) :
         /\ RecordDecision(w, step)
         /\ exec' = [exec EXCEPT ![w] = [@ EXCEPT !.pc = "stream", !.at = ResumeAt(step)]]
  BY <1>2
<1>4. step = 0 \/ \E c \in checkpoints[j] : c[2] = step
  BY <1>3 DEF find_resume_checkpoint
<1>5. step \in CheckpointSteps \cup {0}
  BY <1>1, <1>4, Decided
<1>6. /\ exec'[w].pc = "stream" /\ exec'[w].job = j /\ exec'[w].attempt = a
      /\ exec'[w].at = ResumeAt(step)
      /\ \A x \in Workers \ {w} : exec'[x] = exec[x]
  <2> DEFINE e == [exec[w] EXCEPT !.pc = "stream", !.at = ResumeAt(step)]
  <2>1. e.pc = "stream" /\ e.job = j /\ e.attempt = a /\ e.at = ResumeAt(step)
    BY <1>j, <1>a, <1>1 DEF ExecState
  <2>2. exec' = [exec EXCEPT ![w] = e]
    BY <1>3
  <2> HIDE DEF e
  <2> QED
    BY <2>1, <2>2 DEF TrainInv, HostOK, HostTypeOK
<1>7. \A x \in Workers \ {w} : (Mine(x)' <=> Mine(x)) /\ (Holds(x)' <=> Holds(x))
  BY <1>1, <1>6 DEF Mine, Holds
<1>8. CASE ~Holds(w)
  <2>1. UNCHANGED decisions /\ ~Holds(w)'
    BY <1>1, <1>3, <1>6, <1>8 DEF RecordDecision, Holds
  <2> QED
    BY <1>1, <1>6, <1>7, <2>1, QuietKeepsLineage
<1>9. CASE Holds(w)
  <2>1. Mine(w) /\ a \in Attempts /\ a = attempt[j]
    BY <1>j, <1>a, <1>9, HeldAttempt DEF Holds, Mine, TrainInv
  <2>2. decisions[<<j, a>>] = None
    BY <1>j, <1>a, <1>1, <2>1 DEF TrainInv, Undecided
  <2>3. decisions' = [decisions EXCEPT ![<<j, a>>] = step]
    BY <1>j, <1>a, <1>3, <1>9 DEF RecordDecision, ResumedFrom
  <2>4. /\ decisions'[<<j, a>>] = step
        /\ \A i \in Jobs : \A b \in Attempts :
              i # j \/ b # a => decisions'[<<i, b>>] = decisions[<<i, b>>]
    BY <1>1, <2>1, <2>3 DEF TrainInv, TrainTypeOK
  <2>5. LineageIsComplete'
    <3>1. ASSUME NEW i \in Jobs, NEW c \in checkpoints[i] PROVE Descends(i, c[1], c[2])'
      <4>1. c[1] \in Attempts /\ Descends(i, c[1], c[2]) /\ decisions[<<i, c[1]>>] # None
        BY <3>1, Decided DEF LineageInv, LineageIsComplete
      <4>2. decisions'[<<i, c[1]>>] = decisions[<<i, c[1]>>]
        BY <2>2, <2>4, <4>1
      <4> QED
        BY <1>1, <4>1, <4>2, RecordedStays
    <3>2. ASSUME NEW i \in Jobs, output[i] # None PROVE Descends(i, output[i], MaxSteps)'
      <4>1. PICK b \in Attempts : b = output[i]
        BY <3>2 DEF TrainInv, TrainTypeOK
      <4>2. Descends(i, b, MaxSteps) /\ decisions[<<i, b>>] # None
        BY <3>2, <4>1, Decided DEF LineageInv, LineageIsComplete
      <4>3. decisions'[<<i, b>>] = decisions[<<i, b>>]
        BY <2>2, <2>4, <4>2
      <4>4. Descends(i, b, MaxSteps)'
        BY <1>1, <4>2, <4>3, RecordedStays
      <4> QED
        BY <1>1, <4>1, <4>4
    <3> QED
      BY <1>1, <3>1, <3>2 DEF LineageIsComplete
  <2>6. HeldLineage(w)'
    <3>1. step > 0 => \E b \in 1..(a - 1) : <<b, step>> \in checkpoints[j]
      <4> SUFFICES ASSUME step > 0, NEW c \in checkpoints[j], c[2] = step
                   PROVE  \E b \in 1..(a - 1) : <<b, step>> \in checkpoints[j]
        BY <1>4
      <4>1. /\ c[1] \in Attempts /\ c[1] <= a /\ <<c[1], step>> \in checkpoints[j]
            /\ decisions[<<j, c[1]>>] # None
        BY <1>1, <2>1, Decided
      <4>2. c[1] \in 1..(a - 1)
        BY <2>1, <2>2, <4>1, MaxAttemptsIsNat DEF Attempts
      <4> QED
        BY <4>1, <4>2
    <3>2. ASSUME NEW t \in Steps, step < t, MetricAt(t) <= ResumeAt(step) PROVE FALSE
      <4>1. t <= step
        BY <1>5, <3>2, PositionsApart
      <4> QED
        BY <1>5, <3>2, <4>1, StepsAreNat DEF Steps, CheckpointSteps
    <3>3. ResumeAt(step) <= ResumeAt(step)
      BY <1>5, FinalIsLast
    <3>4. Recorded(j, a, ResumeAt(step))'
      BY <1>1, <1>5, <2>4, <3>1, <3>2, <3>3 DEF Recorded
    <3> QED
      BY <1>6, <3>4 DEF HeldLineage
  <2>7. ASSUME NEW x \in Workers \ {w} PROVE HeldLineage(x)'
    <3> SUFFICES ASSUME exec[x].pc = "stream", Mine(x), Holds(x)
                 PROVE  Recorded(exec[x].job, exec[x].attempt, exec[x].at)'
      BY <1>6, <1>7 DEF HeldLineage
    <3>1. PICK i \in Jobs : i = exec[x].job
      BY DEF Mine
    <3>2. PICK b \in Attempts : b = exec[x].attempt
      BY HeldAttempt DEF TrainInv
    <3>3. i # j
      BY <1>j, <2>1, <3>1 DEF Mine
    <3>4. Recorded(i, b, exec[x].at)
      BY <3>1, <3>2 DEF LineageInv, HeldLineage
    <3>5. decisions'[<<i, b>>] = decisions[<<i, b>>]
      BY <2>4, <3>3
    <3>6. PICK at : at = exec[x].at
      OBVIOUS
    <3>7. Recorded(i, b, at)'
      BY <1>1, <3>4, <3>5, <3>6, RecordedStays
    <3> QED
      BY <1>6, <3>1, <3>2, <3>6, <3>7
  <2> QED
    BY <2>5, <2>6, <2>7 DEF LineageInv
<1> QED
  BY <1>8, <1>9

\* A report is recorded in its turn: a checkpoint after the metrics up to it, "final" after
\* the metrics of all steps.
LEMMA EventKeepsLineage ==
    ASSUME TrainInv, TrainInv', LineageInv, NEW w \in Workers, Event(w)
    PROVE  LineageInv'
<1> DEFINE J == exec[w].job
           A == exec[w].attempt
<1>1. /\ exec[w] \in ExecState /\ exec[w].pc = "stream" /\ J \in Jobs
      /\ exec[w].at + 1 \in 0..Last /\ exec[w].at \in Nat
      /\ HandleEvent(w, exec[w].at + 1)
      /\ UNCHANGED <<status, attempt, owner, run, decisions>>
  BY LastIsNat DEF Event, NextEvent, TrainInv, HostOK, HostTypeOK, ExecState
<1>2. /\ exec'[w].pc = "stream" /\ exec'[w].job = J /\ exec'[w].attempt = A
      /\ exec'[w].at = exec[w].at + 1
      /\ \A x \in Workers \ {w} : exec'[x] = exec[x]
  <2> DEFINE e == [exec[w] EXCEPT !.at = exec[w].at + 1]
  <2>1. e.pc = "stream" /\ e.job = J /\ e.attempt = A /\ e.at = exec[w].at + 1
    BY <1>1 DEF ExecState
  <2>2. exec' = [exec EXCEPT ![w] = e]
    BY DEF Event, NextEvent
  <2> HIDE DEF e
  <2> QED
    BY <2>1, <2>2 DEF TrainInv, HostOK, HostTypeOK
<1>3. \A x \in Workers : (Mine(x)' <=> Mine(x)) /\ (Holds(x)' <=> Holds(x))
  BY <1>1, <1>2 DEF Mine, Holds
<1>4. CASE ~Holds(w)
  <2>1. UNCHANGED <<checkpoints, metrics, output>>
    BY <1>1, <1>4 DEF HandleEvent, RecordMetric, RegisterCheckpoint, RegisterOutput, Inserted
  <2> QED
    BY <1>1, <1>2, <1>3, <1>4, <2>1, QuietKeepsLineage
<1>5. CASE Holds(w)
  <2>1. Mine(w) /\ A \in Attempts
    BY <1>1, <1>5, HeldAttempt DEF Holds, Mine, TrainInv
  <2>2. PICK j \in Jobs : j = J
    BY <1>1
  <2>3. PICK a \in Attempts : a = A
    BY <2>1
  <2>4. PICK at \in Nat : at = exec[w].at
    BY <1>1
  <2>5. Recorded(j, a, at)
    BY <1>1, <1>5, <2>1, <2>2, <2>3, <2>4 DEF LineageInv, HeldLineage
  <2>6. PICK from \in CheckpointSteps \cup {0} :
           /\ from = decisions[<<j, a>>] /\ ResumeAt(from) <= at
           /\ from > 0 => \E b \in 1..(a - 1) : <<b, from>> \in checkpoints[j]
           /\ \A t \in Steps : from < t /\ MetricAt(t) <= at => <<a, t>> \in metrics[j]
    BY <2>5 DEF Recorded
  <2>7. from \in 0..(MaxSteps - 1) /\ from # None
    BY NullIsNoStep, StepsAreNat DEF CheckpointSteps, Steps
  <2>8. \A i \in Jobs : checkpoints[i] \subseteq checkpoints'[i] /\ metrics[i] \subseteq metrics'[i]
    BY <1>1
    DEF HandleEvent, RecordMetric, RegisterCheckpoint, RegisterOutput, Inserted,
        TrainInv, TrainTypeOK
  <2>9. ASSUME NEW s \in 1..MaxSteps, from < s,
               \A t \in Steps : from < t /\ t <= s => MetricAt(t) <= at
        PROVE  Descends(j, a, s)
    <3>1. ASSUME NEW t \in (from + 1)..s PROVE <<a, t>> \in metrics[j]
      <4>1. t \in Steps /\ from < t /\ t <= s
        BY <2>7, <3>1, StepsAreNat DEF Steps
      <4> QED
        BY <2>6, <2>9, <4>1
    <3> QED
      BY <2>6, <2>7, <2>9, <3>1 DEF Descends
  <2>10. \A i \in Jobs : \A c \in checkpoints'[i] :
            \/ c \in checkpoints[i]
            \/ i = j /\ c[1] = a /\ Descends(j, a, c[2])
    <3> SUFFICES ASSUME NEW i \in Jobs, NEW c \in checkpoints'[i], c \notin checkpoints[i]
                 PROVE  i = j /\ c[1] = a /\ Descends(j, a, c[2])
      OBVIOUS
    <3>1. PICK s \in CheckpointSteps :
             at + 1 = MetricAt(s) + 1 /\ checkpoints' = Inserted(checkpoints, w, s)
      BY <1>1, <2>4 DEF HandleEvent, RecordMetric, RegisterCheckpoint, RegisterOutput
    <3>2. i = j /\ c = <<a, s>>
      BY <1>5, <2>2, <2>3, <3>1 DEF Inserted, TrainInv, TrainTypeOK
    <3>3. s \in Steps /\ s \in 1..MaxSteps
      BY DEF CheckpointSteps, Steps
    <3>4. at = MetricAt(s)
      BY <3>1, <3>3, PositionsApart
    <3>5. from < s /\ \A t \in Steps : t <= s => MetricAt(t) <= at
      BY <2>6, <3>3, <3>4, PositionsApart
    <3> QED
      BY <2>9, <3>2, <3>3, <3>5
  <2>11. \A i \in Jobs : output'[i] # None =>
            \/ output'[i] = output[i]
            \/ i = j /\ output'[i] = a /\ Descends(j, a, MaxSteps)
    <3> SUFFICES ASSUME NEW i \in Jobs, output'[i] # output[i]
                 PROVE  i = j /\ output'[i] = a /\ Descends(j, a, MaxSteps)
      OBVIOUS
    <3>1. at + 1 = Last /\ output' = [output EXCEPT ![j] = a]
      BY <1>1, <1>5, <2>2, <2>3, <2>4
      DEF HandleEvent, RecordMetric, RegisterCheckpoint, RegisterOutput
    <3>2. i = j /\ output'[i] = a
      BY <3>1 DEF TrainInv, TrainTypeOK
    <3>3. MaxSteps \in Steps
      BY StepsAreNat DEF Steps
    <3>4. MetricAt(MaxSteps) \in Nat
      BY <3>3, PositionsApart
    <3>5. at = MetricAt(MaxSteps)
      BY <3>1, <3>4, LastIsFinal
    <3>6. \A t \in Steps : t <= MaxSteps
      BY StepsAreNat DEF Steps
    <3>7. \A t \in Steps : MetricAt(t) <= at
      BY <3>3, <3>5, <3>6, PositionsApart
    <3> QED
      BY <2>7, <2>9, <3>2, <3>3, <3>7, StepsAreNat DEF Steps
  <2>12. LineageIsComplete'
    <3>1. \A i \in Jobs : \A b, s : Descends(i, b, s) => Descends(i, b, s)'
      BY <1>1, <2>8, RecordedStays
    <3>2. ASSUME NEW i \in Jobs, NEW c \in checkpoints'[i] PROVE Descends(i, c[1], c[2])'
      <4>1. Descends(i, c[1], c[2])
        BY <2>10 DEF LineageInv, LineageIsComplete
      <4>2. PICK b, s : b = c[1] /\ s = c[2]
        OBVIOUS
      <4> QED
        BY <3>1, <4>1, <4>2
    <3>3. ASSUME NEW i \in Jobs, output'[i] # None PROVE Descends(i, output[i], MaxSteps)'
      <4>1. PICK b : b = output'[i]
        OBVIOUS
      <4>2. Descends(i, b, MaxSteps)
        BY <2>11, <3>3, <4>1 DEF LineageInv, LineageIsComplete
      <4>3. Descends(i, b, MaxSteps)'
        BY <3>1, <4>2
      <4> QED
        BY <4>1, <4>3
    <3> QED
      BY <3>2, <3>3 DEF LineageIsComplete
  <2>13. HeldLineage(w)'
    <3>1. ASSUME NEW t \in Steps, from < t, MetricAt(t) <= at + 1
          PROVE  <<a, t>> \in metrics'[j]
      <4>1. CASE MetricAt(t) <= at
        BY <2>6, <2>8, <3>1, <4>1
      <4>2. CASE MetricAt(t) = at + 1
        <5>1. PICK s \in Steps : at + 1 = MetricAt(s) /\ metrics' = Inserted(metrics, w, s)
          <6>1. ASSUME NEW s \in CheckpointSteps, at + 1 = MetricAt(s) + 1 PROVE FALSE
            <7>1. s \in Steps
              BY DEF CheckpointSteps
            <7> QED
              BY <4>2, <6>1, <7>1, PositionsApart
          <6>2. at + 1 # Last
            BY <4>2, FinalIsLast
          <6> QED
            BY <1>1, <2>4, <6>1, <6>2 DEF HandleEvent, RecordMetric
        <5>2. s = t
          BY <4>2, <5>1, PositionsApart
        <5> QED
          BY <1>5, <2>2, <2>3, <5>1, <5>2 DEF Inserted, TrainInv, TrainTypeOK
      <4> QED
        BY <3>1, <4>1, <4>2, PositionsApart
    <3>2. ResumeAt(from) <= at + 1
      BY <2>6, FinalIsLast
    <3>3. Recorded(j, a, at + 1)'
      BY <1>1, <2>6, <2>8, <3>1, <3>2 DEF Recorded
    <3> QED
      BY <1>2, <2>2, <2>3, <2>4, <3>3 DEF HeldLineage
  <2>14. ASSUME NEW x \in Workers \ {w} PROVE HeldLineage(x)'
    <3> SUFFICES ASSUME exec[x].pc = "stream", Mine(x), Holds(x)
                 PROVE  Recorded(exec[x].job, exec[x].attempt, exec[x].at)'
      BY <1>2, <1>3 DEF HeldLineage
    <3>1. PICK i \in Jobs : i = exec[x].job
      BY DEF Mine
    <3>2. PICK b, n : b = exec[x].attempt /\ n = exec[x].at
      OBVIOUS
    <3>3. Recorded(i, b, n)
      BY <3>1, <3>2 DEF LineageInv, HeldLineage
    <3>4. Recorded(i, b, n)'
      BY <1>1, <2>8, <3>3, RecordedStays
    <3> QED
      BY <1>2, <3>1, <3>2, <3>4
  <2> QED
    BY <2>12, <2>13, <2>14 DEF LineageInv
<1> QED
  BY <1>4, <1>5

LEMMA LineageInvStep == TrainInv /\ TrainInv' /\ LineageInv /\ [Next]_vars => LineageInv'
<1> SUFFICES ASSUME TrainInv, TrainInv', LineageInv, [Next]_vars PROVE LineageInv'
  OBVIOUS
<1>1. CASE UNCHANGED vars
  BY <1>1, QuietKeepsLineage DEF vars, hostVars, trainVars, Mine, Holds
<1>2. CASE HostStep /\ UNCHANGED trainVars
  BY <1>2, BusyKept, QuietKeepsLineage DEF TrainInv, trainVars
<1>3. ASSUME NEW j \in Jobs, CreateRun(j) PROVE LineageInv'
  BY <1>3, QuietKeepsLineage DEF CreateRun, hostVars, Mine, Holds
<1>4. ASSUME NEW w \in Workers, UNCHANGED <<status, attempt, owner, trainVars>>,
             exec'[w].pc # "stream", \A x \in Workers \ {w} : exec'[x] = exec[x]
      PROVE  LineageInv'
  BY <1>4, QuietKeepsLineage DEF trainVars, Mine, Holds
<1>5. ASSUME NEW w \in Workers,
             \/ Lookup(w) \/ OutputRejected(w) \/ Close(w)
             \/ StreamStep(w) /\ UNCHANGED trainVars
      PROVE  LineageInv'
  <2>1. exec[w] \in ExecState
    BY DEF TrainInv, HostOK, HostTypeOK
  <2>2. \E e : e.pc # "stream" /\ exec' = [exec EXCEPT ![w] = e]
    <3>1. ASSUME NEW pc \in {"prepare", "finalize", "close"}, NEW r,
                 \/ exec' = [exec EXCEPT ![w] = [@ EXCEPT !.pc = pc]]
                 \/ exec' = [exec EXCEPT ![w] = [@ EXCEPT !.pc = pc, !.result = r]]
          PROVE  \E e : e.pc # "stream" /\ exec' = [exec EXCEPT ![w] = e]
      <4>1. /\ [exec[w] EXCEPT !.pc = pc].pc # "stream"
            /\ [exec[w] EXCEPT !.pc = pc, !.result = r].pc # "stream"
        BY <2>1 DEF ExecState
      <4> QED
        BY <3>1, <4>1
    <3>2. CASE exec' = [exec EXCEPT ![w] = ExecIdle]
      BY <3>2 DEF ExecIdle
    <3> QED
      BY <1>5, <3>1, <3>2
      DEF Lookup, GoOn, Simulate, Outcome, OutputRejected, Close, StreamStep, StreamEnds,
          FencedOut
  <2>3. UNCHANGED <<status, attempt, owner, trainVars>>
    BY <1>5 DEF Lookup, Simulate, OutputRejected, Close, StreamStep
  <2>4. exec'[w].pc # "stream" /\ \A x \in Workers \ {w} : exec'[x] = exec[x]
    BY <2>2 DEF TrainInv, HostOK, HostTypeOK
  <2> QED
    BY <1>4, <2>3, <2>4
<1> QED
  BY <1>1, <1>2, <1>3, <1>5, PrepareKeepsLineage, EventKeepsLineage DEF Next

\* Every trusted checkpoint, and the final output, descends link by link from step 1: the
\* steps an attempt did not train were left by an earlier one.
THEOREM LineageHasNoGap == Spec => []LineageIsComplete
<1>1. Init => LineageInv
  BY DEF Init, HostInit, ExecIdle, LineageInv, LineageIsComplete, HeldLineage
<1>2. LineageInv => LineageIsComplete
  BY DEF LineageInv
<1> QED
  BY <1>1, <1>2, LineageInvStep, SpecKeepsTrainInv, PTL DEF Spec
-----------------------------------------------------------------------------
(* The whole training history behind a checkpoint *)

\* Rows account for more when there are more of them.
LEMMA TrainedByMore ==
    ASSUME NEW rows, NEW more, rows \subseteq more, NEW a, NEW s, Trained(rows, a, s)
    PROVE  Trained(more, a, s)
BY DEF Trained

\* An attempt that went on from step from, which an earlier one accounts for, accounts for
\* the steps it recorded: its own after from, the earlier trainers' before.
LEMMA TrainedFurther ==
    ASSUME NEW rows, NEW a \in Nat, NEW s \in Nat, NEW from \in Nat, from < s,
           from > 0 => \E b \in 1..(a - 1) : Trained(rows, b, from), a > 0,
           \A t \in (from + 1)..s : <<a, t>> \in rows
    PROVE  Trained(rows, a, s)
<1>1. PICK before \in [1..from -> 1..a] :
         /\ \A t \in 1..from : <<before[t], t>> \in rows
         /\ \A t \in 2..from : before[t - 1] <= before[t]
  <2>1. CASE from = 0
    <3> DEFINE none == [t \in 1..from |-> a]
    <3>1. none \in [1..from -> 1..a] /\ 1..from = {} /\ 2..from = {}
      BY <2>1
    <3> HIDE DEF none
    <3> QED
      BY <3>1
  <2>2. CASE from > 0
    <3>1. PICK b \in 1..(a - 1) : Trained(rows, b, from)
      BY <2>2
    <3>2. PICK earlier \in [1..from -> 1..b] :
             /\ \A t \in 1..from : <<earlier[t], t>> \in rows
             /\ \A t \in 2..from : earlier[t - 1] <= earlier[t]
      BY <3>1 DEF Trained
    <3>3. 1..b \subseteq 1..a
      OBVIOUS
    <3>4. earlier \in [1..from -> 1..a]
      BY <3>2, <3>3
    <3> QED
      BY <3>2, <3>4
  <2>3. from = 0 \/ from > 0
    OBVIOUS
  <2> QED
    BY <2>1, <2>2, <2>3, Zenon
<1> DEFINE trainer == [t \in 1..s |-> IF t <= from THEN before[t] ELSE a]
<1>2. trainer \in [1..s -> 1..a]
  BY <1>1
<1>3. trainer[s] = a
  OBVIOUS
<1>4. ASSUME NEW t \in 1..s PROVE <<trainer[t], t>> \in rows
  BY <1>1
<1>5. ASSUME NEW t \in 2..s PROVE trainer[t - 1] <= trainer[t]
  <2>1. t - 1 \in 1..s /\ t \in 1..s
    OBVIOUS
  <2>2. CASE t <= from
    BY <1>1, <2>1, <2>2
  <2>3. CASE t > from
    BY <1>2, <2>1, <2>3
  <2> QED
    BY <2>2, <2>3
<1> HIDE DEF trainer
<1> QED
  BY <1>2, <1>3, <1>4, <1>5 DEF Trained

\* A step adds metrics, and at most one checkpoint.
LEMMA RowsAdded ==
    ASSUME TrainInv, [Next]_vars
    PROVE  /\ \A j \in Jobs : metrics[j] \subseteq metrics'[j]
           /\ \E row : \A j \in Jobs : checkpoints'[j] \subseteq checkpoints[j] \cup {row}
<1>1. ASSUME UNCHANGED <<checkpoints, metrics, output>>
      PROVE  /\ \A j \in Jobs : metrics[j] \subseteq metrics'[j]
             /\ \E row : \A j \in Jobs : checkpoints'[j] \subseteq checkpoints[j] \cup {row}
  BY <1>1
<1>2. ASSUME NEW w \in Workers, Event(w)
      PROVE  /\ \A j \in Jobs : metrics[j] \subseteq metrics'[j]
             /\ \E row : \A j \in Jobs : checkpoints'[j] \subseteq checkpoints[j] \cup {row}
  <2>1. HandleEvent(w, exec[w].at + 1)
    BY <1>2 DEF Event
  <2>2. ASSUME NEW s \in Steps, metrics' = Inserted(metrics, w, s), UNCHANGED checkpoints
        PROVE  \A j \in Jobs : metrics[j] \subseteq metrics'[j]
    <3>1. metrics \in [Jobs -> SUBSET (Attempts \X Steps)]
      BY DEF TrainInv, TrainTypeOK
    <3> QED
      BY <2>2, <3>1 DEF Inserted
  <2>3. ASSUME NEW s, checkpoints' = Inserted(checkpoints, w, s)
        PROVE  \E row : \A j \in Jobs : checkpoints'[j] \subseteq checkpoints[j] \cup {row}
    <3>1. checkpoints \in [Jobs -> SUBSET (Attempts \X CheckpointSteps)]
      BY DEF TrainInv, TrainTypeOK
    <3>2. PICK row : row = <<exec[w].attempt, s>>
      OBVIOUS
    <3>3. \A j \in Jobs : checkpoints'[j] \subseteq checkpoints[j] \cup {row}
      BY <2>3, <3>1, <3>2 DEF Inserted
    <3> QED
      BY <3>3
  <2> QED
    BY <2>1, <2>2, <2>3 DEF HandleEvent, RecordMetric, RegisterCheckpoint, RegisterOutput
<1>3. ASSUME NEW w \in Workers,
             \/ Lookup(w) \/ Prepare(w) \/ OutputRejected(w) \/ Close(w)
             \/ StreamStep(w) /\ UNCHANGED trainVars
      PROVE  UNCHANGED <<checkpoints, metrics, output>>
  BY <1>3 DEF Lookup, Prepare, OutputRejected, Close, trainVars
<1>4. ASSUME NEW j \in Jobs, CreateRun(j) PROVE UNCHANGED <<checkpoints, metrics, output>>
  BY <1>4 DEF CreateRun
<1> QED
  BY <1>1, <1>2, <1>3, <1>4 DEF Next, vars, trainVars

\* The attempts of a resumed run are ordered, and only one row comes at a time: the row a
\* new one goes back to was there before it.
LEMMA TrainedStep ==
    ASSUME TrainInv, TrainInv', LineageIsComplete', EveryStepWasTrained, [Next]_vars
    PROVE  EveryStepWasTrained'
<1> DEFINE Rows(i) == metrics'[i]
           Kept(i) == checkpoints'[i]
           From(i, a) == decisions'[<<i, a>>]
<1>1. PICK row : /\ \A i \in Jobs : metrics[i] \subseteq Rows(i)
                 /\ \A i \in Jobs : Kept(i) \subseteq checkpoints[i] \cup {row}
  BY RowsAdded
<1>2. ASSUME NEW i \in Jobs, NEW c \in checkpoints[i] PROVE Trained(Rows(i), c[1], c[2])
  BY <1>1, <1>2, TrainedByMore DEF EveryStepWasTrained
<1>3. ASSUME NEW i \in Jobs, NEW a \in Attempts, NEW s \in Steps, Descends(i, a, s)'
      PROVE  /\ From(i, a) \in Nat /\ From(i, a) < s /\ a \in Nat /\ a > 0 /\ s \in Nat
             /\ From(i, a) > 0 => \E b \in 1..(a - 1) : <<b, From(i, a)>> \in Kept(i)
             /\ \A t \in (From(i, a) + 1)..s : <<a, t>> \in Rows(i)
  <2>1. From(i, a) \in 0..MaxSteps
    BY <1>3 DEF TrainInv, TrainTypeOK, Descends
  <2>2. a \in Nat /\ a > 0 /\ s \in Nat
    BY MaxAttemptsIsNat, StepsAreNat DEF Attempts, Steps
  <2> QED
    BY <1>3, <2>1, <2>2, StepsAreNat DEF Descends
<1>4. ASSUME NEW i \in Jobs, NEW c \in Kept(i) PROVE Trained(Rows(i), c[1], c[2])
  <2>1. CASE c \in checkpoints[i]
    BY <1>2, <2>1
  <2>2. CASE c = row
    <3>1. PICK a \in Attempts, s \in CheckpointSteps : c = <<a, s>>
      BY <1>4 DEF TrainInv, TrainTypeOK
    <3>2. s \in Steps /\ Descends(i, c[1], c[2])'
      BY <1>4 DEF LineageIsComplete, CheckpointSteps
    <3>3. Descends(i, a, s)'
      BY <3>1, <3>2
    <3>4. PICK from : from = From(i, a)
      OBVIOUS
    <3>5. ASSUME from > 0 PROVE \E b \in 1..(a - 1) : Trained(Rows(i), b, from)
      <4>1. PICK b \in 1..(a - 1) : <<b, from>> \in Kept(i)
        BY <1>3, <3>2, <3>3, <3>4, <3>5
      <4>2. b # a
        BY <1>3, <3>2, <3>3
      <4>3. <<b, from>> \in checkpoints[i]
        BY <1>1, <2>2, <3>1, <4>1, <4>2
      <4> QED
        BY <1>2, <4>3
    <3>6. Trained(Rows(i), a, s)
      BY <1>3, <3>2, <3>3, <3>4, <3>5, TrainedFurther
    <3> QED
      BY <3>1, <3>6
  <2> QED
    BY <1>1, <1>4, <2>1, <2>2
<1>5. ASSUME NEW i \in Jobs, output'[i] # None PROVE Trained(Rows(i), output'[i], MaxSteps)
  <2>1. PICK a \in Attempts : a = output'[i]
    BY <1>5 DEF TrainInv, TrainTypeOK
  <2>2. MaxSteps \in Steps
    BY StepsAreNat DEF Steps
  <2>3. Descends(i, a, MaxSteps)'
    BY <1>5, <2>1 DEF LineageIsComplete
  <2>4. PICK from : from = From(i, a)
    OBVIOUS
  <2>5. ASSUME from > 0 PROVE \E b \in 1..(a - 1) : Trained(Rows(i), b, from)
    <3>1. PICK b \in 1..(a - 1) : <<b, from>> \in Kept(i)
      BY <1>3, <2>2, <2>3, <2>4, <2>5
    <3> QED
      BY <1>4, <3>1
  <2> QED
    BY <1>3, <2>1, <2>2, <2>3, <2>4, <2>5, TrainedFurther
<1> QED
  BY <1>4, <1>5 DEF EveryStepWasTrained

\* For every checkpoint and the final output: an ordered line of attempts that trained all
\* steps from the first on.  The induction runs along the behaviour, row by row.
THEOREM EveryCheckpointIsTrained == Spec => []EveryStepWasTrained
<1>1. Init => EveryStepWasTrained
  BY DEF Init, EveryStepWasTrained
<1> QED
  BY <1>1, TrainedStep, LineageHasNoGap, SpecKeepsTrainInv, PTL DEF Spec
-----------------------------------------------------------------------------
(* To the platform, a training attempt is a simulated one *)

LEMMA TrainerStep ==
    ASSUME TrainInv, NEW w \in Workers,
           \/ Lookup(w) \/ Prepare(w) \/ Event(w) \/ OutputRejected(w)
           \/ Close(w) \/ (StreamStep(w) /\ UNCHANGED trainVars)
    PROVE  ExecutorStep(w)
<1> USE DEF TrainInv
<1>1. exec[w] \in ExecState
  BY DEF HostOK, HostTypeOK
<1>2. CASE Lookup(w)
  BY <1>2, SharedSteps DEF Lookup
<1>3. CASE Prepare(w)
  <2>1. PICK at : exec' = [exec EXCEPT ![w] = [@ EXCEPT !.pc = "stream", !.at = at]]
    BY <1>3 DEF Prepare
  <2> DEFINE e == [exec[w] EXCEPT !.pc = "stream", !.at = at]
  <2>2. /\ e.pc = "stream" /\ e.job = exec[w].job /\ e.attempt = exec[w].attempt
        /\ e.abandoned = exec[w].abandoned /\ exec' = [exec EXCEPT ![w] = e]
        /\ exec[w].pc = "prepare"
    BY <1>1, <1>3, <2>1 DEF Prepare, ExecState
  <2> HIDE DEF e
  <2>3. AsSimulated(e) = AsSimulated(exec[w])
    BY <2>2, WorkLooksSame DEF Within
  <2> QED
    BY <1>3, <2>2, <2>3 DEF ExecutorStep, Prepare
<1>4. CASE Event(w)
  BY <1>4, SharedSteps DEF Event
<1>5. CASE OutputRejected(w)
  BY <1>5 DEF OutputRejected, ExecutorStep
<1>6. CASE Close(w)
  <2>1. \E r \in Results : Outcome(w, r)
    BY <1>6 DEF Close, ErrorsAtClose, Results
  <2> QED
    BY <1>6, <2>1 DEF Close, ExecutorStep, Within
<1>7. CASE StreamStep(w)
  BY <1>7, SharedSteps
<1> QED
  BY <1>2, <1>3, <1>4, <1>5, <1>6, <1>7

\* Whatever it reads, streams and writes, a trainer moves its job only through the
\* worker's own claim and finalize_attempt, and hands over a result the worker knows, or
\* one in vain: what HostSpec says of jobs, which Platform implements, holds with trainers
\* in place of simulated executions.
THEOREM TrainingImplementsHost == Spec => Alone!HostSpec
<1>1. Init => Alone!HostInit
  BY SeenIdle DEF Init, HostInit, LifeInit, Absent, Seen, Alone!HostInit, Alone!LifeInit,
     Alone!Absent
<1>2. TrainInv /\ [Next]_vars => [Alone!HostNext]_(Alone!hostVars)
  <2> SUFFICES ASSUME TrainInv, [Next]_vars PROVE AloneStepped
    BY DEF AloneStepped, Alone!hostVars
  <2>1. ASSUME UNCHANGED <<status, attempt, owner, exec>> PROVE AloneStepped
    BY <2>1 DEF AloneStepped, Seen
  <2>2. ASSUME NEW w \in Workers,
               \/ Lookup(w) \/ Prepare(w) \/ Event(w) \/ OutputRejected(w)
               \/ Close(w) \/ (StreamStep(w) /\ UNCHANGED trainVars)
        PROVE  AloneStepped
    BY <2>2, TrainerStep, AloneExecutor DEF TrainInv
  <2>3. ASSUME NEW j \in Jobs, CreateRun(j) PROVE AloneStepped
    BY <2>1, <2>3 DEF CreateRun, hostVars
  <2>4. CASE HostStep
    BY <2>4, AloneHost DEF TrainInv
  <2>5. CASE UNCHANGED vars
    BY <2>1, <2>5 DEF vars, hostVars
  <2> QED
    BY <2>2, <2>3, <2>4, <2>5 DEF Next
<1> QED
  BY <1>1, <1>2, SpecKeepsTrainInv, PTL DEF Spec, Alone!HostSpec
=============================================================================
