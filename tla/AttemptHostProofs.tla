--------------------------- MODULE AttemptHostProofs ---------------------------
(***************************************************************************)
(* What an executor may rely on: lemmas about the steps of the host that   *)
(* the proofs about Training and Evaluation share.                         *)
(***************************************************************************)
EXTENDS AttemptHost, TLAPS

\* The transition table, as sets of sources.
LEMMA HostSources ==
    /\ \A to \in {"SUCCEEDED", "FAILED"} : sources_for(to) = {"RUNNING"}
    /\ sources_for("CANCELLED") = {"QUEUED", "RUNNING"}
    /\ Terminal = {"SUCCEEDED", "FAILED", "CANCELLED"}
BY DEF sources_for, VALID_TRANSITIONS, Status, Terminal

\* Worker w owns the lease of the running job it is at.
Mine(w) ==
    /\ exec[w].job \in Jobs
    /\ status[exec[w].job] = "RUNNING"
    /\ owner[exec[w].job] = w

\* A busy worker knows its job; a lease is taken by a start, and is nobody's before.
HostOK ==
    /\ HostTypeOK
    /\ \A w \in Workers : exec[w].pc # "idle" => exec[w].job \in Jobs
    /\ \A w \in Workers : exec[w].pc \in {"claimed", "lookup", "prepare"} => exec[w].at = 0
    /\ \A j \in Jobs : owner[j] # None => attempt[j] \in 1..MaxAttempts
    /\ \A j \in Jobs : status[j] \in {Absent, "QUEUED"} => owner[j] = None

\* Nothing runs at first.
LEMMA HostOKInit == HostInit => HostOK
BY MaxAttemptsIsNat, LastIsNat
DEF HostInit, LifeInit, HostOK, HostTypeOK, ExecState, ExecIdle, Absent, Status

\* What a step of the host does to one job.
JobStep(j) ==
    \/ status'[j] = status[j] /\ attempt'[j] = attempt[j] /\ owner'[j] = owner[j]
    \/ \E w \in Workers : StartAttempt(w, j)
    \/ /\ attempt'[j] = attempt[j]
       /\ owner'[j] = None \/ (owner'[j] = owner[j] /\ status'[j] # "RUNNING")
       /\ status'[j] = "SUCCEEDED" =>
             \/ "SUCCEEDED" \in PatchTargets /\ owner'[j] = owner[j]
             \/ \E w \in Workers : /\ exec[w].job = j /\ exec[w].pc = "finalize"
                                   /\ exec[w].result = "SUCCEEDED" /\ Holds(w)

\* What a step of the host does to one worker.
ExecStep(w) ==
    \/ exec'[w] = exec[w]
    \/ exec'[w] = ExecIdle
    \/ \E j \in Jobs : StartAttempt(w, j)
    \/ ReadBack(w)
    \/ HeartbeatRejected(w)

\* A start concerns one job and one worker.
LEMMA StartOthers ==
    ASSUME HostOK, NEW w \in Workers, NEW j \in Jobs, StartAttempt(w, j)
    PROVE  /\ \A i \in Jobs \ {j} : /\ status'[i] = status[i] /\ attempt'[i] = attempt[i]
                                    /\ owner'[i] = owner[i]
           /\ \A x \in Workers \ {w} : exec'[x] = exec[x]
BY DEF StartAttempt, Start, Become, HostOK, HostTypeOK

LEMMA StartFrame ==
    ASSUME HostOK, NEW w \in Workers, NEW j \in Jobs, StartAttempt(w, j)
    PROVE  /\ status[j] = "QUEUED" /\ status'[j] = "RUNNING" /\ owner'[j] = w
           /\ attempt'[j] = attempt[j] + 1 /\ attempt[j] + 1 \in 1..MaxAttempts
           /\ exec[w].pc = "idle"
           /\ exec'[w] \in ExecState
           /\ exec'[w].pc = "claimed" /\ exec'[w].job = j /\ exec'[w].at = 0
<1>1. /\ status[j] = "QUEUED" /\ status'[j] = "RUNNING" /\ owner'[j] = w
      /\ attempt'[j] = attempt[j] + 1 /\ attempt[j] + 1 \in 1..MaxAttempts
      /\ exec[w].pc = "idle"
  BY MaxAttemptsIsNat DEF StartAttempt, Start, Become, HostOK, HostTypeOK
<1> DEFINE e == [ExecIdle EXCEPT !.pc = "claimed", !.job = j]
<1>2. exec'[w] = e
  BY DEF StartAttempt, HostOK, HostTypeOK
<1>3. e \in ExecState /\ e.pc = "claimed" /\ e.job = j /\ e.at = 0
  <2>1. ExecIdle \in ExecState /\ ExecIdle.at = 0
    BY MaxAttemptsIsNat, LastIsNat DEF ExecState, ExecIdle
  <2> QED
    BY <2>1 DEF ExecState
<1> QED
  BY <1>1, <1>2, <1>3

\* finalize_attempt concerns one job.
LEMMA FinalizeJobs ==
    ASSUME HostOK, NEW w \in Workers, FinalizeAttempt(w), NEW j \in Jobs
    PROVE  JobStep(j)
<1>1. CASE j # exec[w].job
  <2>1. status'[j] = status[j] /\ attempt'[j] = attempt[j] /\ owner'[j] = owner[j]
    BY <1>1 DEF FinalizeAttempt, Become, Retry, HostOK, HostTypeOK
  <2> QED
    BY <2>1 DEF JobStep
<1>2. CASE j = exec[w].job
  <2>1. /\ attempt'[j] = attempt[j] /\ owner'[j] = None
        /\ status'[j] = "SUCCEEDED" => exec[w].result = "SUCCEEDED"
    BY <1>2 DEF FinalizeAttempt, Become, Retry, HostOK, HostTypeOK
  <2>2. exec[w].pc = "finalize" /\ Holds(w)
    BY DEF FinalizeAttempt
  <2> QED
    BY <1>2, <2>1, <2>2 DEF JobStep
<1> QED
  BY <1>1, <1>2

\* Every step of the host, seen from one job.
LEMMA HostJobs ==
    ASSUME HostOK, HostStep, NEW j \in Jobs
    PROVE  JobStep(j)
<1>s. ASSUME status'[j] = status[j], attempt'[j] = attempt[j], owner'[j] = owner[j]
      PROVE  JobStep(j)
  BY <1>s DEF JobStep
<1>u. ASSUME UNCHANGED <<status, attempt, owner>> PROVE JobStep(j)
  BY <1>u, <1>s
<1>1. ASSUME NEW i \in Jobs, Submit(i) \/ PatchRunning(i), UNCHANGED <<owner, exec>>
      PROVE  JobStep(j)
  <2>1. CASE i # j
    BY <1>1, <1>s, <2>1 DEF Submit, PatchRunning, Become, HostOK, HostTypeOK
  <2>2. CASE i = j
    <3>1. /\ owner[j] = None /\ attempt'[j] = attempt[j]
          /\ status'[j] # "SUCCEEDED" /\ owner'[j] = owner[j]
      BY <1>1, <2>2 DEF Submit, PatchRunning, Become, Absent, HostOK, HostTypeOK
    <3> QED
      BY <3>1 DEF JobStep
  <2> QED
    BY <2>1, <2>2
<1>2. ASSUME NEW i \in Jobs, Reclaim(i) PROVE JobStep(j)
  <2>1. CASE i # j
    BY <1>2, <1>s, <2>1 DEF Reclaim, Retry, Become, HostOK, HostTypeOK
  <2>2. CASE i = j
    <3>1. attempt'[j] = attempt[j] /\ status'[j] # "SUCCEEDED" /\ owner'[j] = None
      BY <1>2, <2>2 DEF Reclaim, Retry, Become, HostOK, HostTypeOK
    <3> QED
      BY <3>1 DEF JobStep
  <2> QED
    BY <2>1, <2>2
<1>3. ASSUME NEW i \in Jobs, ClientEnds(i) PROVE JobStep(j)
  <2>1. CASE i # j
    BY <1>3, <1>s, <2>1 DEF ClientEnds, Become, HostOK, HostTypeOK
  <2>2. CASE i = j
    <3>1. /\ attempt'[j] = attempt[j] /\ owner'[j] = owner[j]
          /\ status'[j] \in {"CANCELLED"} \cup (PatchTargets \cap Terminal)
      BY <1>3, <2>2 DEF ClientEnds, Become, HostOK, HostTypeOK
    <3> QED
      BY <3>1, HostSources DEF JobStep
  <2> QED
    BY <2>1, <2>2
<1>4. ASSUME NEW w \in Workers, NEW i \in Jobs, StartAttempt(w, i) PROVE JobStep(j)
  <2>1. CASE i # j
    <3>1. status'[j] = status[j] /\ attempt'[j] = attempt[j] /\ owner'[j] = owner[j]
      BY <1>4, <2>1, StartOthers
    <3> QED
      BY <1>s, <2>1, <3>1
  <2>2. CASE i = j
    <3>1. \E x \in Workers : StartAttempt(x, j)
      BY <1>4, <2>2
    <3> QED
      BY <3>1 DEF JobStep
  <2> QED
    BY <2>1, <2>2
<1>5. ASSUME NEW w \in Workers,
             ReadBack(w) \/ HeartbeatRejected(w) \/ DropResult(w) \/ WorkerGone(w)
      PROVE  JobStep(j)
  BY <1>5, <1>u DEF ReadBack, HeartbeatRejected, DropResult, WorkerGone
<1> QED
  BY <1>1, <1>2, <1>3, <1>4, <1>5, FinalizeJobs DEF HostStep

\* Every step of the host, seen from one worker.
LEMMA HostExecs ==
    ASSUME HostOK, HostStep, NEW w \in Workers
    PROVE  ExecStep(w)
<1>1. ASSUME UNCHANGED exec PROVE ExecStep(w)
  BY <1>1 DEF ExecStep
<1>2. ASSUME NEW j \in Jobs, Reclaim(j) \/ ClientEnds(j) PROVE ExecStep(w)
  BY <1>1, <1>2 DEF Reclaim, ClientEnds
<1>3. ASSUME NEW x \in Workers, NEW j \in Jobs, StartAttempt(x, j) PROVE ExecStep(w)
  <2>1. CASE x = w
    <3>1. \E i \in Jobs : StartAttempt(w, i)
      BY <1>3, <2>1
    <3> QED
      BY <3>1 DEF ExecStep
  <2>2. CASE x # w
    <3>1. exec'[w] = exec[w]
      BY <1>3, <2>2, StartOthers
    <3> QED
      BY <3>1 DEF ExecStep
  <2> QED
    BY <2>1, <2>2
<1>4. ASSUME NEW x \in Workers, ReadBack(x) \/ HeartbeatRejected(x) PROVE ExecStep(w)
  <2>1. CASE x = w
    BY <1>4, <2>1 DEF ExecStep
  <2>2. CASE x # w
    <3>1. exec'[w] = exec[w]
      BY <1>4, <2>2 DEF ReadBack, HeartbeatRejected, HostOK, HostTypeOK
    <3> QED
      BY <3>1 DEF ExecStep
  <2> QED
    BY <2>1, <2>2
<1>5. ASSUME NEW x \in Workers, FinalizeAttempt(x) \/ DropResult(x) \/ WorkerGone(x)
      PROVE  ExecStep(w)
  <2>1. exec'[w] = exec[w] \/ exec'[w] = ExecIdle
    BY <1>5 DEF FinalizeAttempt, DropResult, WorkerGone, HostOK, HostTypeOK
  <2> QED
    BY <2>1 DEF ExecStep
<1> QED
  BY <1>1, <1>2, <1>3, <1>4, <1>5 DEF HostStep

\* A step of the host keeps the host in order.
LEMMA HostStepOK ==
    ASSUME HostOK, HostStep
    PROVE  HostOK'
<1>1. ASSUME NEW j \in Jobs, Submit(j) \/ PatchRunning(j), UNCHANGED <<owner, exec>>
      PROVE  HostOK'
  BY <1>1 DEF Submit, PatchRunning, Become, Absent, Status, HostOK, HostTypeOK
<1>2. ASSUME NEW j \in Jobs, Reclaim(j) PROVE HostOK'
  BY <1>2 DEF Reclaim, Retry, Become, Absent, Status, HostOK, HostTypeOK
<1>3. ASSUME NEW j \in Jobs, ClientEnds(j) PROVE HostOK'
  BY <1>3, HostSources DEF ClientEnds, Become, Absent, Status, HostOK, HostTypeOK
<1>4. ASSUME NEW w \in Workers, NEW j \in Jobs, StartAttempt(w, j) PROVE HostOK'
  <2>1. HostTypeOK'
    <3>1. exec'[w] \in ExecState
      BY <1>4, StartFrame
    <3>2. exec' \in [Workers -> ExecState]
      BY <1>4, <3>1 DEF StartAttempt, HostOK, HostTypeOK
    <3> QED
      BY <1>4, <3>2, MaxAttemptsIsNat
      DEF StartAttempt, Start, Become, Absent, Status, HostOK, HostTypeOK
  <2>2. \A x \in Workers : /\ exec'[x].pc # "idle" => exec'[x].job \in Jobs
                           /\ exec'[x].pc \in {"claimed", "lookup", "prepare"}
                                 => exec'[x].at = 0
    <3>1. exec'[w].job = j /\ exec'[w].at = 0
      BY <1>4, StartFrame
    <3>2. \A x \in Workers \ {w} : exec'[x] = exec[x]
      BY <1>4, StartOthers
    <3> QED
      BY <3>1, <3>2 DEF HostOK
  <2>3. \A i \in Jobs : /\ owner'[i] # None => attempt'[i] \in 1..MaxAttempts
                        /\ status'[i] \in {Absent, "QUEUED"} => owner'[i] = None
    BY <1>4, MaxAttemptsIsNat DEF StartAttempt, Start, Become, Absent, HostOK, HostTypeOK
  <2> QED
    BY <2>1, <2>2, <2>3 DEF HostOK
<1>5. ASSUME NEW w \in Workers, ReadBack(w) \/ HeartbeatRejected(w) PROVE HostOK'
  <2>1. /\ exec'[w] \in ExecState /\ exec'[w].at = exec[w].at
        /\ exec'[w].job = exec[w].job /\ exec[w].pc # "idle"
        /\ exec'[w].pc \in {"claimed", "lookup", "prepare"}
              => exec[w].pc \in {"claimed", "lookup", "prepare"}
    <3>1. CASE ReadBack(w)
      <4> DEFINE e == [exec[w] EXCEPT !.pc = "lookup", !.attempt = attempt[exec[w].job]]
      <4>1. exec'[w] = e /\ exec[w].pc = "claimed"
        BY <3>1 DEF ReadBack, HostOK, HostTypeOK
      <4>2. exec[w] \in ExecState /\ attempt[exec[w].job] \in 0..MaxAttempts
        BY <4>1 DEF HostOK, HostTypeOK
      <4>3. e \in ExecState /\ e.at = exec[w].at /\ e.job = exec[w].job
        BY <4>2 DEF ExecState
      <4> QED
        BY <4>1, <4>3
    <3>2. CASE HeartbeatRejected(w)
      BY <3>2 DEF HeartbeatRejected, ExecState, HostOK, HostTypeOK
    <3> QED
      BY <1>5, <3>1, <3>2
  <2>2. /\ exec' = [exec EXCEPT ![w] = exec'[w]]
        /\ UNCHANGED <<status, attempt, owner>>
    BY <1>5 DEF ReadBack, HeartbeatRejected, HostOK, HostTypeOK
  <2> QED
    BY <2>1, <2>2 DEF HostOK, HostTypeOK
<1>6. ASSUME NEW w \in Workers, exec' = [exec EXCEPT ![w] = ExecIdle],
             UNCHANGED <<status, attempt, owner>>
      PROVE  HostOK'
  BY <1>6, MaxAttemptsIsNat, LastIsNat DEF ExecIdle, ExecState, HostOK, HostTypeOK
<1>7. ASSUME NEW w \in Workers, DropResult(w) \/ WorkerGone(w) PROVE HostOK'
  BY <1>6, <1>7 DEF DropResult, WorkerGone
<1>8. ASSUME NEW w \in Workers, FinalizeAttempt(w) PROVE HostOK'
  <2>1. exec' \in [Workers -> ExecState] /\ exec'[w] = ExecIdle
        /\ \A x \in Workers \ {w} : exec'[x] = exec[x]
    BY <1>8, MaxAttemptsIsNat, LastIsNat
    DEF FinalizeAttempt, ExecIdle, ExecState, HostOK, HostTypeOK
  <2>2. HostTypeOK'
    BY <1>8, <2>1 DEF FinalizeAttempt, Retry, Become, Status, HostOK, HostTypeOK
  <2>3. \A j \in Jobs : /\ owner'[j] # None => attempt'[j] \in 1..MaxAttempts
                        /\ status'[j] \in {Absent, "QUEUED"} => owner'[j] = None
    BY <1>8 DEF FinalizeAttempt, Retry, Become, Absent, HostOK, HostTypeOK
  <2> QED
    BY <2>1, <2>2, <2>3 DEF HostOK, ExecIdle
<1> QED
  BY <1>1, <1>2, <1>3, <1>4, <1>5, <1>7, <1>8 DEF HostStep

\* So does a step of one executor, which leaves the jobs alone.
LEMMA ExecutorOK ==
    ASSUME HostOK, NEW w \in Workers, UNCHANGED <<status, attempt, owner>>,
           NEW e \in ExecState, exec' = [exec EXCEPT ![w] = e],
           e.pc # "idle" => e.job \in Jobs,
           e.pc \in {"claimed", "lookup", "prepare"} => e.at = 0
    PROVE  HostOK'
BY DEF HostOK, HostTypeOK

\* A busy worker whose job a step of the host leaves in its hands had it before, and
\* the job is as it was.
LEMMA MineKept ==
    ASSUME HostOK, HostStep, NEW w \in Workers, exec[w].pc # "idle",
           exec'[w].job = exec[w].job, Mine(w)'
    PROVE  /\ Mine(w)
           /\ status'[exec[w].job] = status[exec[w].job]
           /\ attempt'[exec[w].job] = attempt[exec[w].job]
<1> DEFINE j == exec[w].job
<1>1. j \in Jobs /\ owner'[j] = w /\ status'[j] = "RUNNING"
  BY DEF Mine, HostOK
<1>2. JobStep(j)
  BY <1>1, HostJobs
<1>3. ~ \E x \in Workers : StartAttempt(x, j)
  <2> SUFFICES ASSUME NEW x \in Workers, StartAttempt(x, j) PROVE FALSE
    OBVIOUS
  <2>1. owner'[j] = x /\ exec[x].pc = "idle"
    BY <1>1, StartFrame
  <2> QED
    BY <1>1, <2>1
<1> QED
  BY <1>1, <1>2, <1>3, NullIsNobody DEF JobStep, Mine

\* A worker whose executor has begun its work stays as it was, and what it holds it held.
LEMMA BusyKept ==
    ASSUME HostOK, HostStep, NEW w \in Workers, exec'[w].pc \in {"stream", "close", "finalize"}
    PROVE  /\ exec'[w].pc = exec[w].pc /\ exec'[w].job = exec[w].job
           /\ exec'[w].attempt = exec[w].attempt /\ exec'[w].at = exec[w].at
           /\ exec'[w].result = exec[w].result
           /\ Mine(w)' /\ Holds(w)' => Mine(w) /\ Holds(w)
<1>1. /\ exec'[w].pc = exec[w].pc /\ exec'[w].job = exec[w].job
      /\ exec'[w].attempt = exec[w].attempt /\ exec'[w].at = exec[w].at
      /\ exec'[w].result = exec[w].result
  <2>1. CASE exec'[w] = exec[w]
    BY <2>1
  <2>2. CASE exec'[w] = ExecIdle
    BY <2>2 DEF ExecIdle
  <2>3. ASSUME NEW j \in Jobs, StartAttempt(w, j) PROVE FALSE
    BY <2>3, StartFrame
  <2>4. CASE ReadBack(w)
    BY <2>4 DEF ReadBack, HostOK, HostTypeOK, ExecState
  <2>5. CASE HeartbeatRejected(w)
    BY <2>5 DEF HeartbeatRejected, HostOK, HostTypeOK, ExecState
  <2> QED
    BY <2>1, <2>2, <2>3, <2>4, <2>5, HostExecs DEF ExecStep
<1>2. ASSUME Mine(w)', Holds(w)' PROVE Mine(w) /\ Holds(w)
  <2>1. Mine(w) /\ attempt'[exec[w].job] = attempt[exec[w].job]
    BY <1>1, <1>2, MineKept
  <2> QED
    BY <1>1, <1>2, <2>1 DEF Mine, Holds
<1> QED
  BY <1>1, <1>2
-----------------------------------------------------------------------------
(* The executors, seen from the host alone *)

\* The executor at work, or returning a result in vain.
Within(r) ==
    \/ r.pc \in {"prepare", "stream", "close"}
    \/ r.pc = "finalize" /\ r.abandoned

\* What the host alone has in its place: one simulated execution.
AsSimulated(r) ==
    [pc |-> IF Within(r) THEN "lookup" ELSE r.pc,
     job |-> r.job, attempt |-> r.attempt, at |-> 0, abandoned |-> r.abandoned,
     result |-> IF r.pc = "finalize" /\ ~r.abandoned THEN r.result ELSE None]

Seen == [w \in Workers |-> AsSimulated(exec[w])]

Alone == INSTANCE AttemptHost WITH exec <- Seen, Last <- 0

AloneStepped == Alone!HostNext \/ UNCHANGED <<status, attempt, owner, Seen>>

\* Two rows with the same fields are the same.
ExecKeys == {"pc", "job", "attempt", "at", "abandoned", "result"}

LEMMA SameExec ==
    ASSUME NEW l, NEW r,
           l = [k \in ExecKeys |-> l[k]], r = [k \in ExecKeys |-> r[k]],
           l.pc = r.pc, l.job = r.job, l.attempt = r.attempt, l.at = r.at,
           l.abandoned = r.abandoned, l.result = r.result
    PROVE  l = r
BY DEF ExecKeys

LEMMA SeenReads ==
    ASSUME NEW w \in Workers
    PROVE  /\ Seen[w] = AsSimulated(exec[w])
           /\ Seen[w].job = exec[w].job /\ Seen[w].attempt = exec[w].attempt
           /\ Seen[w].abandoned = exec[w].abandoned
           /\ Seen[w].pc = IF Within(exec[w]) THEN "lookup" ELSE exec[w].pc
           /\ exec[w].pc = "finalize" /\ ~exec[w].abandoned => Seen[w].result = exec[w].result
           /\ Alone!Holds(w) <=> Holds(w)
BY DEF Seen, AsSimulated, Alone!Holds, Holds

LEMMA SeenWorks ==
    ASSUME HostOK, NEW w \in Workers, NEW e, exec' = [exec EXCEPT ![w] = e]
    PROVE  Seen' = [Seen EXCEPT ![w] = AsSimulated(e)]
BY DEF Seen, HostOK, HostTypeOK

\* An idle worker looks the same, and so does one that has just claimed.
LEMMA SeenIdle ==
    /\ AsSimulated(ExecIdle) = Alone!ExecIdle
    /\ \A j : AsSimulated([ExecIdle EXCEPT !.pc = "claimed", !.job = j])
                 = [Alone!ExecIdle EXCEPT !.pc = "claimed", !.job = j]
<1>1. AsSimulated(ExecIdle) = Alone!ExecIdle
  <2>1. ~Within(ExecIdle)
    BY DEF Within, ExecIdle
  <2> QED
    BY <2>1 DEF AsSimulated, ExecIdle, Alone!ExecIdle
<1>2. ASSUME NEW j
      PROVE  AsSimulated([ExecIdle EXCEPT !.pc = "claimed", !.job = j])
                = [Alone!ExecIdle EXCEPT !.pc = "claimed", !.job = j]
  <2> DEFINE e == [ExecIdle EXCEPT !.pc = "claimed", !.job = j]
             l == AsSimulated(e)
             r == [Alone!ExecIdle EXCEPT !.pc = "claimed", !.job = j]
  <2>1. /\ e.pc = "claimed" /\ e.job = j /\ e.attempt = 0
        /\ e.abandoned = FALSE /\ e.result = None
    BY DEF ExecIdle
  <2> HIDE DEF e
  <2>2. ~Within(e)
    BY <2>1 DEF Within
  <2>3. l = [k \in ExecKeys |-> l[k]] /\ r = [k \in ExecKeys |-> r[k]]
    BY DEF AsSimulated, Alone!ExecIdle, ExecKeys
  <2>4. /\ l.pc = r.pc /\ l.job = r.job /\ l.attempt = r.attempt /\ l.at = r.at
        /\ l.abandoned = r.abandoned /\ l.result = r.result
    BY <2>1, <2>2 DEF AsSimulated, Alone!ExecIdle
  <2> HIDE DEF l, r
  <2>5. l = r
    BY <2>3, <2>4, SameExec
  <2> QED
    BY <2>5 DEF l, r, e
<1> QED
  BY <1>1, <1>2

\* A worker that drops its job.
LEMMA SeenGone ==
    ASSUME HostOK, NEW w \in Workers, exec[w].pc # "idle",
           exec' = [exec EXCEPT ![w] = ExecIdle], UNCHANGED <<status, attempt, owner>>
    PROVE  AloneStepped
<1>1. Seen' = [Seen EXCEPT ![w] = Alone!ExecIdle]
  BY SeenWorks, SeenIdle
<1>2. Seen[w].pc # "idle"
  BY SeenReads
<1>3. Alone!WorkerGone(w)
  BY <1>1, <1>2 DEF Alone!WorkerGone
<1> QED
  BY <1>3 DEF AloneStepped, Alone!HostNext, Alone!HostStep

\* An executor that goes on with its work.
LEMMA SeenStutters ==
    ASSUME HostOK, NEW w \in Workers, NEW e, exec' = [exec EXCEPT ![w] = e],
           AsSimulated(e) = AsSimulated(exec[w]), UNCHANGED <<status, attempt, owner>>
    PROVE  AloneStepped
<1>1. Seen' = Seen
  BY DEF Seen, HostOK, HostTypeOK
<1> QED
  BY <1>1 DEF AloneStepped

\* An executor that returns a result the worker will use.
LEMMA SeenReturns ==
    ASSUME HostOK, NEW w \in Workers, exec[w].pc = "lookup" \/ Within(exec[w]),
           ~exec[w].abandoned, NEW r \in Results, Outcome(w, r),
           UNCHANGED <<status, attempt, owner>>
    PROVE  AloneStepped
<1> DEFINE e == [exec[w] EXCEPT !.pc = "finalize", !.result = r]
<1>1. exec[w] \in ExecState
  BY DEF HostOK, HostTypeOK
<1>2. Seen' = [Seen EXCEPT ![w] = AsSimulated(e)]
  BY SeenWorks DEF Outcome
<1>3. AsSimulated(e) = [Seen[w] EXCEPT !.pc = "finalize", !.result = r]
  <2>1. /\ e.pc = "finalize" /\ e.result = r /\ e.job = exec[w].job
        /\ e.attempt = exec[w].attempt /\ e.abandoned = exec[w].abandoned
    BY <1>1 DEF ExecState
  <2> HIDE DEF e
  <2>2. ~Within(e)
    BY <2>1 DEF Within
  <2> DEFINE l == AsSimulated(e)
             s == AsSimulated(exec[w])
             x == [s EXCEPT !.pc = "finalize", !.result = r]
  <2>3. s = [k \in ExecKeys |-> s[k]] /\ l = [k \in ExecKeys |-> l[k]]
    BY DEF AsSimulated, ExecKeys
  <2>4. /\ l.pc = "finalize" /\ l.result = r /\ l.job = s.job /\ l.attempt = s.attempt
        /\ l.abandoned = s.abandoned /\ l.at = s.at
    BY <2>1, <2>2 DEF AsSimulated
  <2> HIDE DEF l, s
  <2>5. /\ x = [k \in ExecKeys |-> x[k]] /\ x.pc = "finalize" /\ x.result = r
        /\ x.job = s.job /\ x.attempt = s.attempt /\ x.at = s.at /\ x.abandoned = s.abandoned
    BY <2>3 DEF ExecKeys
  <2> HIDE DEF x
  <2>6. l = x
    BY <2>3, <2>4, <2>5, SameExec
  <2> QED
    BY <2>6, SeenReads DEF l, s, x
<1>4. Seen[w].pc = "lookup" /\ ~Seen[w].abandoned
  BY SeenReads
<1>5. Alone!Simulate(w)
  BY <1>2, <1>3, <1>4 DEF Alone!Simulate, Alone!Outcome, Alone!Results, Results
<1> QED
  BY <1>5 DEF AloneStepped, Alone!HostNext
\* claim is a StartAttempt of the host alone.
LEMMA AloneStarts ==
    ASSUME HostOK, NEW w \in Workers, NEW j \in Jobs, StartAttempt(w, j)
    PROVE  AloneStepped
<1>1. Seen[w].pc = "idle"
  BY SeenReads DEF StartAttempt, Within
<1>2. Seen' = [Seen EXCEPT ![w] = [Alone!ExecIdle EXCEPT !.pc = "claimed", !.job = j]]
  BY SeenWorks, SeenIdle DEF StartAttempt
<1>3. Alone!StartAttempt(w, j)
  BY <1>1, <1>2
  DEF StartAttempt, Start, Become, Alone!StartAttempt, Alone!Start, Alone!Become
<1> QED
  BY <1>3 DEF AloneStepped, Alone!HostNext, Alone!HostStep

\* Reading the attempt number back, before the executor begins.
LEMMA AloneReadsBack ==
    ASSUME HostOK, NEW w \in Workers, ReadBack(w)
    PROVE  AloneStepped
<1> DEFINE n == attempt[exec[w].job]
           e == [exec[w] EXCEPT !.pc = "lookup", !.attempt = n]
           l == AsSimulated(e)
           s == AsSimulated(exec[w])
           x == [s EXCEPT !.pc = "lookup", !.attempt = n]
<1>1. /\ exec[w] \in ExecState /\ exec[w].pc = "claimed"
      /\ exec' = [exec EXCEPT ![w] = e] /\ UNCHANGED <<status, attempt, owner>>
  BY DEF ReadBack, HostOK, HostTypeOK
<1>2. Seen' = [Seen EXCEPT ![w] = l]
  BY <1>1, SeenWorks
<1>3. ~Within(exec[w])
  BY <1>1 DEF Within
<1>4. /\ e.pc = "lookup" /\ e.attempt = n /\ e.job = exec[w].job
      /\ e.abandoned = exec[w].abandoned /\ e.result = exec[w].result
  BY <1>1 DEF ExecState
<1>5. s = [k \in ExecKeys |-> s[k]] /\ l = [k \in ExecKeys |-> l[k]]
  BY DEF AsSimulated, ExecKeys
<1> HIDE DEF e
<1>6. ~Within(e)
  BY <1>4 DEF Within
<1>7. /\ l.pc = "lookup" /\ l.attempt = n /\ l.job = s.job /\ l.result = s.result
      /\ l.abandoned = s.abandoned /\ l.at = s.at
  BY <1>1, <1>3, <1>4, <1>6 DEF AsSimulated
<1> HIDE DEF l, s, n
<1>8. /\ x = [k \in ExecKeys |-> x[k]] /\ x.pc = "lookup" /\ x.attempt = n
      /\ x.job = s.job /\ x.result = s.result /\ x.at = s.at /\ x.abandoned = s.abandoned
  BY <1>5 DEF ExecKeys
<1> HIDE DEF x
<1>9. l = x
  BY <1>5, <1>7, <1>8, SameExec
<1>10. Seen[w] = s /\ Seen[w].pc = "claimed" /\ n = attempt[Seen[w].job]
  BY <1>1, <1>3, SeenReads DEF s, n
<1>11. Alone!ReadBack(w)
  BY <1>1, <1>2, <1>9, <1>10 DEF Alone!ReadBack, x
<1> QED
  BY <1>11 DEF AloneStepped, Alone!HostNext, Alone!HostStep

\* The heartbeat thread is rejected while the executor is at work.
LEMMA AloneAbandons ==
    ASSUME HostOK, NEW w \in Workers, HeartbeatRejected(w)
    PROVE  AloneStepped
<1> DEFINE e == [exec[w] EXCEPT !.abandoned = TRUE]
           l == AsSimulated(e)
           s == AsSimulated(exec[w])
           x == [s EXCEPT !.abandoned = TRUE]
<1>1. /\ exec[w] \in ExecState /\ exec[w].pc \in {"lookup", "prepare", "stream", "close"}
      /\ ~exec[w].abandoned /\ ~Holds(w)
      /\ exec' = [exec EXCEPT ![w] = e] /\ UNCHANGED <<status, attempt, owner>>
  BY DEF HeartbeatRejected, HostOK, HostTypeOK
<1>2. Seen' = [Seen EXCEPT ![w] = l]
  BY <1>1, SeenWorks
<1>3. /\ e.pc = exec[w].pc /\ e.attempt = exec[w].attempt /\ e.job = exec[w].job
      /\ e.abandoned = TRUE /\ e.result = exec[w].result
  BY <1>1 DEF ExecState
<1>4. s = [k \in ExecKeys |-> s[k]] /\ l = [k \in ExecKeys |-> l[k]]
  BY DEF AsSimulated, ExecKeys
<1> HIDE DEF e
<1>5. Within(e) <=> Within(exec[w])
  BY <1>1, <1>3 DEF Within
<1>6. /\ l.pc = s.pc /\ l.attempt = s.attempt /\ l.job = s.job /\ l.result = s.result
      /\ l.abandoned = TRUE /\ l.at = s.at
  BY <1>1, <1>3, <1>5 DEF AsSimulated
<1>7. Seen[w] = s /\ Seen[w].pc = "lookup" /\ ~Seen[w].abandoned /\ ~Alone!Holds(w)
  BY <1>1, SeenReads DEF s, Within
<1> HIDE DEF l, s
<1>8. /\ x = [k \in ExecKeys |-> x[k]] /\ x.pc = s.pc /\ x.attempt = s.attempt
      /\ x.job = s.job /\ x.result = s.result /\ x.at = s.at /\ x.abandoned = TRUE
  BY <1>4 DEF ExecKeys
<1> HIDE DEF x
<1>9. l = x
  <2>1. /\ l.pc = x.pc /\ l.job = x.job /\ l.attempt = x.attempt /\ l.at = x.at
        /\ l.abandoned = x.abandoned /\ l.result = x.result
    BY <1>6, <1>8
  <2> QED
    BY <1>4, <1>8, <2>1, SameExec
<1>10. Alone!HeartbeatRejected(w)
  BY <1>1, <1>2, <1>7, <1>9 DEF Alone!HeartbeatRejected, x
<1> QED
  BY <1>10 DEF AloneStepped, Alone!HostNext, Alone!HostStep

\* finalize_attempt uses a result that was not returned in vain.
LEMMA AloneFinalizes ==
    ASSUME HostOK, NEW w \in Workers, FinalizeAttempt(w)
    PROVE  AloneStepped
<1>1. ~Within(exec[w])
  BY DEF FinalizeAttempt, Within
<1>2. /\ Seen[w].pc = "finalize" /\ ~Seen[w].abandoned /\ Alone!Holds(w)
      /\ Seen[w].job = exec[w].job /\ Seen[w].result = exec[w].result
  BY <1>1, SeenReads DEF FinalizeAttempt
<1>3. Seen' = [Seen EXCEPT ![w] = Alone!ExecIdle]
  BY SeenWorks, SeenIdle DEF FinalizeAttempt
<1>4. Alone!FinalizeAttempt(w)
  BY <1>2, <1>3
  DEF FinalizeAttempt, Retry, Become, Alone!FinalizeAttempt, Alone!Retry, Alone!Become
<1> QED
  BY <1>4 DEF AloneStepped, Alone!HostNext, Alone!HostStep

\* The two have one transition table.
LEMMA SameTable ==
    /\ Alone!Absent = Absent
    /\ Alone!Terminal = Terminal
    /\ \A to : Alone!sources_for(to) = sources_for(to)
BY DEF Absent, Terminal, sources_for, VALID_TRANSITIONS, Status, Alone!Absent, Alone!Terminal,
   Alone!sources_for, Alone!VALID_TRANSITIONS, Alone!Status

\* A step of the host is one of the host alone.
LEMMA AloneHost ==
    ASSUME HostOK, HostStep
    PROVE  AloneStepped
<1>1. ASSUME NEW j \in Jobs, Submit(j) \/ PatchRunning(j), UNCHANGED <<owner, exec>>
      PROVE  AloneStepped
  <2>1. Seen' = Seen
    BY <1>1 DEF Seen
  <2>2. Alone!Submit(j) \/ Alone!PatchRunning(j)
    BY <1>1, SameTable
    DEF Submit, PatchRunning, Become, Alone!Submit, Alone!PatchRunning, Alone!Become
  <2> QED
    BY <1>1, <2>1, <2>2 DEF AloneStepped, Alone!HostNext, Alone!HostStep
<1>2. ASSUME NEW j \in Jobs, Reclaim(j) PROVE AloneStepped
  <2>1. Seen' = Seen
    BY <1>2 DEF Seen, Reclaim
  <2>2. Alone!Reclaim(j)
    BY <1>2, <2>1 DEF Reclaim, Retry, Become, Alone!Reclaim, Alone!Retry, Alone!Become
  <2> QED
    BY <2>2 DEF AloneStepped, Alone!HostNext, Alone!HostStep
<1>3. ASSUME NEW j \in Jobs, ClientEnds(j) PROVE AloneStepped
  <2>1. Seen' = Seen
    BY <1>3 DEF Seen, ClientEnds
  <2>2. Alone!ClientEnds(j)
    BY <1>3, <2>1, SameTable DEF ClientEnds, Become, Alone!ClientEnds, Alone!Become
  <2> QED
    BY <2>2 DEF AloneStepped, Alone!HostNext, Alone!HostStep
<1>4. ASSUME NEW w \in Workers, WorkerGone(w) PROVE AloneStepped
  BY <1>4, SeenGone DEF WorkerGone
<1>5. ASSUME NEW w \in Workers, DropResult(w) PROVE AloneStepped
  BY <1>5, SeenGone DEF DropResult
<1> QED
  BY <1>1, <1>2, <1>3, <1>4, <1>5, AloneStarts, AloneReadsBack, AloneAbandons, AloneFinalizes
  DEF HostStep

\* What an executor has to keep to, for its job's sake: it leaves the job's row alone, and
\* gives its worker an outcome only at the end of its work.
ExecutorStep(w) ==
    /\ UNCHANGED <<status, attempt, owner>>
    /\ \/ UNCHANGED exec
       \/ exec[w].pc # "idle" /\ exec' = [exec EXCEPT ![w] = ExecIdle]
       \/ \E e : AsSimulated(e) = AsSimulated(exec[w]) /\ exec' = [exec EXCEPT ![w] = e]
       \/ /\ exec[w].pc = "lookup" \/ Within(exec[w])
          /\ ~exec[w].abandoned
          /\ \E r \in Results : Outcome(w, r)

LEMMA AloneExecutor ==
    ASSUME HostOK, NEW w \in Workers, ExecutorStep(w)
    PROVE  AloneStepped
<1>1. CASE UNCHANGED exec
  BY <1>1 DEF ExecutorStep, AloneStepped, Seen
<1>2. ASSUME NEW r \in Results, exec[w].pc = "lookup" \/ Within(exec[w]),
             ~exec[w].abandoned, Outcome(w, r)
      PROVE  AloneStepped
  BY <1>2, SeenReturns DEF ExecutorStep
<1> QED
  BY <1>1, <1>2, SeenGone, SeenStutters DEF ExecutorStep
\* An executor at work looks the same wherever it is.
LEMMA WorkLooksSame ==
    ASSUME NEW r, NEW e, r.pc = "lookup" \/ Within(r), e.pc = "lookup" \/ Within(e),
           e.job = r.job, e.attempt = r.attempt, e.abandoned = r.abandoned
    PROVE  AsSimulated(e) = AsSimulated(r)
BY DEF AsSimulated, Within

\* The steps the executors share.
LEMMA SharedSteps ==
    ASSUME HostOK, NEW w \in Workers
    PROVE  /\ \A pc \in {"prepare", "stream"} :
                 /\ exec[w].pc \in {"lookup", "prepare"} /\ GoOn(w, pc)
                 /\ UNCHANGED <<status, attempt, owner>>
                 => ExecutorStep(w)
           /\ NextEvent(w) /\ UNCHANGED <<status, attempt, owner>> => ExecutorStep(w)
           /\ StreamStep(w) => ExecutorStep(w)
           /\ Simulate(w) => ExecutorStep(w)
<1>1. exec[w] \in ExecState
  BY DEF HostOK, HostTypeOK
<1>2. ASSUME exec[w].pc \in {"lookup", "prepare"}, NEW pc \in {"prepare", "stream"},
             GoOn(w, pc), UNCHANGED <<status, attempt, owner>>
      PROVE  ExecutorStep(w)
  <2> DEFINE e == [exec[w] EXCEPT !.pc = pc]
  <2>1. /\ e.pc = pc /\ e.job = exec[w].job /\ e.attempt = exec[w].attempt
        /\ e.abandoned = exec[w].abandoned /\ exec' = [exec EXCEPT ![w] = e]
    BY <1>1, <1>2 DEF GoOn, ExecState
  <2> HIDE DEF e
  <2>2. AsSimulated(e) = AsSimulated(exec[w])
    BY <1>2, <2>1, WorkLooksSame DEF Within
  <2> QED
    BY <1>2, <2>1, <2>2 DEF ExecutorStep
<1>3. ASSUME NextEvent(w), UNCHANGED <<status, attempt, owner>> PROVE ExecutorStep(w)
  <2> DEFINE e == [exec[w] EXCEPT !.at = exec[w].at + 1]
  <2>1. /\ e.pc = "stream" /\ e.job = exec[w].job /\ e.attempt = exec[w].attempt
        /\ e.abandoned = exec[w].abandoned /\ exec' = [exec EXCEPT ![w] = e]
        /\ exec[w].pc = "stream"
    BY <1>1, <1>3 DEF NextEvent, ExecState
  <2> HIDE DEF e
  <2>2. AsSimulated(e) = AsSimulated(exec[w])
    BY <2>1, WorkLooksSame DEF Within
  <2> QED
    BY <1>3, <2>1, <2>2 DEF ExecutorStep
<1>4. ASSUME StreamEnds(w), UNCHANGED <<status, attempt, owner>> PROVE ExecutorStep(w)
  <2>1. PICK r : exec' = [exec EXCEPT ![w] = [@ EXCEPT !.pc = "close", !.result = r]]
    BY <1>4 DEF StreamEnds
  <2> DEFINE e == [exec[w] EXCEPT !.pc = "close", !.result = r]
  <2>2. /\ e.pc = "close" /\ e.job = exec[w].job /\ e.attempt = exec[w].attempt
        /\ e.abandoned = exec[w].abandoned /\ exec' = [exec EXCEPT ![w] = e]
        /\ exec[w].pc = "stream"
    BY <1>1, <1>4, <2>1 DEF StreamEnds, ExecState
  <2> HIDE DEF e
  <2>3. AsSimulated(e) = AsSimulated(exec[w])
    BY <2>2, WorkLooksSame DEF Within
  <2> QED
    BY <1>4, <2>2, <2>3 DEF ExecutorStep
<1>5. ASSUME FencedOut(w), UNCHANGED <<status, attempt, owner>> PROVE ExecutorStep(w)
  BY <1>5 DEF FencedOut, ExecutorStep
<1>6. Simulate(w) => ExecutorStep(w)
  BY DEF Simulate, ExecutorStep
<1> QED
  BY <1>2, <1>3, <1>4, <1>5, <1>6 DEF StreamStep
\* A result returned after the heartbeat was rejected changes nothing.
LEMMA AnyOutcome ==
    ASSUME HostOK, NEW w \in Workers, NEW r \in Results, Outcome(w, r),
           exec[w].pc = "lookup" \/ Within(exec[w]), UNCHANGED <<status, attempt, owner>>
    PROVE  ExecutorStep(w)
<1>1. exec[w] \in ExecState
  BY DEF HostOK, HostTypeOK
<1>2. CASE exec[w].abandoned
  <2> DEFINE e == [exec[w] EXCEPT !.pc = "finalize", !.result = r]
  <2>1. /\ e.pc = "finalize" /\ e.job = exec[w].job /\ e.attempt = exec[w].attempt
        /\ e.abandoned = exec[w].abandoned /\ exec' = [exec EXCEPT ![w] = e]
    BY <1>1 DEF Outcome, ExecState
  <2> HIDE DEF e
  <2>2. AsSimulated(e) = AsSimulated(exec[w])
    BY <1>2, <2>1, WorkLooksSame DEF Within
  <2> QED
    BY <2>1, <2>2 DEF ExecutorStep
<1>3. CASE ~exec[w].abandoned
  BY <1>3 DEF ExecutorStep
<1> QED
  BY <1>2, <1>3
-----------------------------------------------------------------------------
(* The host implements the life cycle *)

LEMMA HostLife ==
    ASSUME HostOK, HostStep
    PROVE  LifeNext \/ UNCHANGED lifeVars
<1>1. ASSUME NEW j \in Jobs, Submit(j) \/ PatchRunning(j) PROVE LifeNext
  BY <1>1 DEF LifeNext
<1>2. ASSUME NEW j \in Jobs, status[j] = "RUNNING", NEW to \in {"SUCCEEDED", "FAILED", "CANCELLED"},
             Become(j, to), UNCHANGED attempt
      PROVE  LifeNext
  <2>1. to \in Terminal /\ status[j] \in sources_for(to)
    BY <1>2, HostSources
  <2> QED
    BY <1>2, <2>1 DEF LifeNext, Finish
<1>3. ASSUME NEW j \in Jobs, Reclaim(j) PROVE LifeNext
  BY <1>2, <1>3 DEF Reclaim, LifeNext
<1>4. ASSUME NEW j \in Jobs, ClientEnds(j) PROVE LifeNext
  BY <1>4, HostSources DEF ClientEnds, LifeNext, Finish
<1>5. ASSUME NEW w \in Workers, NEW j \in Jobs, StartAttempt(w, j) PROVE LifeNext
  BY <1>5 DEF StartAttempt, LifeNext
<1>6. ASSUME NEW w \in Workers, FinalizeAttempt(w) PROVE LifeNext
  <2>1. exec[w].job \in Jobs /\ status[exec[w].job] = "RUNNING"
    BY <1>6 DEF FinalizeAttempt, Holds, HostOK
  <2> QED
    BY <1>2, <1>6, <2>1 DEF FinalizeAttempt, LifeNext
<1>7. ASSUME NEW w \in Workers,
             ReadBack(w) \/ HeartbeatRejected(w) \/ DropResult(w) \/ WorkerGone(w)
      PROVE  UNCHANGED lifeVars
  BY <1>7 DEF ReadBack, HeartbeatRejected, DropResult, WorkerGone, lifeVars
<1> QED
  BY <1>1, <1>3, <1>4, <1>5, <1>6, <1>7 DEF HostStep

\* A simulated execution concerns its worker alone.
LEMMA SimulateOK ==
    ASSUME HostOK, NEW w \in Workers, Simulate(w)
    PROVE  HostOK' /\ UNCHANGED lifeVars
<1>1. PICK r \in Results : Outcome(w, r)
  BY DEF Simulate
<1> DEFINE e == [exec[w] EXCEPT !.pc = "finalize", !.result = r]
<1>2. e \in ExecState /\ e.pc = "finalize" /\ e.job = exec[w].job
  BY DEF HostOK, HostTypeOK, ExecState
<1>3. exec' = [exec EXCEPT ![w] = e] /\ exec[w].job \in Jobs
  BY <1>1 DEF Outcome, Simulate, HostOK
<1>4. UNCHANGED <<status, attempt, owner>>
  BY DEF Simulate
<1> HIDE DEF e
<1> QED
  BY <1>2, <1>3, <1>4, ExecutorOK DEF lifeVars

\* With workers, leases and fencing around it, a job still lives as JobLifecycle says, and
\* no attempt past the retry bound is started (claim, finalize_attempt, reclaim_stale).
THEOREM HostFollowsLifecycle == HostSpec => LifeSpec
<1>1. HostInit => LifeInit
  BY DEF HostInit
<1>2. HostOK /\ [HostNext]_hostVars => HostOK'
  BY HostStepOK, SimulateOK DEF HostNext, hostVars, HostOK, HostTypeOK
<1>3. HostOK /\ [HostNext]_hostVars => [LifeNext]_lifeVars
  BY HostLife, SimulateOK DEF HostNext, hostVars, lifeVars
<1> QED
  BY <1>1, <1>2, <1>3, HostOKInit, PTL DEF HostSpec, LifeSpec
=============================================================================
