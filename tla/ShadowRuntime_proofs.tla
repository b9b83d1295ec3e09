------------------------ MODULE ShadowRuntime_proofs ------------------------
(***************************************************************************)
(* What holds of every shadow run, however many agents it asks and whatever *)
(* their processes do.                                                     *)
(*                                                                         *)
(* The steps of the group, the deadline and the adapter's pump leave the   *)
(* runner's books alone; the runner's own steps keep them in the order     *)
(* Booked states: an invocation is begun with as many verified logs as     *)
(* agents have answered, and a run without an error has skipped nothing.   *)
(***************************************************************************)
EXTENDS ShadowRuntime, SequenceTheorems, TLAPS

Asking == {"invoke", "pump", "wait", "log"}

Even == run.verified = Len(run.past) /\ run.logs = Len(run.past)

(* The invocations on record, and what a run without an error has done. *)
Booked ==
  /\ run.at \in Asking => HasAdapter /\ Even
  /\ run.at \in Asking \cup {"judge"} => ~AllAsked
  /\ run.at \in {"next", "judge"} /\ setup.live =>
       IF run.at = "next" THEN Even
       ELSE run.verified = Len(run.past) + 1 /\ run.logs = run.verified
  /\ ErrorsOf(setup) \subseteq run.errors
  /\ run.at = "over" /\ run.errors = {} /\ setup.live => Even
  /\ run.errors = {} => \A n \in 1 .. Len(run.past) :
                          run.past[n].status = "completed" /\ ~run.past[n].errors

IInv ==
  /\ TypeOK
  /\ NoneLeftRunning
  /\ Booked
  /\ report # None => run.at \in {"reported", "raised"}
  /\ ReportIsAccepted
  /\ ContinueIsEarned

-----------------------------------------------------------------------------

Groups ==
  [leader : {"none", "running", "exited"}, kid : BOOLEAN,
   leaderHolds : SUBSET Outputs, kidHolds : SUBSET Outputs,
   said : Answers \cup {Garbage}, code : {0, 1}, open : SUBSET (Outputs \cup {"stdin"})]

Runs ==
  [at : Final \cup {"next", "invoke", "pump", "wait", "log", "judge", "over"},
   errors : SUBSET Errors, past : Seq(Answers), result : Answers \cup {Garbage},
   failure : Failures, logs : Nat, verified : Nat, attempted : BOOLEAN, invoked : BOOLEAN]

(* No process and no stream is left in a group that is gone. *)
LEMMA GoneType ==
  /\ Gone \in Groups /\ Gone.leader = "none" /\ ~Gone.kid /\ Gone.open = {}
  /\ Started \in Groups
BY DEF Gone, Started, Groups, Outputs

(* Steps that leave the runner's books alone, and start nothing. *)
LEMMA GroupSteps ==
  ASSUME IInv, UNCHANGED <<setup, run, report>>, late' \in BOOLEAN, group' \in Groups,
         Alive' => Alive, group'.open \subseteq group.open
  PROVE  IInv'
<1>1. TypeOK'
  BY DEF IInv, TypeOK, Groups
<1>2. NoneLeftRunning'
  BY DEF IInv, NoneLeftRunning
<1>3. Booked'
  BY DEF IInv, Booked, Even, AllAsked, HasAdapter
<1>4. (report # None => run.at \in {"reported", "raised"})' /\ ReportIsAccepted'
  BY DEF IInv, ReportIsAccepted
<1>5. ContinueIsEarned'
  BY DEF IInv, ContinueIsEarned, AllAsked, HasAdapter
<1> QED BY <1>1, <1>2, <1>3, <1>4, <1>5 DEF IInv

(* What the processes do among themselves, the end of a stream, and time. *)
LEMMA Surroundings ==
  ASSUME IInv, GroupStep \/ FeedPrompt \/ BrokenPipe \/ ReadEnd \/ PassDeadline
  PROVE  IInv'
<1>1. group \in Groups /\ late \in BOOLEAN
  BY DEF IInv, TypeOK, Groups
<1>2. CASE Fork
  BY <1>1, <1>2, GroupSteps DEF Fork, Acts, Groups, Alive
<1>3. CASE LetGo
  <2>1. PICK stream \in Outputs :
          \/ Acts([group EXCEPT !.leaderHolds = @ \ {stream}])
          \/ Acts([group EXCEPT !.kidHolds = @ \ {stream}])
    BY <1>3 DEF LetGo
  <2> QED BY <1>1, <2>1, GroupSteps DEF Acts, Groups, Alive
<1>4. CASE Say
  BY <1>1, <1>4, GroupSteps DEF Say, Acts, Groups, Alive
<1>5. CASE ExitLeader
  BY <1>1, <1>5, GroupSteps DEF ExitLeader, Acts, Groups, Alive
<1>6. CASE ExitKid
  BY <1>1, <1>6, GroupSteps DEF ExitKid, Acts, Groups, Alive
<1>7. ASSUME NEW stream, Closes(stream) PROVE IInv'
  BY <1>1, <1>7, GroupSteps DEF Closes, Groups, Alive
<1>8. CASE PassDeadline
  BY <1>1, <1>8, GroupSteps DEF PassDeadline, Alive
<1> QED BY <1>2, <1>3, <1>4, <1>5, <1>6, <1>7, <1>8
        DEF GroupStep, FeedPrompt, BrokenPipe, ReadEnd

(* A step of the runner before the report, shown in its parts. *)
LEMMA RunnerSteps ==
  ASSUME IInv, UNCHANGED <<setup, late, report>>, report = None,
         run' \in Runs, group' \in Groups,
         group'.open # {} => run'.at \in {"pump", "stopped"},
         Len(run'.past) <= Len(Agents),
         setup.live => run'.verified \in {Len(run'.past), Len(run'.past) + 1},
         run'.logs \in {run'.verified, run'.verified + 1},
         NoneLeftRunning', Booked'
  PROVE  IInv'
<1>1. TypeOK'
  BY DEF IInv, TypeOK, Groups, Runs
<1>2. (report # None => run.at \in {"reported", "raised"})' /\ ReportIsAccepted' /\ ContinueIsEarned'
  BY DEF ReportIsAccepted, ContinueIsEarned
<1> QED BY <1>1, <1>2 DEF IInv

(* What a step leaves of the books. *)
Same == run'.past = run.past /\ run'.logs = run.logs /\ run'.verified = run.verified

Stays == {"next", "invoke", "pump", "wait", "log", "judge", "over"} \cup Final

(* The runner goes on, ends with an error, or notes a failure of the agent. *)
LEMMA Going ==
  ASSUME run \in Runs, NEW at \in Stays, Goes(at)
  PROVE  run' \in Runs /\ run'.at = at /\ run'.errors = run.errors /\ Same
BY DEF Goes, Runs, Same, Stays

LEMMA Breaking ==
  ASSUME run \in Runs, NEW error \in Errors, Breaks(error)
  PROVE  /\ run' \in Runs /\ run'.at = "over" /\ Same
         /\ run.errors \subseteq run'.errors /\ run'.errors # {}
<1> DEFINE errors == run.errors \cup {error}
<1>1. errors \in SUBSET Errors /\ run.errors \subseteq errors /\ errors # {}
  BY DEF Runs
<1>2. run' = [run EXCEPT !.at = "over", !.errors = errors]
  BY DEF Breaks
<1> HIDE DEF errors
<1> QED BY <1>1, <1>2 DEF Runs, Same

LEMMA Failing ==
  ASSUME run \in Runs, NEW failure \in Failures, Fails(failure)
  PROVE  run' \in Runs /\ run'.at = "log" /\ run'.errors = run.errors /\ Same
BY DEF Fails, Runs, Same

LEMMA Collecting ==
  ASSUME run \in Runs, group \in Groups, Collect
  PROVE  run' \in Runs /\ run'.at = "log" /\ run'.errors = run.errors /\ Same
<1>1. group.said \in Answers \cup {Garbage}
  BY DEF Groups
<1>2. CASE group.code = 0
  <2>1. run' = [run EXCEPT !.at = "log", !.result = group.said, !.failure = None]
    BY <1>2 DEF Collect
  <2>2. None \in Failures
    BY DEF Failures
  <2> QED BY <1>1, <2>1, <2>2 DEF Runs, Same
<1>3. CASE group.code # 0
  BY <1>3, Failing DEF Collect, Failures
<1> QED BY <1>2, <1>3

(* Before it has reported the runner has no report. *)
LEMMA NoReportYet ==
  ASSUME IInv, run.at \notin Final
  PROVE  report = None
BY DEF IInv, Final

(* Asking an agent: the loop, the adapter up to its evidence, and the end  *)
(* of a run from outside.                                                  *)
LEMMA AskingKeeps ==
  ASSUME IInv,
         \/ EndLoop \/ NextAgent \/ Simulate \/ Refuse \/ Raise \/ Spawn \/ TimeOut \/ Overflow
         \/ Drained \/ Collect \/ StopRunner
  PROVE  IInv'
<1>1. group \in Groups /\ run \in Runs
  BY DEF IInv, TypeOK, Groups, Runs
<1>2. run.at \notin Final /\ UNCHANGED <<setup, late, report>>
  BY DEF EndLoop, NextAgent, Simulate, Refuse, Raise, Spawn, TimeOut, Overflow, Kill,
         Drained, Collect, StopRunner, Final
<1>3. run' \in Runs /\ Same /\ run.errors \subseteq run'.errors
  <2>1. CASE EndLoop \/ Raise \/ Spawn \/ Drained \/ StopRunner
    BY <1>1, <2>1, Going DEF EndLoop, Raise, Spawn, Drained, StopRunner, Stays, Final
  <2>2. CASE NextAgent
    <3>1. CASE late
      BY <1>1, <2>2, <3>1, Breaking DEF NextAgent, Errors, Failures
    <3>2. CASE ~late
      BY <1>1, <2>2, <3>2, Going DEF NextAgent, Stays
    <3> QED BY <3>1, <3>2
  <2>3. CASE Simulate
    BY <1>1, <2>3 DEF Simulate, Runs, Final, Failures, Same
  <2>4. CASE Refuse
    BY <1>1, <2>4, Failing DEF Refuse, Failures
  <2>5. CASE TimeOut \/ Overflow
    BY <1>1, <2>5, Failing DEF TimeOut, Overflow, Kill, Failures
  <2>6. CASE Collect
    BY <1>1, <2>6, Collecting
  <2> QED BY <2>1, <2>2, <2>3, <2>4, <2>5, <2>6
<1>4. /\ group' \in Groups
      /\ group'.open # {} => run'.at \in {"pump", "stopped"}
      /\ NoneLeftRunning'
  <2>1. group.open # {} => run.at \in {"pump", "stopped"}
    BY DEF IInv, TypeOK
  <2>2. Alive => run.at \in {"pump", "wait", "stopped"}
    BY DEF IInv, NoneLeftRunning
  <2>3. CASE EndLoop \/ NextAgent \/ Simulate \/ Refuse \/ Raise
    BY <1>1, <2>1, <2>2, <2>3
       DEF EndLoop, NextAgent, Simulate, Refuse, Raise, Goes, Breaks, Fails, NoneLeftRunning, Alive, Runs
  <2>4. CASE Spawn
    BY <1>1, <2>4, GoneType DEF Spawn, Goes, NoneLeftRunning, Runs
  <2>5. CASE TimeOut \/ Overflow \/ Collect
    BY <1>1, <2>5, GoneType DEF TimeOut, Overflow, Kill, Collect, NoneLeftRunning, Alive
  <2>6. CASE Drained
    BY <1>1, <2>6 DEF Drained, Goes, NoneLeftRunning, Runs
  <2>7. CASE StopRunner
    BY <1>1, <2>7 DEF StopRunner, Goes, NoneLeftRunning, Runs
  <2> QED BY <2>3, <2>4, <2>5, <2>6, <2>7
<1>5. AllAsked' = AllAsked /\ HasAdapter' = HasAdapter /\ Even' = Even
  BY <1>2, <1>3 DEF AllAsked, HasAdapter, Even, Same
<1>6. (run.errors = {} => \A n \in 1 .. Len(run.past) :
                             run.past[n].status = "completed" /\ ~run.past[n].errors)'
      /\ (ErrorsOf(setup) \subseteq run.errors)'
  <2>1. \/ run.errors # {}
        \/ \A n \in 1 .. Len(run.past) : run.past[n].status = "completed" /\ ~run.past[n].errors
    BY DEF IInv, Booked
  <2>2. ErrorsOf(setup) \subseteq run.errors
    BY DEF IInv, Booked
  <2> QED BY <1>2, <1>3, <2>1, <2>2 DEF Same
<1>7. /\ run'.at \in Asking => HasAdapter /\ Even
      /\ run'.at \in Asking \cup {"judge"} => ~AllAsked
      /\ run'.at \in {"next", "judge"} => run'.at = "judge" /\ ~setup.live
      /\ run'.at = "over" /\ run'.errors = {} /\ setup.live => Even
  <2>1. CASE EndLoop
    BY <1>1, <2>1 DEF EndLoop, Goes, Runs, Asking, IInv, Booked
  <2>2. CASE NextAgent
    <3>1. setup.live /\ Even /\ ~AllAsked
      BY <2>2 DEF NextAgent, HasAdapter, IInv, Booked
    <3>2. CASE late
      <4>1. run'.at = "over" /\ run'.errors # {}
        BY <1>1, <2>2, <3>2, Breaking DEF NextAgent, Errors, Failures
      <4> QED BY <4>1 DEF Asking
    <3>3. CASE ~late
      <4>1. run'.at = "invoke"
        BY <1>1, <2>2, <3>3, Going DEF NextAgent, Stays
      <4>2. HasAdapter
        BY <2>2 DEF NextAgent
      <4>3. run'.at \notin {"next", "judge"} /\ run'.at # "over"
        BY <4>1
      <4> QED BY <3>1, <4>2, <4>3
    <3> QED BY <3>2, <3>3
  <2>3. CASE Simulate
    BY <1>1, <2>3 DEF Simulate, Runs, Asking
  <2>4. CASE Refuse \/ Spawn \/ TimeOut \/ Overflow \/ Drained \/ Collect
    <3>1. run.at \in Asking /\ run'.at \in Asking
      <4>1. CASE Spawn \/ Drained
        BY <1>1, <4>1, Going DEF Spawn, Drained, Asking, Stays
      <4>2. CASE Refuse \/ TimeOut \/ Overflow
        BY <1>1, <4>2, Failing DEF Refuse, TimeOut, Overflow, Kill, Failures, Asking
      <4>3. CASE Collect
        BY <1>1, <4>3, Collecting DEF Collect, Asking
      <4> QED BY <2>4, <4>1, <4>2, <4>3
    <3> QED BY <3>1 DEF IInv, Booked, Asking
  <2>5. CASE Raise \/ StopRunner
    BY <1>1, <2>5 DEF Raise, StopRunner, Goes, Runs, Asking
  <2> QED BY <2>1, <2>2, <2>3, <2>4, <2>5
<1>8. Booked'
  BY <1>2, <1>5, <1>6, <1>7 DEF Booked
<1>9. /\ Len(run.past) <= Len(Agents)
      /\ setup.live => run.verified \in {Len(run.past), Len(run.past) + 1}
      /\ run.logs \in {run.verified, run.verified + 1}
  BY DEF IInv, TypeOK
<1> QED BY <1>2, <1>3, <1>4, <1>8, <1>9, NoReportYet, RunnerSteps DEF Same

(* The evidence of an invocation, and what the runner makes of its answer. *)
LEMMA JudgingKeeps ==
  ASSUME IInv, WriteLog \/ Reject \/ AcceptStage
  PROVE  IInv'
<1>1. group \in Groups /\ run \in Runs
  BY DEF IInv, TypeOK, Groups, Runs
<1>2. /\ run.at \in {"log", "judge"} /\ UNCHANGED <<setup, late, group, report>>
      /\ run'.at \in {"judge", "next", "over"}
  BY <1>1 DEF WriteLog, Reject, AcceptStage, Breaks, Runs
<1>3. group' \in Groups /\ group'.open = {} /\ NoneLeftRunning'
  BY <1>1, <1>2 DEF IInv, TypeOK, NoneLeftRunning, Alive
<1>4. ~AllAsked /\ Len(run.past) \in Nat /\ Len(Agents) \in Nat /\ Len(run.past) <= Len(Agents)
  BY <1>1, <1>2, AgentsAssumption DEF IInv, Booked, Asking, TypeOK, Runs
<1>5. Len(run.past) < Len(Agents)
  BY <1>4 DEF AllAsked
<1>6. ErrorsOf(setup) \subseteq run.errors
      /\ (run.errors = {} => \A n \in 1 .. Len(run.past) :
                               run.past[n].status = "completed" /\ ~run.past[n].errors)
  BY DEF IInv, Booked
<1>7. /\ run.logs \in Nat /\ run.verified \in Nat
      /\ setup.live => run.verified \in {Len(run.past), Len(run.past) + 1}
      /\ run.logs \in {run.verified, run.verified + 1}
  BY DEF IInv, TypeOK
<1>8. CASE WriteLog
  <2>1. PICK intact \in BOOLEAN :
          run' = [run EXCEPT
                    !.at = IF intact THEN "judge" ELSE "over",
                    !.logs = @ + 1,
                    !.verified = IF intact THEN @ + 1 ELSE @,
                    !.attempted = IF intact THEN run.failure \notin {"sbx_unavailable", "runtime_timeout",
                                                                     "runtime_version_unavailable"}
                                  ELSE @,
                    !.errors = IF intact THEN @ ELSE @ \cup {"runtime_logs_unverified"}]
    BY <1>8 DEF WriteLog
  <2>2. run' \in Runs
    <3> DEFINE logs == run.logs + 1
               verified == IF intact THEN run.verified + 1 ELSE run.verified
               attempted == IF intact
                            THEN run.failure \notin {"sbx_unavailable", "runtime_timeout",
                                                     "runtime_version_unavailable"}
                            ELSE run.attempted
               errors == IF intact THEN run.errors ELSE run.errors \cup {"runtime_logs_unverified"}
               at == IF intact THEN "judge" ELSE "over"
    <3>1. logs \in Nat /\ verified \in Nat /\ at \in Stays
      BY <1>7 DEF Stays
    <3>2. attempted \in BOOLEAN
      BY <1>1 DEF Runs
    <3>3. errors \in SUBSET Errors
      BY <1>1 DEF Runs, Errors
    <3>4. run' = [run EXCEPT !.at = at, !.logs = logs, !.verified = verified,
                             !.attempted = attempted, !.errors = errors]
      BY <2>1
    <3> HIDE DEF logs, verified, attempted, errors, at
    <3> QED BY <1>1, <3>1, <3>2, <3>3, <3>4 DEF Runs, Stays
  <2>3. HasAdapter /\ Even
    BY <1>8 DEF WriteLog, IInv, Booked, Asking
  <2>4. /\ run'.past = run.past /\ run'.logs = run.logs + 1
        /\ run'.at = "judge" => run'.verified = run.verified + 1
        /\ run'.at # "judge" => run'.verified = run.verified /\ run'.errors # {}
        /\ run.errors \subseteq run'.errors /\ run'.at # "next"
    BY <1>1, <2>1 DEF Runs
  <2>5. Booked'
    BY <1>2, <1>4, <1>6, <1>7, <2>3, <2>4 DEF Booked, Even, AllAsked, HasAdapter, Asking
  <2>6. /\ Len(run'.past) <= Len(Agents)
        /\ run'.verified \in {Len(run'.past), Len(run'.past) + 1}
        /\ run'.logs \in {run'.verified, run'.verified + 1}
    BY <1>2, <1>4, <1>7, <2>3, <2>4 DEF Even
  <2> QED BY <1>2, <1>3, <1>8, <2>2, <2>5, <2>6, NoReportYet, RunnerSteps DEF WriteLog, Final
<1>9. CASE Reject
  <2>1. /\ run'.past = run.past /\ run'.logs = run.logs /\ run'.verified = run.verified
        /\ run'.at = "over" /\ run'.errors # {} /\ run.errors \subseteq run'.errors
        /\ run' \in Runs
    BY <1>1, <1>9 DEF Reject, Breaks, Runs, Errors, Failures
  <2>2. Booked'
    BY <1>2, <1>6, <2>1 DEF Booked, Even, AllAsked, HasAdapter, Asking
  <2> QED BY <1>2, <1>3, <1>4, <1>7, <1>9, <2>1, <2>2, NoReportYet, RunnerSteps DEF Reject, Final
<1>10. CASE AcceptStage
  <2> DEFINE stage == run.result
             ended == EndedBy(stage)
             past == Append(run.past, stage)
             errors == run.errors \cup ended \cup IF stage.errors THEN {"agent_error"} ELSE {}
             at == IF ended = {} THEN "next" ELSE "over"
  <2>1. stage \in Answers /\ run.at = "judge"
    BY <1>1, <1>10 DEF AcceptStage, IsStage, Runs
  <2>2. stage \in Stage
    BY <2>1, AnswersAssumption
  <2>3. /\ ended \subseteq {"stage_blocked", "stage_failed"}
        /\ ended = {} => stage.status = "completed"
    BY DEF EndedBy
  <2>4. /\ run.past \in Seq(Answers) /\ past \in Seq(Answers) /\ Len(past) = Len(run.past) + 1
        /\ \A n \in 1 .. Len(run.past) : past[n] = run.past[n]
        /\ past[Len(past)] = stage
    BY <1>1, <2>1 DEF Runs
  <2>5. run' = [run EXCEPT !.at = at, !.past = past, !.invoked = setup.live, !.result = Garbage,
                           !.errors = errors]
    BY <1>10 DEF AcceptStage
  <2>6. setup.live \in BOOLEAN
    BY SetupsAssumption DEF IInv, TypeOK, Setup
  <2>7. errors \in SUBSET Errors /\ run.errors \subseteq errors
        /\ (errors = {} => ended = {} /\ ~stage.errors)
    BY <1>1, <2>3 DEF Runs, Errors
  <2> HIDE DEF past, ended, errors, stage
  <2>8. run' \in Runs /\ run'.past = past /\ run'.errors = errors /\ run'.at = at
        /\ run'.logs = run.logs /\ run'.verified = run.verified
    BY <1>1, <2>4, <2>5, <2>6, <2>7 DEF Runs
  <2>9. run'.at \in {"next", "over"} /\ (errors = {} => at = "next")
    BY <2>7, <2>8
  <2>10. setup.live => run.verified = Len(past) /\ run.logs = Len(past)
    BY <2>1, <2>4 DEF IInv, Booked
  <2>11. errors = {} => \A n \in 1 .. Len(past) : past[n].status = "completed" /\ ~past[n].errors
    <3> SUFFICES ASSUME errors = {}, NEW n \in 1 .. Len(past)
                 PROVE  past[n].status = "completed" /\ ~past[n].errors
      OBVIOUS
    <3>1. CASE n = Len(past)
      BY <2>3, <2>4, <2>7, <3>1
    <3>2. CASE n # Len(past)
      <4>1. n \in 1 .. Len(run.past)
        BY <1>4, <2>4, <3>2
      <4> QED BY <1>6, <2>4, <2>7, <4>1
    <3> QED BY <3>1, <3>2
  <2>12. Booked'
    BY <1>2, <1>6, <2>7, <2>8, <2>9, <2>10, <2>11 DEF Booked, Even, AllAsked, HasAdapter, Asking
  <2>13. /\ Len(run'.past) <= Len(Agents)
         /\ setup.live => run'.verified \in {Len(run'.past), Len(run'.past) + 1}
         /\ run'.logs \in {run'.verified, run'.verified + 1}
    BY <1>4, <1>5, <1>7, <2>4, <2>8, <2>10
  <2> QED BY <1>2, <1>3, <2>1, <2>8, <2>12, <2>13, NoReportYet, RunnerSteps DEF Final
<1> QED BY <1>8, <1>9, <1>10

(* The rules of the report, and the ones it is accepted by, agree.          *)
LEMMA BuiltAccepted ==
  ASSUME NEW errors
  PROVE  Accepts(Built(errors))
<1>1. IsMissing \in BOOLEAN /\ IsChanged \in BOOLEAN /\ Findings \in BOOLEAN
  BY DEF IsMissing, IsChanged, Findings
<1>2. ASSUME NEW compatible \in BOOLEAN, NEW missing \in BOOLEAN, NEW changed \in BOOLEAN,
             NEW findings \in BOOLEAN, NEW differences,
             compatible <=> differences = {} /\ errors = {}
      PROVE  Accepts([compatible |-> compatible, differences |-> differences, errors |-> errors,
                      missing |-> missing, changed |-> changed, findings |-> findings,
                      recommendation |-> Recommendation(compatible, errors, missing, changed, findings)])
  BY <1>2 DEF Accepts, Recommendation
<1> QED BY <1>1, <1>2 DEF Built

(* A report to continue is one of a run that has earned it. *)
LEMMA Earned ==
  ASSUME IInv, WriteReport, report'.recommendation = "continue"
  PROVE  ContinueIsEarned'
<1> DEFINE simulation == IF setup.live THEN {} ELSE {"simulation_only"}
           errors == run.errors \cup simulation \cup Unseen
<1>1. run \in Runs /\ setup \in Setup /\ Len(run.past) \in Nat
  BY SetupsAssumption DEF IInv, TypeOK, Runs
<1>2. /\ run.at = "over" /\ report' = Built(errors) /\ UNCHANGED <<setup, late, group>>
      /\ run'.past = run.past /\ run'.logs = run.logs /\ run'.verified = run.verified
  BY <1>1 DEF WriteReport, Runs
<1>3. Recommendation(Differences = {} /\ errors = {}, errors, IsMissing, IsChanged, Findings) = "continue"
  BY <1>2 DEF Built
<1>4. errors = {} /\ ~Findings /\ Differences = {} /\ ~IsMissing /\ ~IsChanged
  BY <1>3 DEF Recommendation
<1>5. run.errors = {} /\ setup.live
  BY <1>4
<1>6. HasAdapter /\ setup.captured /\ ~setup.noted
  <2>1. ErrorsOf(setup) = {}
    BY <1>5 DEF IInv, Booked
  <2>2. ~(~setup.captured) /\ ~setup.noted /\ setup.key /\ ~(setup.key /\ ~setup.dir)
    <3>1. \A e \in ErrorNames : ~(setup.live /\
             CASE e = "authoritative_capture_missing" -> ~setup.captured
               [] e = "authoritative_error" -> setup.noted
               [] e = "credential_missing" -> ~setup.key
               [] e = "runtime_output_dir_missing" -> setup.key /\ ~setup.dir)
      BY <2>1 DEF ErrorsOf
    <3> QED BY <1>1, <1>5, <3>1 DEF ErrorNames, Setup
  <2> QED BY <1>5, <2>2 DEF HasAdapter
<1>7. Even
  BY <1>2, <1>5 DEF IInv, Booked
<1>8. AllAsked /\ \A n \in 1 .. Len(run.past) : ~run.past[n].differs
  <2>1. \A k \in 1 .. Len(Agents) : ~(k > Len(run.past) \/ run.past[k].differs)
    BY <1>4 DEF Differences
  <2>2. Len(Agents) \in Nat /\ Len(run.past) <= Len(Agents)
    BY AgentsAssumption DEF IInv, TypeOK
  <2>3. Len(run.past) = Len(Agents)
    <3>1. CASE Len(run.past) < Len(Agents)
      <4>1. Len(Agents) \in 1 .. Len(Agents)
        BY <1>1, <2>2, <3>1
      <4> QED BY <1>1, <2>1, <2>2, <3>1, <4>1
    <3> QED BY <1>1, <2>2, <3>1
  <2> QED BY <2>1, <2>3 DEF AllAsked
<1>9. ASSUME NEW n \in 1 .. Len(run.past)
      PROVE  LET stage == run.past[n] IN
             /\ stage.status = "completed" /\ ~stage.differs /\ ~stage.errors /\ ~stage.findings
             /\ Agents[n] = "regulatory_rag_agent" => stage.covers
             /\ Agents[n] = "validator_agent" => stage.agrees
  <2>1. run.past[n].status = "completed" /\ ~run.past[n].errors
    BY <1>5 DEF IInv, Booked
  <2>2. ~run.past[n].findings
    BY <1>4 DEF Findings
  <2>3. \A k \in 1 .. Len(run.past) : Agents[k] = Agents[n] => k = n
    BY <1>8, AgentsAssumption DEF AllAsked
  <2>4. Said(Agents[n]) = run.past[n]
    BY <2>3 DEF Said
  <2> QED BY <1>4, <1>8, <2>1, <2>2, <2>4 DEF IsMissing, IsChanged
<1> QED BY <1>2, <1>6, <1>7, <1>8, <1>9 DEF ContinueIsEarned, HasAdapter, AllAsked, Even

(* The report, which is always one that is accepted. *)
LEMMA ReportKeeps ==
  ASSUME IInv, WriteReport
  PROVE  IInv'
<1> DEFINE simulation == IF setup.live THEN {} ELSE {"simulation_only"}
           built == Built(run.errors \cup simulation \cup Unseen)
           errors == run.errors \cup simulation
<1>1. run \in Runs /\ group \in Groups /\ setup \in Setup
  BY SetupsAssumption DEF IInv, TypeOK, Runs, Groups
<1>2. /\ run.at = "over" /\ report' = built /\ UNCHANGED <<setup, late, group>>
      /\ run' = [run EXCEPT !.at = IF Accepts(built) THEN "reported" ELSE "raised",
                            !.errors = errors,
                            !.attempted = @ /\ setup.live,
                            !.invoked = @ /\ setup.live]
  BY DEF WriteReport
<1>3. Accepts(built)
  BY BuiltAccepted
<1>4. errors \in SUBSET Errors /\ run.errors \subseteq errors
  BY <1>1 DEF Runs, Errors
<1> HIDE DEF built, errors
<1>5. run' = [run EXCEPT !.at = "reported", !.errors = errors,
                         !.attempted = @ /\ setup.live, !.invoked = @ /\ setup.live]
  BY <1>2, <1>3
<1>6. run' \in Runs
  <2> DEFINE attempted == run.attempted /\ setup.live
             invoked == run.invoked /\ setup.live
  <2>1. attempted \in BOOLEAN /\ invoked \in BOOLEAN
    OBVIOUS
  <2>2. run' = [run EXCEPT !.at = "reported", !.errors = errors, !.attempted = attempted,
                           !.invoked = invoked]
    BY <1>5
  <2> HIDE DEF attempted, invoked
  <2> QED BY <1>1, <1>4, <2>1, <2>2 DEF Runs, Final
<1>7. run'.at = "reported" /\ run'.errors = errors /\ Same
  BY <1>1, <1>5 DEF Runs, Same
<1>8. TypeOK'
  BY <1>2, <1>6, <1>7 DEF IInv, TypeOK, Groups, Runs, Same
<1>9. NoneLeftRunning'
  BY <1>2, <1>7 DEF IInv, NoneLeftRunning, Alive
<1>10. Booked'
  <2>1. run'.errors = {} => run.errors = {}
    BY <1>4, <1>7
  <2>2. ErrorsOf(setup) \subseteq run'.errors
    BY <1>4, <1>7 DEF IInv, Booked
  <2>3. run.errors = {} => \A n \in 1 .. Len(run.past) :
                              run.past[n].status = "completed" /\ ~run.past[n].errors
    BY DEF IInv, Booked
  <2> QED BY <1>2, <1>7, <2>1, <2>2, <2>3 DEF Booked, Asking, Same
<1>11. (report # None => run.at \in {"reported", "raised"})' /\ ReportIsAccepted'
  BY <1>2, <1>3, <1>7 DEF ReportIsAccepted
<1>12. ContinueIsEarned'
  BY Earned DEF ContinueIsEarned
<1> QED BY <1>8, <1>9, <1>10, <1>11, <1>12 DEF IInv

(* A run starts with nothing asked and nothing running. *)
LEMMA InitKeeps == Init => IInv
<1> SUFFICES ASSUME Init PROVE IInv
  OBVIOUS
<1>1. ErrorsOf(setup) \in SUBSET Errors
  BY DEF ErrorsOf, Errors
<1>2. <<>> \in Seq(Answers) /\ Len(<<>>) = 0
  OBVIOUS
<1>3. Len(Agents) \in Nat /\ Len(Agents) # 0
  BY AgentsAssumption
<1>4. /\ run.at = "next" /\ run.errors = ErrorsOf(setup) /\ run.past = <<>>
      /\ run.logs = 0 /\ run.verified = 0 /\ group = Gone /\ report = None
  BY DEF Init
<1>5. run \in Runs
  BY <1>1, <1>2 DEF Init, Runs, Failures
<1>6. TypeOK
  <2>1. group \in Groups /\ group.open = {}
    BY <1>4, GoneType
  <2>2. Len(run.past) = 0 /\ run.logs = 0 /\ run.verified = 0
    BY <1>2, <1>4
  <2>3. /\ Len(run.past) <= Len(Agents)
        /\ setup.live => run.verified \in {Len(run.past), Len(run.past) + 1}
        /\ run.logs \in {run.verified, run.verified + 1}
    BY <1>3, <2>2
  <2>4. setup \in Setups /\ late \in BOOLEAN
    BY DEF Init
  <2> QED BY <1>5, <2>1, <2>3, <2>4 DEF TypeOK, Groups, Runs
<1>7. Booked
  BY <1>2, <1>3, <1>4 DEF Booked, Asking, Even
<1> QED BY <1>4, <1>6, <1>7, GoneType DEF IInv, NoneLeftRunning, Alive, ReportIsAccepted, ContinueIsEarned

(* Every step keeps the invariant. *)
LEMMA NextKeeps == IInv /\ [Next]_vars => IInv'
<1>1. ASSUME IInv, UNCHANGED vars PROVE IInv'
  <2>1. UNCHANGED <<setup, late, run, group, report>>
    BY <1>1 DEF vars
  <2>2. late' \in BOOLEAN /\ group' \in Groups
    BY <1>1, <2>1 DEF IInv, TypeOK, Groups
  <2>3. Alive' <=> Alive
    BY <2>1 DEF Alive
  <2> QED BY <1>1, <2>1, <2>2, <2>3, GroupSteps
<1> QED BY <1>1, Surroundings, AskingKeeps, JudgingKeeps, ReportKeeps DEF Next, RunnerStep

-----------------------------------------------------------------------------

(* The invariant holds whatever the agents and their processes do. *)
THEOREM Invariance == Spec => []IInv
<1>1. IInv /\ [Next]_vars => IInv'
  BY NextKeeps
<1> QED BY <1>1, InitKeeps, PTL DEF Spec

(* Runner, group and report have their shape for any list of agents: no more *)
(* invocations are on record than agents were asked.                        *)
THEOREM TypeCorrect == Spec => []TypeOK
<1>1. IInv => TypeOK
  BY DEF IInv
<1> QED BY <1>1, Invariance, PTL

(* Nothing of an agent's process group runs once the adapter has answered.  *)
THEOREM NoneIsLeft == Spec => []NoneLeftRunning
<1>1. IInv => NoneLeftRunning
  BY DEF IInv
<1> QED BY <1>1, Invariance, PTL

(* The report as built is one validate accepts, so a run that ends in       *)
(* build_report leaves one.                                                 *)
THEOREM ReportAccepted == Spec => []ReportIsAccepted
<1>1. IInv => ReportIsAccepted
  BY DEF IInv
<1> QED BY <1>1, Invariance, PTL

(* Any number of agents, any answers: to continue is recommended only when  *)
(* all were asked, agreed and left verified evidence.                       *)
THEOREM ContinueEarned == Spec => []ContinueIsEarned
<1>1. IInv => ContinueIsEarned
  BY DEF IInv
<1> QED BY <1>1, Invariance, PTL
=============================================================================
