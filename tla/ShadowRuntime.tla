---------------------------- MODULE ShadowRuntime ----------------------------
(***************************************************************************)
(* The shadow run of a case (run_init25_shadow_mode.py) and the adapter    *)
(* that runs its agents (init25_runtime_adapter.py). The runner asks one   *)
(* agent after the other under one deadline; the adapter starts a process  *)
(* group for each, writes the prompt, reads both outputs, ends the group   *)
(* and leaves evidence of the invocation; the runner judges what the agent *)
(* said and reports in the end how far the run agrees with the summary of  *)
(* the authoritative services.                                             *)
(*                                                                         *)
(* A process group is its leader and one more process that the leader may  *)
(* start; who is in the group holds outputs open, says things and exits as *)
(* it likes. Of time it only matters whether the deadline has passed. What *)
(* an agent says is told apart by what runner and report look at.          *)
(***************************************************************************)
EXTENDS Naturals, Sequences

CONSTANTS
  Agents,   \* LEAF_AGENTS, in order
  Answers,  \* the stages an agent may answer with
  Setups,   \* how a run may be started
  Garbage,  \* output that is no stage
  None      \* no error, no report

Stage ==
  [status : {"completed", "blocked", "failed"},
   differs : BOOLEAN,   \* an artifact has other fields than the authoritative one
   errors : BOOLEAN,    \* there are runtime_errors
   findings : BOOLEAN,  \* there are security_findings
   covers : BOOLEAN,    \* all evidence families that are required are covered
   agrees : BOOLEAN]    \* the validation status is the authoritative one

Setup ==
  [live : BOOLEAN,
   captured : BOOLEAN,  \* an authoritative summary is given
   noted : BOOLEAN,     \* the baseline comes with runtime_errors
   key : BOOLEAN,       \* there is a credential
   dir : BOOLEAN]       \* there is an output directory

ASSUME AgentsAssumption ==
  /\ Agents \in Seq(STRING) \ {<<>>}
  /\ \A m, n \in 1 .. Len(Agents) : Agents[m] = Agents[n] => m = n
ASSUME AnswersAssumption == Answers \subseteq Stage
ASSUME SetupsAssumption == Setups \subseteq Setup
ASSUME GarbageAssumption == Garbage \notin Answers

VARIABLES
  setup,   \* how this run was started
  late,    \* whether the deadline has passed
  run,     \* where the runner stands, and the candidate summary
  group,   \* the process group, and the streams the adapter has open
  report   \* the parity report, None before

vars == <<setup, late, run, group, report>>

Outputs == {"stdout", "stderr"}

Gone == [leader |-> "none", kid |-> FALSE, leaderHolds |-> {}, kidHolds |-> {},
         said |-> Garbage, code |-> 0, open |-> {}]

Started == [Gone EXCEPT !.leader = "running", !.leaderHolds = Outputs, !.open = Outputs \cup {"stdin"}]

HasAdapter == setup.live /\ setup.key /\ setup.dir

ErrorNames ==
  {"authoritative_capture_missing", "authoritative_error", "credential_missing",
   "runtime_output_dir_missing"}

(* What is wrong with a run before it asks anybody. *)
ErrorsOf(s) ==
  {e \in ErrorNames :
     /\ s.live
     /\ CASE e = "authoritative_capture_missing" -> ~s.captured
          [] e = "authoritative_error" -> s.noted
          [] e = "credential_missing" -> ~s.key
          [] e = "runtime_output_dir_missing" -> s.key /\ ~s.dir}

Init ==
  /\ setup \in Setups
  /\ late = FALSE
  /\ run = [at |-> "next", errors |-> ErrorsOf(setup), past |-> <<>>, result |-> Garbage,
            failure |-> None, logs |-> 0, verified |-> 0, attempted |-> FALSE, invoked |-> FALSE]
  /\ group = Gone
  /\ report = None

(***************************************************************************)
(* The runner, between two agents                                          *)
(***************************************************************************)

Goes(at) == run' = [run EXCEPT !.at = at]

Breaks(error) == run' = [run EXCEPT !.at = "over", !.errors = @ \cup {error}]

AllAsked == Len(run.past) = Len(Agents)

(* All agents were asked, or no agent can be. *)
EndLoop ==
  /\ run.at = "next"
  /\ AllAsked \/ (setup.live /\ ~HasAdapter)
  /\ Goes("over")
  /\ UNCHANGED <<setup, late, group, report>>

NextAgent ==
  /\ run.at = "next"
  /\ ~AllAsked
  /\ HasAdapter
  /\ IF late THEN Breaks("runtime_timeout") ELSE Goes("invoke")
  /\ UNCHANGED <<setup, late, group, report>>

(* Simulated, an agent answers at once, or the executor fails. *)
Simulate ==
  \E said \in Answers \cup {Garbage}, failure \in {None, "simulation_failed"} :
    /\ run.at = "next"
    /\ ~AllAsked
    /\ ~setup.live
    /\ run' = [run EXCEPT !.at = "judge", !.result = said, !.failure = failure]
    /\ UNCHANGED <<setup, late, group, report>>

(***************************************************************************)
(* The adapter: invoke and _run_process_group                              *)
(***************************************************************************)

(* Nothing is started without the sandbox, after the deadline, or with a   *)
(* runtime that is not the one expected; its identity is asked for once.   *)
Refuses(failure) ==
  \/ failure = "sbx_unavailable"
  \/ failure = "runtime_timeout" /\ late
  \/ failure \in {"runtime_version_unavailable", "runtime_incompatible"} /\ run.past = <<>> /\ ~late

Fails(failure) ==
  run' = [run EXCEPT !.at = "log", !.result = Garbage, !.failure = failure]

Refuse ==
  \E failure \in {"sbx_unavailable", "runtime_timeout", "runtime_version_unavailable",
                  "runtime_incompatible"} :
    /\ run.at = "invoke"
    /\ Refuses(failure)
    /\ Fails(failure)
    /\ UNCHANGED <<setup, late, group, report>>

(* An exception that invoke lets through, before a process is started or   *)
(* when the evidence is written: the run ends without a report.            *)
Raise ==
  /\ run.at \in {"invoke", "log"}
  /\ Goes("raised")
  /\ UNCHANGED <<setup, late, group, report>>

Spawn ==
  /\ run.at = "invoke"
  /\ ~late
  /\ Goes("pump")
  /\ group' = Started
  /\ UNCHANGED <<setup, late, report>>

Alive == group.leader = "running" \/ group.kid

Held == group.leaderHolds \cup group.kidHolds

Closes(stream) ==
  /\ run.at = "pump"
  /\ stream \in group.open
  /\ group' = [group EXCEPT !.open = @ \ {stream}]
  /\ UNCHANGED <<setup, late, run, report>>

(* All of the prompt is written, if the group takes it. *)
FeedPrompt == Alive /\ Closes("stdin")

BrokenPipe == ~Alive /\ Closes("stdin")

(* All of an output is read, as nobody holds it open any more. *)
ReadEnd == \E stream \in Outputs \ Held : Closes(stream)

(* The error ends the group. *)
Kill(failure) ==
  /\ run.at = "pump"
  /\ group.open # {}
  /\ Fails(failure)
  /\ group' = Gone
  /\ UNCHANGED <<setup, late, report>>

(* Mutant: the deadline is looked at once the prompt is written. *)
TimeOutOncePrompted == late /\ "stdin" \notin group.open /\ Kill("runtime_timeout")

TimeOut == late /\ Kill("runtime_timeout")

Overflow == group.open \cap Outputs # {} /\ Kill("runtime_output_exceeded")

(* Everything is written and read: now the leader is waited for, ...       *)
Drained ==
  /\ run.at = "pump"
  /\ group.open = {}
  /\ Goes("wait")
  /\ UNCHANGED <<setup, late, group, report>>

(* Mutant: the rest of the group is left alone. *)
CollectLeader ==
  /\ run.at = "wait"
  /\ group.leader = "exited"
  /\ IF group.code = 0 THEN run' = [run EXCEPT !.at = "log", !.result = group.said, !.failure = None]
     ELSE Fails("runtime_failed")
  /\ group' = [group EXCEPT !.leader = "none"]
  /\ UNCHANGED <<setup, late, report>>

(* ... for as long as it takes, and then the rest of its group is ended.   *)
Collect ==
  /\ run.at = "wait"
  /\ group.leader = "exited"
  /\ IF group.code = 0 THEN run' = [run EXCEPT !.at = "log", !.result = group.said, !.failure = None]
     ELSE Fails("runtime_failed")
  /\ group' = Gone
  /\ UNCHANGED <<setup, late, report>>

(* The invocation is on record with its evidence, which the runner reads   *)
(* again; it may have been changed or removed.                             *)
WriteLog ==
  \E intact \in BOOLEAN :
    /\ run.at = "log"
    /\ run' = [run EXCEPT
                 !.at = IF intact THEN "judge" ELSE "over",
                 !.logs = @ + 1,
                 !.verified = IF intact THEN @ + 1 ELSE @,
                 !.attempted = IF intact THEN run.failure \notin {"sbx_unavailable", "runtime_timeout",
                                                                  "runtime_version_unavailable"}
                               ELSE @,
                 !.errors = IF intact THEN @ ELSE @ \cup {"runtime_logs_unverified"}]
    /\ UNCHANGED <<setup, late, group, report>>

(***************************************************************************)
(* The runner: what an agent said                                          *)
(***************************************************************************)

(* What is read is a stage of this agent. *)
IsStage(said) == said # Garbage

(* An error of the runtime, or output that is no stage. *)
Reject ==
  /\ run.at = "judge"
  /\ run.failure # None \/ ~IsStage(run.result)
  /\ Breaks(IF run.failure # None THEN run.failure ELSE "stage_invalid")
  /\ UNCHANGED <<setup, late, group, report>>

(* Mutant: a stage that is blocked or has failed does not end the run. *)
BlockedBy(stage) == {}

(* The error of a stage that ends the run. *)
EndedBy(stage) ==
  IF stage.status = "completed" THEN {}
  ELSE {IF stage.status = "blocked" THEN "stage_blocked" ELSE "stage_failed"}

AcceptStage ==
  LET stage == run.result
      ended == EndedBy(stage)
  IN
  /\ run.at = "judge"
  /\ run.failure = None
  /\ IsStage(run.result)
  /\ run' = [run EXCEPT
               !.at = IF ended = {} THEN "next" ELSE "over",
               !.past = Append(@, stage),
               !.invoked = setup.live,
               !.result = Garbage,
               !.errors = @ \cup ended \cup IF stage.errors THEN {"agent_error"} ELSE {}]
  /\ UNCHANGED <<setup, late, group, report>>

(***************************************************************************)
(* The report: build_report, and validate, which has rules of its own      *)
(***************************************************************************)

(* An agent that was not asked differs in all; there is an error then. *)
Asked(agent) == \E n \in 1 .. Len(run.past) : Agents[n] = agent

Said(agent) == run.past[CHOOSE n \in 1 .. Len(run.past) : Agents[n] = agent]

Differences ==
  {Agents[n] : n \in {k \in 1 .. Len(Agents) : k > Len(run.past) \/ run.past[k].differs}}

IsMissing == ~(Asked("regulatory_rag_agent") /\ Said("regulatory_rag_agent").covers)

IsChanged == ~(Asked("validator_agent") /\ Said("validator_agent").agrees)

Findings == \E n \in 1 .. Len(run.past) : run.past[n].findings

(* Mutant: what is different is looked at before what went wrong. *)
NarrowFirst(compatible, errors, missing, changed, findings) ==
  IF ~compatible \/ missing \/ changed THEN "narrow"
  ELSE IF errors # {} \/ findings THEN "pause" ELSE "continue"

Recommendation(compatible, errors, missing, changed, findings) ==
  IF errors # {} \/ findings THEN "pause"
  ELSE IF ~compatible \/ missing \/ changed THEN "narrow"
  ELSE "continue"

(* No invocation without verified evidence. *)
Unseen == IF run.logs > 0 /\ run.verified # run.logs THEN {"runtime_evidence_incomplete"} ELSE {}

Built(errors) ==
  LET compatible == Differences = {} /\ errors = {} IN
  [compatible |-> compatible, differences |-> Differences, errors |-> errors,
   missing |-> IsMissing, changed |-> IsChanged, findings |-> Findings,
   recommendation |-> Recommendation(compatible, errors, IsMissing, IsChanged, Findings)]

(* What validate demands of a report. *)
Accepts(r) ==
  /\ r.compatible <=> r.differences = {} /\ r.errors = {}
  /\ r.recommendation = "continue" => r.compatible /\ ~r.missing /\ ~r.changed /\ ~r.findings
  /\ r.errors # {} \/ r.findings => r.recommendation = "pause"
  /\ r.errors = {} /\ ~r.findings =>
       (r.recommendation = "narrow" <=> ~r.compatible \/ r.missing \/ r.changed)

(* A report that is not accepted, kept here, ends the run without one. *)
WriteReport ==
  LET simulation == IF setup.live THEN {} ELSE {"simulation_only"}
      built == Built(run.errors \cup simulation \cup Unseen)
  IN
  /\ run.at = "over"
  /\ run' = [run EXCEPT !.at = IF Accepts(built) THEN "reported" ELSE "raised",
                        !.errors = @ \cup simulation,
                        !.attempted = @ /\ setup.live,
                        !.invoked = @ /\ setup.live]
  /\ report' = built
  /\ UNCHANGED <<setup, late, group>>

(***************************************************************************)
(* The process group, the deadline and the operator                        *)
(***************************************************************************)

Acts(g) == group' = g /\ UNCHANGED <<setup, late, run, report>>

Fork ==
  /\ group.leader = "running"
  /\ ~group.kid
  /\ Acts([group EXCEPT !.kid = TRUE, !.kidHolds = group.leaderHolds])

LetGo == \E stream \in Outputs :
  \/ stream \in group.leaderHolds /\ Acts([group EXCEPT !.leaderHolds = @ \ {stream}])
  \/ stream \in group.kidHolds /\ Acts([group EXCEPT !.kidHolds = @ \ {stream}])

Say == \E stage \in Answers :
  /\ "stdout" \in Held
  /\ group.said = Garbage
  /\ Acts([group EXCEPT !.said = stage])

ExitLeader == \E code \in {0, 1} :
  /\ group.leader = "running"
  /\ Acts([group EXCEPT !.leader = "exited", !.leaderHolds = {}, !.code = code])

ExitKid == group.kid /\ Acts([group EXCEPT !.kid = FALSE, !.kidHolds = {}])

PassDeadline ==
  /\ ~late
  /\ late' = TRUE
  /\ UNCHANGED <<setup, run, group, report>>

Final == {"reported", "raised", "stopped"}

(* The runner is stopped from outside; what it has started goes on. *)
StopRunner ==
  /\ run.at \notin Final
  /\ Goes("stopped")
  /\ UNCHANGED <<setup, late, group, report>>

GroupStep == Fork \/ LetGo \/ Say \/ ExitLeader \/ ExitKid

RunnerStep ==
  \/ EndLoop \/ NextAgent \/ Simulate \/ Refuse \/ Raise \/ Spawn \/ BrokenPipe \/ ReadEnd
  \/ TimeOut \/ Drained \/ Collect \/ WriteLog \/ Reject \/ AcceptStage \/ WriteReport

Next == RunnerStep \/ FeedPrompt \/ Overflow \/ GroupStep \/ PassDeadline \/ StopRunner

Spec == Init /\ [][Next]_vars

(* The runner goes on where it can; nothing is assumed of the processes.   *)
FairSpec == Spec /\ WF_vars(RunnerStep)

(***************************************************************************)
(* Properties                                                              *)
(***************************************************************************)

Failures ==
  {None, "simulation_failed", "sbx_unavailable", "runtime_timeout", "runtime_version_unavailable",
   "runtime_incompatible", "runtime_output_exceeded", "runtime_failed"}

Errors ==
  Failures \cup ErrorNames \cup {"stage_blocked", "stage_failed", "stage_invalid", "agent_error",
    "runtime_logs_unverified", "simulation_only", "runtime_evidence_incomplete"}

(* The shape of run, group and report; streams are only open while the     *)
(* adapter writes and reads, no more invocations are on record than agents *)
(* were asked, and only verified ones of agents that answered.             *)
TypeOK ==
  /\ setup \in Setups
  /\ late \in BOOLEAN
  /\ run \in [at : Final \cup {"next", "invoke", "pump", "wait", "log", "judge", "over"},
              errors : SUBSET Errors, past : Seq(Answers), result : Answers \cup {Garbage},
              failure : Failures, logs : Nat, verified : Nat, attempted : BOOLEAN,
              invoked : BOOLEAN]
  /\ group \in [leader : {"none", "running", "exited"}, kid : BOOLEAN,
                leaderHolds : SUBSET Outputs, kidHolds : SUBSET Outputs,
                said : Answers \cup {Garbage}, code : {0, 1},
                open : SUBSET (Outputs \cup {"stdin"})]
  /\ group.open # {} => run.at \in {"pump", "stopped"}
  /\ Len(run.past) <= Len(Agents)
  /\ setup.live => run.verified \in {Len(run.past), Len(run.past) + 1}
  /\ run.logs \in {run.verified, run.verified + 1}

(* When the adapter has answered, whether the agent came to an end, ran    *)
(* out of time or said too much, nothing of its group runs any more: the   *)
(* next agent never runs beside it, and no report leaves it behind. Only a *)
(* runner that is stopped does (init25_runtime_adapter.py:242).            *)
NoneLeftRunning == Alive => run.at \in {"pump", "wait", "stopped"}

(* The runner recommends to continue only when every agent was asked live, *)
(* in its turn, against a captured summary, and completed its stage with   *)
(* the fields, evidence and verdict of the authoritative services, no      *)
(* error, no finding and evidence that was verified.                       *)
ContinueIsEarned ==
  report # None /\ report.recommendation = "continue" =>
    /\ HasAdapter /\ setup.captured /\ ~setup.noted
    /\ AllAsked /\ run.verified = Len(Agents) /\ run.logs = Len(Agents)
    /\ \A n \in 1 .. Len(run.past) :
         LET stage == run.past[n] IN
         /\ stage.status = "completed" /\ ~stage.differs /\ ~stage.errors /\ ~stage.findings
         /\ Agents[n] = "regulatory_rag_agent" => stage.covers
         /\ Agents[n] = "validator_agent" => stage.agrees

(* A report as it is built is one that the rules of validate accept, which *)
(* are stated once more there: otherwise a run that has ended would leave  *)
(* no report at all (build_init25_parity_report.py:186).                   *)
ReportIsAccepted == report # None => Accepts(report)

(* The leader has closed its outputs and goes on. *)
IsSilent == run.at = "wait" /\ group.leader = "running"

(* Once the deadline has passed the run ends, whatever the processes do,   *)
(* unless one that has closed its outputs goes on                          *)
(* (init25_runtime_adapter.py:206).                                        *)
DeadlineEndsRun == late ~> run.at \in Final \/ IsSilent
=============================================================================
