----------------------------- MODULE Benchmark -----------------------------
(***************************************************************************)
(* The benchmark harness: the same cases under several modes, one mode     *)
(* after the other.  A mode overrides the environment while it runs.  A    *)
(* case runs in a thread of its own; when it takes too long it is given up *)
(* and the thread goes on, through the rest of the mode and beyond it.     *)
(***************************************************************************)
EXTENDS LlmGateway, SequencesExt

CONSTANTS
  Runs,      \* bound: runs of the harness in the life of a process
  Modes,     \* modes that are run, some of "A" to "E"
  Options,   \* options of a run: [timed, failFast, limited]
  CaseList   \* the cases: a sequence of [language, required]

Cases == DOMAIN CaseList

ASSUME RunsBound == Runs \in Nat
ASSUME ListOfCases == CaseList \in Seq([language : STRING, required : BOOLEAN])
ASSUME ThreadOfEachCase ==
  /\ Threads = (1..Runs) \X Cases
  /\ Language = [t \in Threads |-> CaseList[t[2]].language]

VARIABLES
  main,     \* the run under way: mode, options, saved environment, results
  reports

harnessVars == <<gatewayVars, main, reports>>

-----------------------------------------------------------------------------
LocalModes == {"C", "D"}
ExpectedProvider == "ollama"
ExpectedModel == "qwen"

Overrides ==
  [A |-> [external |-> FALSE, llm |-> FALSE, provider |-> "disabled", skill |-> FALSE],
   B |-> [external |-> FALSE, llm |-> FALSE, provider |-> "disabled", skill |-> TRUE],
   C |-> [external |-> FALSE, llm |-> TRUE, provider |-> "ollama", skill |-> TRUE,
          model |-> ExpectedModel],
   D |-> [external |-> FALSE, llm |-> TRUE, provider |-> "ollama", skill |-> FALSE,
          model |-> ExpectedModel],
   E |-> [external |-> TRUE, llm |-> TRUE]]

Updated(environment, values) ==
  [k \in DOMAIN environment |->
     IF k \in DOMAIN values THEN values[k] ELSE environment[k]]

Saved(environment, values) == [k \in DOMAIN values |-> environment[k]]

GivenUp == {t \in Threads : ~thread[t].awaited}

Stopped == [pc |-> "idle", mode |-> "", saved |-> << >>, case |-> 0,
            options |-> [timed |-> FALSE, failFast |-> FALSE, limited |-> FALSE],
            results |-> << >>]

HarnessInit ==
  /\ GatewayInit
  /\ main = Stopped /\ reports = << >>

-----------------------------------------------------------------------------
(* run_case: what a case makes of the calls it has heard of.               *)
CaseRequirement(t) ==
  StructureRequirement(Language[t], thread[t].reply, thread[t].answer)

Primary(heard) == Last(heard)
Invoked(heard) == heard # << >> /\ Primary(heard).used # "none"

MockFallback(heard) ==
  \E i \in DOMAIN heard : heard[i].name # "mock" /\ heard[i].used = "mock"

LocalModel(heard) ==
  LET named == SelectSeq(heard, LAMBDA e : e.name = ExpectedProvider /\ e.model # "")
  IN IF Primary(heard).model # "" \/ named = << >> THEN Primary(heard).model
                                                   ELSE Head(named).model

LocalCallStatus(t, mode) ==
  LET heard == thread[t].heard
  IN CASE mode \notin LocalModes -> "n/a"
       [] mode \in LocalModes /\ ~Invoked(heard) ->
            IF Language[t] # "en" THEN "language_skill_required"
            ELSE IF CaseList[t[2]].required THEN "expected_local_call_missing"
            ELSE "intentionally_skipped"
       [] OTHER ->
            IF MockFallback(heard) THEN "mock_fallback"
            ELSE IF Primary(heard).used # ExpectedProvider THEN "wrong_provider"
            ELSE IF ~Primary(heard).ok THEN "local_call_failed"
            ELSE IF LocalModel(heard) # ExpectedModel THEN "unexpected_local_model"
            ELSE "real_local_call"

(* The last three parts are not in the program's result: whether all it    *)
(* heard of was its own, whom it asked, and what the language skill said.  *)
RunCase(t, mode) ==
  LET heard == thread[t].heard
  IN [timedOut |-> FALSE,
      error    |-> thread[t].raised,
      ready    |-> ~thread[t].raised /\ Ready(CaseRequirement(t)),
      external |-> \E i \in DOMAIN heard : /\ IsExternalProvider(heard[i].used)
                                           /\ heard[i].used # "none"
                                           /\ heard[i].ok,
      status   |-> LocalCallStatus(t, mode),
      own      |-> \A i \in DOMAIN heard : heard[i].by = t,
      asked    |-> thread[t].held,
      skill    |-> thread[t].reply]

TimeoutResult(t) ==
  [timedOut |-> TRUE, error |-> FALSE, ready |-> FALSE, external |-> FALSE,
   status |-> "timeout", own |-> TRUE, asked |-> "", skill |-> NoReply]

(* What a result claims, measured against what its own case did.           *)
Truthful(result) ==
  /\ result.own
  /\ result.status = "real_local_call" => result.asked = ExpectedProvider

IntegrityStatuses == {"mock_fallback", "expected_local_call_missing",
                      "wrong_provider", "unexpected_local_model"}

CaseFails(result, mode) ==
  \/ result.timedOut \/ result.error \/ result.external
  \/ mode \in LocalModes /\ result.status \in IntegrityStatuses

WithStatus(results, statuses) ==
  {i \in DOMAIN results : results[i].status \in statuses}

(* Mutant: a case that timed out is a measurement, like one that failed.   *)
IntegrityButTimeouts(results, mode) ==
  /\ \A i \in DOMAIN results : ~results[i].external /\ ~results[i].error
  /\ mode \in LocalModes =>
       /\ WithStatus(results, IntegrityStatuses) = {}
       /\ WithStatus(results, {"real_local_call", "local_call_failed"}) # {}
            => WithStatus(results, {"real_local_call"}) # {}

Integrity(results, mode) ==
  /\ \A i \in DOMAIN results : ~results[i].external /\ ~results[i].error
                                 /\ ~results[i].timedOut
  /\ mode \in LocalModes =>
       /\ WithStatus(results, IntegrityStatuses) = {}
       /\ WithStatus(results, {"real_local_call", "local_call_failed"}) # {}
            => WithStatus(results, {"real_local_call"}) # {}

(* The limit on failed calls, when there is one, is taken to be zero.      *)
Capability(results, mode, limited) ==
  CASE mode \notin LocalModes            -> "n/a"
    [] mode \in LocalModes /\ ~limited -> "report_only"
    [] OTHER -> IF WithStatus(results, {"local_call_failed"}) = {} THEN "pass" ELSE "fail"

-----------------------------------------------------------------------------
ThisThread == <<Len(reports) + 1, main.case>>

(* run_benchmark: the mode is entered.                                     *)
StartRun(mode, options) ==
  /\ main.pc = "idle" /\ Len(reports) < Runs
  /\ main' = [Stopped EXCEPT !.pc = "next", !.mode = mode, !.options = options,
                !.saved = Saved(env, Overrides[mode])]
  /\ env' = Updated(env, Overrides[mode])
  /\ ResetProvider
  /\ UNCHANGED <<observers, thread, reports>>

(* A case is handed to its thread, which listens while it runs.            *)
SubmitCase ==
  /\ main.pc = "next" /\ main.case < Len(CaseList)
  /\ main' = [main EXCEPT !.pc = "waiting", !.case = @ + 1]
  /\ LET t == <<Len(reports) + 1, main.case + 1>>
     IN observers' = observers \cup {t} /\ ThreadGoto(t, "intake")
  /\ UNCHANGED <<env, instance, reports>>

(* What is left of a call whose result was taken, or is waited for by none. *)
Returned == [Idle EXCEPT !.pc = "returned"]

(* The result is appended, and stops the run when it fails and should.     *)
AppendResult(result) ==
  main' = [main EXCEPT
    !.results = Append(@, result),
    !.pc = IF main.options.failFast /\ CaseFails(result, main.mode) THEN "leaving" ELSE "next"]

TakeResult ==
  /\ main.pc = "waiting" /\ ThreadAt(ThisThread, "done")
  /\ AppendResult(RunCase(ThisThread, main.mode))
  /\ thread' = [thread EXCEPT ![ThisThread] = Returned]
  /\ UNCHANGED <<env, instance, observers, reports>>

(* Mutant: the executor is shut down with its thread.                      *)
GiveUpAndJoin ==
  /\ main.pc = "waiting" /\ main.options.timed /\ ThreadAt(ThisThread, "done")
  /\ AppendResult(TimeoutResult(ThisThread))
  /\ thread' = [thread EXCEPT ![ThisThread] = [Returned EXCEPT !.awaited = FALSE]]
  /\ UNCHANGED <<env, instance, observers, reports>>

(* future.result times out: the thread is left to itself.                  *)
GiveUp ==
  /\ main.pc = "waiting" /\ main.options.timed /\ ~ThreadAt(ThisThread, "done")
  /\ AppendResult(TimeoutResult(ThisThread))
  /\ thread' = [thread EXCEPT ![ThisThread].awaited = FALSE, ![ThisThread].heard = << >>,
                              ![ThisThread].reply = NoReply, ![ThisThread].answer = NoAnswer]
  /\ UNCHANGED <<env, instance, observers, reports>>

Leaving == main.pc = "leaving" \/ (main.pc = "next" /\ main.case = Len(CaseList))

(* The mode is left: what it replaced is put back, the report is made.     *)
ExitMode ==
  /\ Leaving
  /\ env' = Updated(env, main.saved)
  /\ ResetProvider
  /\ reports' = Append(reports,
       [integrity  |-> Integrity(main.results, main.mode),
        capability |-> Capability(main.results, main.mode, main.options.limited),
        truthful   |-> \A i \in DOMAIN main.results : Truthful(main.results[i])])
  /\ main' = Stopped
  /\ UNCHANGED <<observers, thread>>

FinishCase(t) ==
  /\ ThreadAt(t, "judge")
  /\ observers' = observers \ {t}
  /\ thread' = [thread EXCEPT ![t] = IF @.awaited THEN [@ EXCEPT !.pc = "done"]
                                                  ELSE [Returned EXCEPT !.awaited = FALSE]]
  /\ UNCHANGED <<env, instance, main, reports>>

CaseStep(t) ==
  \/ FinishCase(t)
  \/ GatewayStep(t) /\ UNCHANGED <<main, reports>>

RunStep == SubmitCase \/ TakeResult \/ GiveUp \/ ExitMode

HarnessNext ==
  \/ \E mode \in Modes, options \in Options : StartRun(mode, options)
  \/ RunStep
  \/ \E t \in Threads : CaseStep(t)

HarnessSpec == HarnessInit /\ [][HarnessNext]_harnessVars

HarnessFairSpec == HarnessSpec /\ WF_harnessVars(RunStep)

-----------------------------------------------------------------------------
HarnessTypeOK ==
  /\ observers \subseteq Threads
  /\ DOMAIN thread = Threads
  /\ main.pc \in {"idle", "next", "waiting", "leaving"}

(* When every report passes its integrity gate, each result tells of its   *)
(* own case's calls, and a real local call was answered by the local       *)
(* provider: "the benchmark can prove a local model actually ran".         *)
Passing == \A i \in DOMAIN reports : reports[i].integrity

ReportsTrusted ==
  Passing => \A i \in DOMAIN reports : reports[i].truthful

(* The provider that is asked is the one whose name the policy has let     *)
(* pass, unless a case was given up: its thread outlives its mode, and     *)
(* provider and name are read at different times.                          *)
AskedAsChecked ==
  GivenUp = {} => \A t \in Threads :
    ThreadAt(t, "ask") => thread[t].held = BuildProvider(thread[t].name)

(* What the skill speaks of: it gave a value, or listed the field among    *)
(* its sources.                                                            *)
SpokenOf(reply) == reply.fields \cup reply.named \cup reply.listed

(* No case is ready to be executed in a mode without the language skill,   *)
(* nor without the skill speaking of a product and of the destination; and *)
(* of a message that is not in English only what the skill gave is used,   *)
(* whatever a model says of this case or another.                          *)
ReadyBySkill ==
  \A i \in DOMAIN main.results :
    LET reply == main.results[i].skill
    IN main.results[i].ready =>
         /\ env.skill
         /\ SpokenOf(reply) \cap {"product", "category"} # {}
         /\ "destination" \in SpokenOf(reply)
         /\ CaseList[i].language # "en" =>
              {"quantity", "destination", "delivery"} \subseteq reply.fields

(* No model's value satisfies the readiness gate: product and destination  *)
(* of a case that is ready are the skill's ("they never satisfy a          *)
(* readiness gate on their own").  The skill's field_sources, which may    *)
(* come without values, break it.                                          *)
ModelValuesAreProvisional ==
  \A i \in DOMAIN main.results :
    main.results[i].ready =>
      /\ main.results[i].skill.fields \cap {"product", "category"} # {}
      /\ "destination" \in main.results[i].skill.fields

(* A run whose cases have a time limit ends, although a provider may never *)
(* answer.                                                                 *)
TimedRunEnds == (main.pc # "idle" /\ main.options.timed) ~> (main.pc = "idle")
=============================================================================
