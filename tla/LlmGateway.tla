----------------------------- MODULE LlmGateway -----------------------------
(***************************************************************************)
(* The model gateway of a process: its environment, the cached provider,   *)
(* the observers of calls, and the threads that structure a requirement    *)
(* through it.  Every read and every write of what threads share is a step *)
(* of its own.                                                             *)
(*                                                                         *)
(* What a thread whose result nobody waits for any more makes of its case  *)
(* is not kept.                                                            *)
(***************************************************************************)
EXTENDS RequirementIntake, Sequences, Naturals

CONSTANTS
  Threads,       \* threads that structure a message
  Language,      \* the language of each thread's message
  Ambients,      \* environments a process may be started with
  SkillReplies,  \* replies of the language skill
  Answers,       \* answers of a model that can be parsed
  MaxRetries     \* AIVAN_LLM_MAX_RETRIES

ASSUME RetriesBound == MaxRetries \in Nat

VARIABLES
  env,        \* os.environ, by what it switches
  instance,   \* _provider_instance: the provider it was built for, or ""
  observers,  \* _call_observers, each by the thread that listens
  thread      \* the threads' variables

gatewayVars == <<env, instance, observers, thread>>

-----------------------------------------------------------------------------
ExternalProviders == {"openai", "anthropic", "google", "deepseek", "qwen"}
IsExternalProvider(name) == name \in ExternalProviders

(* No caller installs an approval: only the override lets a call pass.     *)
AssertProviderAllowed(name) ==
  IsExternalProvider(name) => env.external /\ env.autoAllowed

ModelFor(name) == IF name = "ollama" THEN env.model ELSE ""

(* A name that stands for no provider is the mock's.                       *)
BuildProvider(name) ==
  IF name = "ollama" \/ IsExternalProvider(name) THEN name ELSE "mock"

Idle == [pc |-> "new", name |-> "", model |-> "", held |-> "",
         reply |-> NoReply, answer |-> NoAnswer, raised |-> FALSE,
         heard |-> << >>, awaited |-> TRUE]

GatewayInit ==
  /\ env \in Ambients
  /\ instance = ""
  /\ observers = {}
  /\ thread = [t \in Threads |-> Idle]

ThreadAt(t, pc) == thread[t].pc = pc
ThreadGoto(t, pc) == thread' = [thread EXCEPT ![t].pc = pc]

(* Mutant: what is cached stays.                                           *)
ResetNothing == UNCHANGED instance

ResetProvider == instance' = ""

Keep(t, value, none) == IF thread[t].awaited THEN value ELSE none

(* The event of a call, for every observer there is.                       *)
Event(t, name, used, ok) ==
  [by |-> t, name |-> name, model |-> thread[t].model, used |-> used, ok |-> ok]

Emit(e) ==
  [u \in Threads |-> IF u \in observers /\ thread[u].awaited
                       THEN [thread[u] EXCEPT !.heard = Append(@, e)]
                       ELSE thread[u]]

-----------------------------------------------------------------------------
(* canonicalize_rfq, then the choice of who extracts.                      *)
Canonicalize(t) ==
  /\ ThreadAt(t, "intake")
  /\ \E outcome \in {"json", "failed"}, sent \in SkillReplies :
       LET r == Requested(outcome, sent)
           reply == CanonicalizeRfq(env.skill, r)
           raises == env.skill /\ SkillFailed(r) /\ ~env.failSoft
       IN thread' = [thread EXCEPT
            ![t].reply = Keep(t, reply, NoReply), ![t].raised = raises,
            ![t].pc = IF ~raises /\ CallsModel(Language[t], reply)
                        THEN "policy" ELSE "judge"]
  /\ UNCHANGED <<env, instance, observers>>

(* llm_complete_json: the provider's name is read once, and checked.  A    *)
(* refusal is caught by the caller.                                        *)
PolicyRefuses(t) ==
  /\ ThreadAt(t, "policy") /\ ~AssertProviderAllowed(env.provider)
  /\ ThreadGoto(t, "judge")
  /\ UNCHANGED <<env, instance, observers>>

LlmDisabled(t) ==
  /\ ThreadAt(t, "policy") /\ AssertProviderAllowed(env.provider) /\ ~env.llm
  /\ thread' = [Emit(Event(t, env.provider, "none", FALSE)) EXCEPT ![t].pc = "judge"]
  /\ UNCHANGED <<env, instance, observers>>

PolicyAllows(t) ==
  /\ ThreadAt(t, "policy") /\ AssertProviderAllowed(env.provider) /\ env.llm
  /\ thread' = [thread EXCEPT ![t].name = env.provider,
                              ![t].model = ModelFor(env.provider),
                              ![t].pc = "provider"]
  /\ UNCHANGED <<env, instance, observers>>

(* get_provider reads the shared instance, and reads it again to return    *)
(* it; what it builds goes by the name the environment has by now.         *)
BuildInstance(t) ==
  /\ ThreadAt(t, "provider") /\ instance = ""
  /\ thread' = [thread EXCEPT ![t].held = BuildProvider(env.provider),
                              ![t].pc = "publish"]
  /\ UNCHANGED <<env, instance, observers>>

FindInstance(t) ==
  /\ ThreadAt(t, "provider") /\ instance # ""
  /\ ThreadGoto(t, "take")
  /\ UNCHANGED <<env, instance, observers>>

PublishInstance(t) ==
  /\ ThreadAt(t, "publish")
  /\ instance' = thread[t].held
  /\ ThreadGoto(t, "take")
  /\ UNCHANGED <<env, observers>>

TakeInstance(t) ==
  /\ ThreadAt(t, "take")
  /\ thread' = [thread EXCEPT ![t].held = instance, ![t].pc = "ask"]
  /\ UNCHANGED <<env, instance, observers>>

(* What comes of an attempt to reach the model: an error of transport, no  *)
(* content, an object, or content that is none.  The first is tried again, *)
(* the second once.                                                        *)
Attempts == {"unreachable", "empty", "object", "other"}
Calls == [1 .. MaxRetries + 1 -> Attempts]

TriedAgain(call, i) ==
  \/ call[i] = "unreachable"
  \/ call[i] = "empty" /\ i <= MaxRetries /\ \A j \in 1 .. i - 1 : call[j] # "empty"

Completes(call) ==
  \E i \in DOMAIN call : call[i] = "object" /\ \A j \in 1 .. i - 1 : TriedAgain(call, j)

(* complete_json returns the object (TRUE) or raises (FALSE), as Ollama's   *)
(* attempts may come to.                                                   *)
CompleteJson == {Completes(call) : call \in Calls}

(* A provider that was reset away cannot be asked.                         *)
Answered(t) ==
  /\ ThreadAt(t, "ask") /\ thread[t].held # ""
  /\ TRUE \in CompleteJson
  /\ \E a \in Answers :
       thread' = [Emit(Event(t, thread[t].name, thread[t].name, TRUE)) EXCEPT
                    ![t].answer = Keep(t, a, NoAnswer), ![t].pc = "judge"]
  /\ UNCHANGED <<env, instance, observers>>

(* Mock stands in for mock only.                                           *)
CallFails(t) ==
  /\ ThreadAt(t, "ask") /\ (thread[t].held # "" => FALSE \in CompleteJson)
  /\ IF thread[t].name = "mock"
       THEN \E a \in Answers :
              thread' = [Emit(Event(t, "mock", "mock", TRUE)) EXCEPT
                           ![t].answer = Keep(t, a, NoAnswer), ![t].pc = "judge"]
       ELSE thread' = [Emit(Event(t, thread[t].name, thread[t].name, FALSE)) EXCEPT ![t].pc = "judge"]
  /\ UNCHANGED <<env, instance, observers>>

GatewayStep(t) ==
  \/ Canonicalize(t) \/ PolicyRefuses(t) \/ LlmDisabled(t) \/ PolicyAllows(t)
  \/ BuildInstance(t) \/ FindInstance(t) \/ PublishInstance(t) \/ TakeInstance(t)
  \/ Answered(t) \/ CallFails(t)
=============================================================================
