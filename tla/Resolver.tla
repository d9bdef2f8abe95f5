------------------------------ MODULE Resolver ------------------------------
(***************************************************************************)
(* Which backend a chat or a prompt is sent to: the providers built from   *)
(* what the backends have pulled, the candidates a request accepts, and    *)
(* the policies that choose among them.  What the backends have pulled is  *)
(* the result of RuntimeState and changes from outside.                    *)
(*                                                                         *)
(* Random choices and the order of Go's maps are sets of outcomes.  Not    *)
(* represented: streaming (unimplemented) and the embedding client, which  *)
(* VectorIndex takes as a call that may fail.                              *)
(***************************************************************************)
EXTENDS Naturals, FiniteSets

CONSTANTS
  Backends,
  PoolBackends,   (* The backends of the pool that tasks are run in.       *)
  Models,
  TaskModel,      (* The model that tasks are run with.                    *)
  BaseName,       (* The name of a model up to its colon.                  *)
  ContextLength,  (* modelContextLengths; 0 for a model it does not list.  *)
  ChatModels,     (* The models of canChat.                                *)
  PromptModels    (* The models of canPrompt.                              *)

ASSUME ResolverAssumption ==
  /\ PoolBackends \subseteq Backends
  /\ TaskModel \in Models
  /\ DOMAIN BaseName = Models
  /\ ContextLength \in [Models -> Nat]
  /\ ChatModels \subseteq Models /\ PromptModels \subseteq Models

VARIABLE pulled   (* The models each backend is known to have.             *)

ResolverInit == pulled = [b \in Backends |-> {}]

(* A cycle of the runtime state finds what b has.                          *)
Sync(b, models) == pulled' = [pulled EXCEPT ![b] = models]

-----------------------------------------------------------------------------
(* Providers.                                                              *)

(* The capabilities of a model are those of its name.                      *)
NewOllamaModelProvider(model, backends) ==
  [model |-> model, backends |-> backends, context |-> ContextLength[model],
   chat |-> model \in ChatModels, prompt |-> model \in PromptModels]

BackendsWith(model, among) == {b \in among : model \in pulled[b]}

(* One provider for each model that some backend has.                      *)
ModelProviderAdapter ==
  {NewOllamaModelProvider(m, BackendsWith(m, Backends)) :
     m \in UNION {pulled[b] : b \in Backends}}

(* The provider of the model for tasks, said to take prompts, or none.     *)
GetProvider ==
  IF BackendsWith(TaskModel, PoolBackends) = {}
  THEN {}
  ELSE {[NewOllamaModelProvider(TaskModel, BackendsWith(TaskModel, PoolBackends))
           EXCEPT !.prompt = TRUE]}

(* Whatever type of backend is asked for, there is this one provider.      *)
GetRuntime == GetProvider

-----------------------------------------------------------------------------
(* Candidates and policies.                                                *)

validateProvider(p, minContext, capability) ==
  /\ minContext > 0 => p.context >= minContext
  /\ p[capability]

(* No name at all accepts every model.                                     *)
filterCandidates(providers, names, minContext, capability) ==
  {p \in providers :
     /\ names # {} => \E n \in names : BaseName[p.model] = BaseName[n]
     /\ validateProvider(p, minContext, capability)}

(* The providers and backends Randomly may return.                         *)
selectRandomBackend(p) == {[provider |-> p, backend |-> b] : b \in p.backends}
Randomly(candidates) == UNION {selectRandomBackend(p) : p \in candidates}

HighestContext(candidates) ==
  Randomly({p \in candidates : \A q \in candidates : q.context <= p.context})

(* A chain that names no strategy is routed randomly.                      *)
PolicyKnown(strategy) == strategy \in {"", "random", "auto", "low-latency"}

PolicyFromString(strategy, candidates) ==
  IF strategy \in {"", "random"} THEN Randomly(candidates) ELSE HighestContext(candidates)

(* The clients there may be for a choice: the provider must be able to do  *)
(* what is asked of it.                                                    *)
GetChatConnection(choice) ==
  IF choice.provider.chat
  THEN {[model |-> choice.provider.model, backend |-> choice.backend]} ELSE {}
GetPromptConnection(choice) ==
  IF choice.provider.prompt
  THEN {[model |-> choice.provider.model, backend |-> choice.backend]} ELSE {}

(* The clients Chat and PromptExecute may return; none is an error.        *)
Chat(names, contextLength) ==
  UNION {GetChatConnection(choice) :
    choice \in Randomly(
      filterCandidates(ModelProviderAdapter, names, contextLength, "chat"))}

PromptExecute(strategy) ==
  UNION {GetPromptConnection(choice) :
    choice \in PolicyFromString(strategy,
      filterCandidates(GetRuntime, {p.model : p \in GetProvider}, 0, "prompt"))}

=============================================================================
