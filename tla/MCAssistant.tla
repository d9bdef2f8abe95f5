---------------------------- MODULE MCAssistant ----------------------------
(* The worker, who has all permissions, and a user with those it is given; *)
(* one chat; one backend that may have the one model; and two chains: the  *)
(* first asks for a number and calls a hook, twice if need be, the second  *)
(* takes an answer apart in every other way.                               *)
EXTENDS Assistant, TLC

CONSTANTS worker, person, r1, r2, model, word, dash, default

RequestSymmetry == Permutations({r1, r2})

MCForms == {Row("other", None, "secret")}
MCGrants == {Grant("server", Manage)}
MCAllowed == {<<Grant("server", Manage)>>}
MCChanges ==
  {[email |-> "new", name |-> None, password |-> None],
   [email |-> None, name |-> "name", password |-> None]}
MCBaseName == [m \in {model} |-> m]
MCContextLength == [m \in {model} |-> 2]
MCTexts == {<<word>>, <<2000>>}
MCTrue == <<word>>
MCFalse == <<dash>>
MCFolded == [t \in MCTexts |-> {t}]

MCTask(id, type, retry, onError, next) ==
  [id |-> id, type |-> type, template |-> IF id = "bad" THEN "bad" ELSE "text",
   timeout |-> "set", print |-> "none", retry |-> retry, onError |-> onError,
   next |-> next, hook |-> "webhook",
   mapping |-> IF type = "condition" THEN [t \in {<<word>>} |-> TRUE] ELSE None]
To(id, operator, value) == [id |-> id, operator |-> operator, value |-> value]

MCChains ==
  {[strategy |-> "auto", tasks |->
      <<MCTask("ask", "number", 0, "tell", <<To("tell", ">", <<1000>>)>>),
        MCTask("tell", "hook", 1, "ask", <<To("end", "", default)>>)>>],
   [strategy |-> "", tasks |->
      <<MCTask("rate", "score", 0, "judge",
          <<To("bound", "between", <<1000, dash, 3000>>)>>),
        MCTask("judge", "condition", 0, "say", <<To("bad", "equals", MCTrue)>>),
        MCTask("say", "string", 0, "",
          <<To("", "startsWith", <<2000>>), To("judge", "contains", <<word>>)>>),
        MCTask("bound", "range", -1, "say", <<To("", "endsWith", <<2000>>)>>),
        MCTask("bad", "string", 0, "", <<>>)>>]}
=============================================================================
