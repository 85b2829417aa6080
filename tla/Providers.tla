----------------------------- MODULE Providers -----------------------------
(***************************************************************************)
(* The LLM clients of package aigateway: Client (OpenAI and Claude) and    *)
(* OllamaClient, and the factory NewAIClient that chooses between them.    *)
(*                                                                         *)
(* A client keeps no state: a call is one HTTP request, and its outcome is *)
(* a function of the client and of the reply.  A reply is lost, has        *)
(* another status than 200, cannot be decoded (or is larger than the       *)
(* client reads), or holds texts; Ollama's holds one and may say that it   *)
(* is an error or not done.  text.whole says whether the model came to its *)
(* end, which only Ollama's client asks.                                   *)
(***************************************************************************)
EXTENDS Integers, Sequences

CONSTANTS
    Texts,          \* the texts an LLM may produce, Nothing among them
    Nothing         \* what is left of an answer without text

\* What HTTP can make of a request.
Replies ==
    LET answer == [kind |-> "answer", error |-> FALSE, texts |-> <<>>] IN
    {[answer EXCEPT !.kind = k] : k \in {"lost", "refused", "garbled", "answer"}}
    \cup {[answer EXCEPT !.error = e, !.texts = <<t>>] : t \in Texts, e \in BOOLEAN}
    \cup {[answer EXCEPT !.texts = <<Nothing, t>>] : t \in Texts}

----------------------------------------------------------------------------
\* NewAIClient: everything but Ollama is a Client, whose provider is looked at
\* when it is called.
rawClient(g) ==
    [kind |-> IF g.Provider = "ollama" THEN "ollama" ELSE "client",
     provider |-> g.Provider, apiKey |-> g.APIKey, model |-> g.Model,
     allowedModels |-> g.AllowedModels, baseURL |-> g.OllamaBaseURL]

aiConfig(g) ==
    [MaxRetries |-> IF g.MaxRetry <= 0 THEN 1 ELSE g.MaxRetry,
     EnableTranslation |-> g.EnableTranslation,
     StrictLanguageCheck |-> g.StrictLangCheck]

\* The model that is asked for: OpenAI's is always the same.
modelOf(c) == IF c.provider = "openai" THEN "gpt-4" ELSE c.model

Error == [err |-> TRUE, text |-> Nothing]
Said(t) == [err |-> FALSE, text |-> t]

\* Client.Call, CallWithMaxTokens: the checks before the request is sent.
sends(c) ==
    /\ c.apiKey
    /\ \/ c.provider = "openai"
       \/ c.provider = "claude"
          /\ (c.allowedModels # {} => c.model \in c.allowedModels)

\* callOpenAI, callClaude: the first text of a decoded 200.
callCloud(r) ==
    IF r.kind # "answer" \/ r.texts = <<>> THEN Error ELSE Said(r.texts[1])

\* Fault: done is not looked at.
callWithOptionsAnyDone(c, r) ==
    IF ~c.baseURL \/ r.kind # "answer" \/ r.error THEN Error
    ELSE Said(IF r.texts = <<>> THEN Nothing ELSE r.texts[1])

\* OllamaClient.callWithOptions: an absent response is empty, and an absent
\* done is false.  Without a base URL there is no host to reach.
callWithOptions(c, r) ==
    IF ~c.baseURL \/ r.kind # "answer" \/ r.error \/ r.texts = <<>> THEN Error
    ELSE IF r.texts[1].whole THEN Said(r.texts[1]) ELSE Error

\* AIClient.Call.
callClient(c, r) ==
    CASE c.kind = "ollama" -> callWithOptions(c, r)
      [] sends(c) -> callCloud(r)
      [] OTHER -> Error

\* What a call may come to.
Answers(c) == {callClient(c, r) : r \in Replies}
=============================================================================
