--------------------------- MODULE LanguageGuard ---------------------------
(***************************************************************************)
(* Language enforcement on LLM output: ailang.LanguageGuard.Generate, the  *)
(* Translator it falls back on, the stopword heuristic it judges by        *)
(* (package ailang), and aigateway.SafeClient.Call on top of them.         *)
(*                                                                         *)
(* A text is what the code can tell about it: its form ("doc" is a JSON    *)
(* object or array, "scalar" another JSON value, "wrapped" prose with a    *)
(* document in it, "prose" the rest, "empty" nothing after TrimSpace), the *)
(* shape of its document (the keys, the nesting and the values that are no *)
(* strings; 0 without a document), its number of words and how many of     *)
(* them are French and English stopwords.                                  *)
(* The LLM is asked through one of the clients of Providers, and each call *)
(* comes to whatever that client makes of the provider's reply.            *)
(***************************************************************************)
EXTENDS Providers

CONSTANTS
    GatewayConfigs, \* what NewAIClient may be given
    Retries,        \* the values of AIConfig.MaxRetries
    MaxLeaves       \* bound on the strings of a JSON document

Forms == {"doc", "scalar", "wrapped", "prose", "empty"}
TextType == [form: Forms, shape: Nat, words: Nat, fr: Nat, en: Nat, whole: BOOLEAN]
AIConfig == [MaxRetries: Retries \cup {1}, EnableTranslation: BOOLEAN,
             StrictLanguageCheck: BOOLEAN]

VARIABLES
    client,         \* the AIClient inside the SafeClient
    cfg, locale,    \* AIConfig and the locale of the request
    pc,
    raw, result,    \* the first answer; the translation in progress
    leaves,         \* strings of raw still to be translated one by one
    resp,           \* the AIResponse, or the error
    calls, events   \* LLM calls made, mismatches reported

vars == <<client, cfg, locale, pc, raw, result, leaves, resp, calls, events>>

NoResponse == [text |-> Nothing, raw |-> Nothing, valid |-> FALSE,
               retryCount |-> 0, err |-> FALSE]

TypeOK ==
    /\ cfg \in AIConfig
    /\ locale \in {"fr", "en", "de"}
    /\ pc \in {"call", "retry", "translate", "walk", "judge", "done"}
    /\ raw \in TextType /\ result \in TextType /\ leaves \in 0 .. MaxLeaves
    /\ resp \in [text: TextType, raw: TextType, valid: BOOLEAN,
                 retryCount: Nat, err: BOOLEAN]
    /\ calls \in Nat /\ events \in Nat

\* NewAIClient, or NewSafeClient on a client with an AIConfig of one's own.
Init ==
    /\ \E g \in GatewayConfigs :
         client = rawClient(g) /\ cfg \in AIConfig \cup {aiConfig(g)}
    /\ locale \in {"fr", "en", "de"}    \* "" has become "fr"
    /\ pc = "call" /\ raw = Nothing /\ result = Nothing /\ leaves = 0
    /\ resp = NoResponse
    /\ calls = 0 /\ events = 0

----------------------------------------------------------------------------
minTokensForCheck == 5

\* At least 60 % of the stopwords found are of the target language.
IsCorrectLanguage(t) ==
    LET hits == IF locale = "fr" THEN t.fr ELSE t.en IN
    \/ locale \notin {"fr", "en"}
    \/ t.words < minTokensForCheck
    \/ t.fr + t.en = 0
    \/ 10 * hits >= 6 * (t.fr + t.en)

\* A document without strings has no words and passes.
ValidateText(t) == t.form # "empty" /\ IsCorrectLanguage(t)

\* looksLikeJSON and json.Valid differ on scalars.
looksLikeJSON(t) == t.form = "doc"
ValidJSON(t) == t.form \in {"doc", "scalar"}

\* extractJSONFragment finds the document in the prose.
extractJSONFragment(t) == IF t.form = "wrapped" THEN [t EXCEPT !.form = "doc"] ELSE t

\* What follows the first answer, a failed retry and a failed translation.
AfterRetry == IF cfg.EnableTranslation THEN "translate" ELSE "done"
AfterFirst == IF cfg.MaxRetries > 0 THEN "retry" ELSE AfterRetry

Failed == [resp EXCEPT !.valid = FALSE]

----------------------------------------------------------------------------
\* An outcome without a text: an error, or nothing after TrimSpace.
NoText(a) == a.err \/ a.text.form = "empty"

Spoken == {a.text : a \in {b \in Answers(client) : ~NoText(b)}}
Silence == \E a \in Answers(client) : NoText(a)

\* The first call fails or comes back empty: an error.
CallFails ==
    /\ pc = "call" /\ Silence
    /\ resp' = [resp EXCEPT !.err = TRUE]
    /\ pc' = "done" /\ calls' = calls + 1
    /\ UNCHANGED <<client, cfg, locale, raw, result, leaves, events>>

\* The first answer is returned if nothing is wrong with it.
Call ==
    /\ pc = "call"
    /\ \E t \in Spoken :
         LET ok == ~cfg.StrictLanguageCheck \/ ValidateText(t) IN
         /\ raw' = t
         /\ resp' = [resp EXCEPT !.text = t, !.raw = t, !.valid = ok]
         /\ pc' = IF ok THEN "done" ELSE AfterFirst
         /\ events' = IF ok THEN 0 ELSE 1
    /\ calls' = calls + 1
    /\ UNCHANGED <<client, cfg, locale, result, leaves>>

\* Fault: a failed retry is followed by another.
RetryForever ==
    /\ pc = "retry"
    /\ resp' = [Failed EXCEPT !.retryCount = 1]
    /\ calls' = IF calls < 5 + MaxLeaves THEN calls + 1 ELSE calls
    /\ UNCHANGED <<client, cfg, locale, pc, raw, result, leaves, events>>

\* One retry; an error, an empty or a wrong answer leads to the translation.
Retry ==
    /\ pc = "retry"
    /\ \E a \in Answers(client) :
         LET t == a.text
             ok == ~a.err /\ ValidateText(t)
         IN
         /\ resp' = IF ok
                    THEN [text |-> t, raw |-> t, valid |-> TRUE,
                          retryCount |-> 1, err |-> FALSE]
                    ELSE [Failed EXCEPT !.retryCount = 1]
         /\ pc' = IF ok THEN "done" ELSE AfterRetry
         /\ events' = IF ok THEN events ELSE events + 1
    /\ calls' = calls + 1
    /\ UNCHANGED <<client, cfg, locale, raw, result, leaves>>

\* Translate fails: a call error or an empty answer.
TranslateFails ==
    /\ pc = "translate" /\ Silence
    /\ resp' = Failed
    /\ pc' = "done" /\ calls' = calls + 1
    /\ UNCHANGED <<client, cfg, locale, raw, result, leaves, events>>

\* translatePlain, or translateJSON up to its last resort: the document's
\* strings one at a time.
Translate ==
    /\ pc = "translate"
    /\ \E t \in Spoken, n \in 0 .. MaxLeaves :
         LET json == looksLikeJSON(raw)
             got == IF json /\ ~ValidJSON(t) THEN extractJSONFragment(t) ELSE t
             walk == json /\ ~ValidJSON(got)
         IN  /\ walk \/ n = 0
             /\ result' = IF walk THEN raw ELSE got
             /\ leaves' = n
             /\ pc' = IF walk THEN "walk" ELSE "judge"
    /\ calls' = calls + 1
    /\ UNCHANGED <<client, cfg, locale, raw, resp, events>>


\* The decoded document with a string of it replaced by a text, as Marshal writes
\* it out: whatever form the text has, there it is a quoted string.
Quoted(doc, t) ==
    [t EXCEPT !.form = doc.form, !.shape = doc.shape, !.whole = t.whole /\ doc.whole]

\* walkTranslate: each string is replaced, or kept if its call fails.
Walk ==
    /\ pc = "walk" /\ leaves > 0
    /\ \/ Silence /\ result' = result
       \/ \E t \in Spoken : result' = Quoted(result, t)
    /\ leaves' = leaves - 1 /\ calls' = calls + 1
    /\ UNCHANGED <<client, cfg, locale, pc, raw, resp, events>>

WalkEnds ==
    /\ pc = "walk" /\ leaves = 0
    /\ pc' = "judge"
    /\ UNCHANGED <<client, cfg, locale, raw, result, leaves, resp, calls, events>>

\* The translation is validated like any other text.
Judge ==
    /\ pc = "judge"
    /\ resp' = IF ValidateText(result)
               THEN [resp EXCEPT !.text = result, !.valid = TRUE] ELSE Failed
    /\ pc' = "done"
    /\ UNCHANGED <<client, cfg, locale, raw, result, leaves, calls, events>>

\* The response is returned and the guard serves the next request.
Again ==
    /\ pc = "done"
    /\ pc' = "call" /\ raw' = Nothing /\ result' = Nothing /\ leaves' = 0
    /\ resp' = NoResponse
    /\ calls' = 0 /\ events' = 0
    /\ locale' \in {"fr", "en", "de"}
    /\ UNCHANGED <<client, cfg>>

Step == Call \/ CallFails \/ Retry \/ Translate \/ TranslateFails \/ Walk
        \/ WalkEnds \/ Judge

Next == Step \/ Again

\* Every LLM call ends, by its context's deadline if not otherwise.
Spec == Init /\ [][Next]_vars /\ WF_vars(Step)

----------------------------------------------------------------------------
Returned == pc = "done" /\ ~resp.err

\* Under the strict check, Valid means that the text returned, whichever
\* strategy produced it, passed the validation (Generate).
ValidMeansValidated ==
    Returned /\ resp.valid /\ cfg.StrictLanguageCheck => ValidateText(resp.text)


\* "JSON documents are translated in a single LLM call [...] keeping keys and
\* non-string values unchanged and the output structurally valid"
\* (ailang/translator.go:11-13).
StructureKept ==
    Returned /\ looksLikeJSON(raw) /\ result.form # "empty" =>
        looksLikeJSON(result) /\ result.shape = raw.shape

\* The number of LLM calls for one request is bounded.
CallsBounded == calls <= 3 + MaxLeaves

\* Whichever strategy produced it, a text that is returned was said by a
\* provider that the client may use, for Claude with an allowed model, and with
\* Ollama it is no piece of an unfinished answer (Call, callWithOptions).
AnswersAreGenuine ==
    Returned =>
        /\ client.kind = "ollama" => resp.text.whole /\ client.baseURL
        /\ client.kind # "ollama" => client.apiKey /\ client.provider # "other"
        /\ client.provider = "claude" /\ client.allowedModels # {}
             => modelOf(client) \in client.allowedModels

\* Every request is answered: retries and fallbacks never loop.
EventuallyReturns == pc = "call" ~> pc = "done"

\* "The returned string is guaranteed to be in the requested locale when
\* ailang.AIConfig.StrictLanguageCheck is true": SafeClient.Call returns
\* resp.Text of every response without an error.
SafeClientGuarantee ==
    Returned /\ cfg.StrictLanguageCheck => ValidateText(resp.text)

\* "MaxRetries is the number of reinforced retries before falling back": no
\* translation and no failure with retries left.
RetriesAsConfigured ==
    Returned /\ ~resp.valid => resp.retryCount = cfg.MaxRetries

\* "AllowedModels restricts which models may be used.  Empty = any." (Config)
ModelsAsAllowed ==
    Returned /\ client.allowedModels # {} => modelOf(client) \in client.allowedModels

\* "Raw is the unmodified first LLM response, kept for debugging" (AIResponse).
RawIsFirstAnswer == Returned => resp.raw = raw
=============================================================================
