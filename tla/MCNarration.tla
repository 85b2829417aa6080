---------------------------- MODULE MCNarration ----------------------------
(***************************************************************************)
(* What a narration is made with: the cache of finished ones               *)
(* (NarrationCache) and the language guard on the LLM (LanguageGuard).     *)
(* They share no state: in each behaviour one is in use and one rests.     *)
(***************************************************************************)
EXTENDS NarrationCache

VARIABLES used, client, cfg, locale, pc, raw, result, leaves, resp, calls, events

guardVars == <<client, cfg, locale, pc, raw, result, leaves, resp, calls, events>>

Document(form, shape, words, fr, en) ==
    [form |-> form, shape |-> shape, words |-> words, fr |-> fr, en |-> en,
     whole |-> TRUE]
Text(form, words, fr, en) == Document(form, 0, words, fr, en)
Cut(t) == [t EXCEPT !.whole = FALSE]

\* French, English, undecided (at and below the threshold) and too short to
\* tell, in every form a document or its translation can take.
MCTexts ==
    {Text("prose", 6, 3, 1), Text("prose", 6, 1, 3), Text("prose", 8, 3, 2),
     Text("prose", 4, 0, 3), Document("doc", 1, 6, 0, 2),
     Document("doc", 2, 6, 2, 2), Document("doc", 1, 0, 0, 0),
     Document("wrapped", 1, 6, 2, 0), Document("wrapped", 2, 6, 1, 3),
     Text("scalar", 6, 2, 0), Text("empty", 0, 0, 0),
     Cut(Text("prose", 6, 3, 1)), Cut(Text("prose", 6, 1, 3))}

\* Each provider in working order, and each way not to be.
MCGatewayConfigs ==
    LET works == [Provider |-> "claude", APIKey |-> TRUE, Model |-> "m",
                  AllowedModels |-> {"m"}, OllamaBaseURL |-> FALSE, MaxRetry |-> 0,
                  EnableTranslation |-> TRUE, StrictLangCheck |-> TRUE]
        ollama == [works EXCEPT !.Provider = "ollama", !.OllamaBaseURL = TRUE]
    IN  {works, ollama, [works EXCEPT !.APIKey = FALSE],
         [works EXCEPT !.AllowedModels = {"n"}],
         [works EXCEPT !.Provider = "openai"], [works EXCEPT !.Provider = "other"],
         [ollama EXCEPT !.OllamaBaseURL = FALSE]}

Guard == INSTANCE LanguageGuard WITH
    Texts <- MCTexts, Nothing <- Text("empty", 0, 0, 0),
    GatewayConfigs <- MCGatewayConfigs, Retries <- {0, 1, 2}, MaxLeaves <- 2

MCInit ==
    /\ Init /\ Guard!Init
    /\ \/ used = "guard"
       \/ /\ used = "cache" /\ locale = "fr" /\ client.provider = "openai"
          /\ cfg = [MaxRetries |-> 0, EnableTranslation |-> FALSE,
                    StrictLanguageCheck |-> FALSE]

MCNext ==
    \/ used = "cache" /\ Next /\ UNCHANGED <<used, guardVars>>
    \/ used = "guard" /\ Guard!Next /\ UNCHANGED <<used, vars>>

\* Every LLM call ends, by its context's deadline if not otherwise.
MCSpec ==
    /\ MCInit /\ [][MCNext]_<<used, vars, guardVars>>
    /\ WF_<<used, vars, guardVars>>
         (used = "guard" /\ Guard!Step /\ UNCHANGED <<used, vars>>)

----------------------------------------------------------------------------
(* The properties of the guard, stated and explained in LanguageGuard.     *)

\* A text that is returned is an allowed provider's, Ollama's is finished, and
\* under the strict check Valid means that this text was validated.
ResultsAreGenuine == Guard!ValidMeansValidated /\ Guard!AnswersAreGenuine


\* Every request to the guard is answered.
EventuallyReturns == used = "guard" /\ pc = "call" ~> pc = "done"

\* The cache's map and recency list agree and are bounded (Put, Get), a request
\* costs a bounded number of LLM calls (Generate), and all is well-formed.
Consistent ==
    TypeOK /\ OrderMatchesEntries /\ Guard!TypeOK /\ Guard!CallsBounded
=============================================================================
