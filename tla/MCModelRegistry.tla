--------------------------- MODULE MCModelRegistry ---------------------------
(***************************************************************************)
(* Two providers.  "a" has the built-in models "x" and "x:1"; an id may    *)
(* hold a colon.                                                           *)
(***************************************************************************)
EXTENDS ModelRegistry

MCProviders == {<<"a">>, <<"b">>}
MCIds == {<<"x">>, <<"x", "1">>}

MCBuiltIn ==
  [k \in {KeyOf(<<"a">>, i) : i \in MCIds} |->
     [id |-> Tail(k), about |-> "built-in", api |-> "anthropic", provider |-> <<"a">>,
      baseUrl |-> "built-in"]]

\* KEY_2 is set, and has a digit.
MCEnv == [v \in {"SET", "KEY_2"} |-> "secret"]
MCStorage == [p \in MCProviders |-> IF p = <<"a">> THEN "stored" ELSE None]

Entry(i, about, api) == [id |-> i, about |-> about, api |-> api]

\* Lists with no model, with both, and with the same id twice; only a base URL; only a key.
MCConfigs ==
  {[models |-> <<>>, baseUrl |-> None, apiKey |-> "SET", api |-> None],
   [models |-> <<Entry(<<"x", "1">>, "one", "openai"), Entry(<<"x">>, "two", None)>>,
    baseUrl |-> None, apiKey |-> "UNSET", api |-> None],
   [models |-> <<Entry(<<"x">>, "one", None), Entry(<<"x">>, "two", None)>>,
    baseUrl |-> "url", apiKey |-> "KEY_2", api |-> "openai"],
   [models |-> None, baseUrl |-> "url2", apiKey |-> None, api |-> None],
   [models |-> None, baseUrl |-> "url", apiKey |-> "SET", api |-> None],
   [models |-> None, baseUrl |-> None, apiKey |-> "UNSET", api |-> "openai"]}
=============================================================================
