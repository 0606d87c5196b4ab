----------------------------- MODULE MCKeySetup -----------------------------
(* Instances of KeySetup: three vendors, one of whose models is named after *)
(* it and another after somebody else; a key that names no vendor; models   *)
(* that cannot take a turn.                                                 *)
EXTENDS KeySetup

MCVendors == {"groq", "openai", "together"}
MCMarks == [groq |-> {<<"gsk">>}, openai |-> {<<"sk", "proj">>}, together |-> {<<"tgp">>}]
MCLiteLLMName == [groq |-> "groq", openai |-> "openai", together |-> "together_ai"]

Model(id, ord, strength) ==
  [id |-> id, ord |-> ord, strength |-> strength,
   active |-> TRUE, text |-> TRUE, plain |-> TRUE, context |-> 0]

MCCatalogue ==
  [groq |-> <<Model(<<"openai", "oss">>, 3, 90),
              Model(<<"groq", "compound">>, 1, 50),
              [Model(<<"whisper">>, 4, 70) EXCEPT !.plain = FALSE],
              [Model(<<"guard">>, 2, 70) EXCEPT !.context = 512],
              Model(<<"openai", "oss">>, 3, 20)>>,
   openai |-> <<Model(<<"four">>, 1, 90), [Model(<<"old">>, 2, 90) EXCEPT !.active = FALSE]>>,
   together |-> <<Model(<<"meta", "large">>, 1, 90), Model(<<"meta", "small">>, 2, 25),
                  Model(<<"meta", "medium">>, 3, 50)>>]

GroqKey == <<"gsk", "a">>
BareKey == <<"sk", "b">>
TogetherKey == <<"tgp", "c">>
MCKeys == {GroqKey, BareKey, TogetherKey}
MCPool == <<<<"gsk", "lent1">>, <<"gsk", "lent2">>>>
MCIssuer == [key \in MCKeys \cup ToSet(MCPool) |->
  IF key[1] = "gsk" THEN "groq" ELSE IF key[1] = "tgp" THEN "together" ELSE "openai"]
MCWants == <<"strong", "fast", "mid", "mid">>
=============================================================================
