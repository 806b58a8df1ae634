----------------------------- MODULE MCRunReport -----------------------------
(* Instances of RunReport for TLC.                                         *)
EXTENDS RunReport, TLC

\* Names, character by character but for the words.
Gpt4 == <<"gpt", "-", "4">>
Gpt4o == Gpt4 \o <<"o">>
Mini == Gpt4o \o <<"-", "mini">>
Opus4 == <<"claude", "-", "opus", "-", "4">>
Opus46 == Opus4 \o <<"-", "6">>
Opus47 == Opus4 \o <<"-", "7">>
Sonnet45 == <<"claude", "-", "sonnet", "-", "4", "-", "5">>
Unknown == <<"unknown">>

\* What providers put before and after them.
Anthropic == <<"anthropic", ".">>
Date == <<"-", "2", "0", "2", "4", "-", "0", "8", "-", "0", "6">>
Day == <<"-", "2", "0", "2", "5", "0", "9", "2", "9">>
V1 == <<"-", "v", "1">>

OpusId == <<"global", ".">> \o Anthropic \o Opus46 \o V1

\* Rows of config/pricing.json, and those of older generations.
MCRow == {Gpt4, Gpt4o, Mini, Opus4, Opus46, Sonnet45}

MCGeneration ==
    (Gpt4 :> Gpt4) @@
    (Gpt4o \o Date :> Gpt4o) @@
    (Mini \o Date :> Mini) @@
    (Anthropic \o Opus4 :> Opus4) @@
    (OpusId :> Opus46) @@
    (Opus47 :> Opus47) @@
    (Opus4 \o <<"0">> :> Opus4 \o <<"0">>) @@
    (Sonnet45 \o Day \o V1 :> Sonnet45) @@
    (Unknown :> Unknown)

MCModelId == DOMAIN MCGeneration

Tier(extraction, writer, verifier) ==
    [extraction |-> extraction, writer |-> writer, verifier |-> verifier]

\* These rows and ids are named as the theorem on PricedByVersion asks.
ASSUME MCNamesTell == NamesTell

\* One model and tiers, priced, priced in part, by a file that cannot be read, and
\* a provider that does not name its model.
MCSetup ==
    {[pricing |-> MCRow, model |-> Tier(OpusId, OpusId, OpusId)],
     [pricing |-> MCRow, model |-> Tier(Mini \o Date, Opus47, OpusId)],
     [pricing |-> {Gpt4o}, model |-> Tier(Mini \o Date, OpusId, Unknown)],
     [pricing |-> {}, model |-> Tier(OpusId, OpusId, OpusId)]}

\* Retries alone, without regard to prices.
MCOneSetup == {[pricing |-> MCRow, model |-> Tier(OpusId, OpusId, OpusId)]}
==============================================================================
