------------------------------ MODULE MCProbeRun ------------------------------
(***************************************************************************)
(* Instance of ProbeRun for TLC: two runs that overlap, one brand, two     *)
(* prompts, a critical answer and a harmless one, and one fault.           *)
(***************************************************************************)
EXTENDS ProbeRun

Answer(claims, tones, negative) ==
  [claims |-> claims, tones |-> [c \in Competitors |-> tones], negative |-> negative,
   near |-> [a \in Attributes |-> "high"]]

MCSlug == [c \in Claims \cup Competitors \cup Attributes |-> c]
MCAnswers == {Answer(Claims, {"positive", "negative"}, FALSE), Answer({}, {"negative"}, FALSE)}
MCManifest ==
  [b \in Brands |-> [claims |-> Claims, competitors |-> Competitors, described |-> TRUE,
                    false |-> Attributes]]

===============================================================================
