------------------------------ MODULE MCAgent ------------------------------
(* An instance of Agent for TLC. *)
EXTENDS Agent

\* Free and able to call tools; under an agreement; both.
MCFallbackOrder == <<"groq", "bedrock", "openai">>
=============================================================================
