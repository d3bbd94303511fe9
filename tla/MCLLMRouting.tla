---------------------------- MODULE MCLLMRouting ----------------------------
(***************************************************************************)
(* Instances of LLMRouting for TLC.  The policies are that of              *)
(* draft_assumptions (anthropic, then openai, then openai as the fallback) *)
(* and an override that names a provider the settings have no key for.     *)
(***************************************************************************)
EXTENDS LLMRouting, TLC

CONSTANTS anthropic, openai, other

DraftAssumptions == <<anthropic, openai, openai>>
Override == <<anthropic, other, openai>>

Symmetry == Permutations(Call)

(* "Should the retry also fail, you will see a clear message": a chat ends *)
(* one way or the other, with any pool size the settings allow.            *)
ChatsEnd == CallsEnd
=============================================================================
