---------------------------- MODULE MCAgentStream ----------------------------
(* Small instances of AgentStream.                                         *)
EXTENDS AgentStream, TLC

\* Each message its own text, or all the same.
Own(k) == k
Same(k) == "hello"

\* Any two upsets; or any three beside one message, and any one beside two.
Two(n) == 2
ThreeOrOne(n) == IF n <= 1 THEN 3 ELSE 1
=============================================================================
