---------------------------- MODULE MCAgentGraph ----------------------------
(***************************************************************************)
(* An instance of AgentGraph for TLC: seven calls, plans that mix, repeat  *)
(* and overflow, three calls allowed, two of a kind.                       *)
(***************************************************************************)
EXTENDS AgentGraph

MCToolOf ==
  [c \in {"search", "openRefunds", "daysOf", "sum", "profile", "hand", "bogus"} |->
    CASE c = "search" -> "search_documents"
      [] c \in {"openRefunds", "daysOf"} -> "query_database"
      [] c = "sum" -> "calculate"
      [] c = "profile" -> "call_internal_api"
      [] c = "hand" -> "escalate_to_human"
      [] c = "bogus" -> "unknown"]

MCCalls == DOMAIN MCToolOf

MCPlans ==
  {<<>>, <<"search">>, <<"hand", "sum">>, <<"profile", "profile", "profile">>,
   <<"bogus", "openRefunds">>, <<"openRefunds", "openRefunds", "openRefunds", "openRefunds">>,
   <<"daysOf", "search", "sum", "hand">>}
=============================================================================
