-------------------------------- MODULE MCBroker -------------------------------
(* Broker for TLC: two clients, two relays, two servers, and the stacks  *)
(* that differ in what is mandatory, optional or signed.                 *)
EXTENDS Broker

\* Clients and servers are queue groups of two; each member has its own address.
MCNode == {"c1", "c2", "r", "q", "s1", "s2"}
MCAddress == [n \in MCNode |->
    CASE n = "c1" -> <<"c", "1">> [] n = "c2" -> <<"c", "2">>
      [] n = "r" -> <<"r", "1">> [] n = "q" -> <<"r", "2">>
      [] n = "s1" -> <<"s", "1">> [] n = "s2" -> <<"s", "2">>]
MCSubject == UNION {{SubSeq(MCAddress[n], 1, k) : k \in 1 .. 2} : n \in MCNode}
MCBeyond == <<"s">>

\* Each alone, in pairs and all, and a second algorithm.
MCStacks ==
    {<<>>, <<Authorize>>, <<Optional>>, <<Authorize, Optional>>} \cup
    {ws \o <<Signature("a")>> : ws \in {<<Authorize>>, <<Authorize, Optional>>}} \cup
    {<<Authorize, Signature("b")>>}

===============================================================================
