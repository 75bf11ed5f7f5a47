----------------------- MODULE MCCustomerServiceGraph ------------------------
(* The instance of CustomerServiceGraph that TLC checks. *)
EXTENDS CustomerServiceGraph

CONSTANTS p1, p2, p3, e1, e2

MCDomainOf == p1 :> "membership" @@ p2 :> "membership" @@ p3 :> "order"
MCCoverOf == p1 :> {e2} @@ p2 :> {e1} @@ p3 :> {e1, e2}

Plain == [size |-> "ok", form |-> "plain", slot |-> "other", rule |-> "none",
          asks |-> "neither", ids |-> {}, danger |-> FALSE]

MCQuestions ==
    {[Plain EXCEPT !.size = "long"], [Plain EXCEPT !.rule = "transfer"],
     [Plain EXCEPT !.asks = "execution"], [Plain EXCEPT !.form = "reset"],
     [Plain EXCEPT !.form = "ellipsis", !.slot = "price"],
     [Plain EXCEPT !.form = "ellipsis", !.slot = "effect"]}

Supported(intents) ==
    [route |-> "supported", intents |-> intents, entities |-> {}, risk |-> "low",
     clarify |-> FALSE, source |-> "model"]
Other(route, risk) == [Supported(<<>>) EXCEPT !.route = route, !.risk = risk]

MCModelDecisions ==
    {Supported(<< <<"membership", "query">>, <<"order", "query">> >>),
     Supported(<< <<"order", "query">>, <<"account", "recover">> >>),
     [Supported(<< <<"order", "query">> >>) EXCEPT !.risk = "critical"],
     [Supported(<< <<"order", "query">> >>) EXCEPT !.source = "hybrid"],
     Other("out_of_domain", "low"), Other("chitchat", "low"), Other("unsafe", "medium")}
=============================================================================
