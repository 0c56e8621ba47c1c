--------------------------- MODULE MCInboundAuth ---------------------------
(* Two request goroutines and two kids; tokens that meet the policy, for a  *)
(* while or altogether, and tokens that each fail one of its checks.        *)
EXTENDS InboundAuth

GoodToken ==
    [kid |-> "k1", signer |-> "k1", exp |-> {1}, starts |-> {0, 1}, iss |-> "idp",
     aud |-> {"docsclaw", "other"}, scope |-> {}, scp |-> {"agent"}, azp |-> <<>>,
     clientID |-> <<"team", "a">>]

MCTokens ==
    { GoodToken,
      [GoodToken EXCEPT !.kid = "k2", !.signer = "k2", !.azp = <<"solo", "b">>,
                        !.scope = {"agent"}, !.scp = {}],
      [GoodToken EXCEPT !.signer = "k2"],
      [GoodToken EXCEPT !.exp = {}],
      [GoodToken EXCEPT !.exp = {0}],
      [GoodToken EXCEPT !.starts = {2}],
      [GoodToken EXCEPT !.iss = "rogue"],
      [GoodToken EXCEPT !.aud = {"other"}],
      [GoodToken EXCEPT !.scp = {"read"}],
      [GoodToken EXCEPT !.azp = <<"solo", "c">>],
      [GoodToken EXCEPT !.clientID = <<>>] }

MCAllowedCallers == {<<"team">>, <<"solo", "b">>}
===========================================================================
