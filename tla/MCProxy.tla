------------------------------ MODULE MCProxy ------------------------------
(* Instances of Proxy for TLC. *)
EXTENDS Proxy

\* Requests: small and large, with and without a last line feed, with a line that does
\* not fit the buffer, and none.
Requests ==
  {<<>>, <<"a">>, <<"a", "lf">>, <<"a", "lf", "b">>, <<"a", "lf", "b", "lf">>,
   <<"a", "other", "other", "other", "lf">>}

\* Responses: everything of up to three pieces, and longer ones.
ShortResponses == BoundedSeq(Pieces \ {"b"}, 3)
LongResponses ==
  {<<"data", "blank", "a", "blank", "lf", "b">>, <<"rs", "a", "lf", "rs", "b", "lf">>,
   <<"b", "other", "lf", "other", "other", "other", "other", "other">>}

Exchange(request, response) == [d \in Directions |-> IF d = "IN" THEN request ELSE response]

MCExchanges ==
  {Exchange(<<>>, response) : response \in ShortResponses \union LongResponses} \union
  {Exchange(request, response) : request \in Requests, response \in {<<"b">>, <<"b", "lf", "b">>}}
=============================================================================
