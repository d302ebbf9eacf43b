------------------------------ MODULE MCReads -------------------------------
(* A small instance of Reads: every kind of Range header asked by a viewer *)
(* of the workspace "w", and plain requests with every kind of token.      *)
EXTENDS Reads, TLC

Token(signer, sub, groups, module) ==
  [iss |-> "idp", signer |-> signer, aud |-> TRUE, sub |-> sub, groups |-> groups,
   module |-> module]

Person == <<"person", "">>

Tokens ==
  {NoToken, [Token("idp", Person, {<<"w", "owner">>}, "") EXCEPT !.aud = FALSE],
   Token("stranger", Person, {<<"w", "owner">>}, ""),
   [Token("stranger", Person, {<<"w", "owner">>}, "") EXCEPT !.iss = "stranger"],
   Token("idp", <<"grants", "w">>, {<<"w", "viewer">>}, "streamlit")}
  \union {Token("idp", Person, g, "") :
            g \in {{<<"w", "viewer">>, <<"w", "editor">>}, {<<"v", "owner">>, <<"w", "viewer">>}}}

Absent == [form |-> "absent"]

Ranges ==
  {Absent, [form |-> "malformed"], [form |-> "junk", first |-> 1]}
    \union [form : {"from"}, first : {0, 1, 2}]
    \union [form : {"between"}, first : {0, 1, 2}, last : {0, 1, 4}]
    \union [form : {"suffix"}, last : {0, 1, 4}]

Viewer == Token("idp", Person, {<<"w", "viewer">>}, "")

MCRequests ==
  [token : {Viewer}, ws : {"w"}, forwarded : {""}, route : {"get"}, range : Ranges]
    \union [token : Tokens, ws : {"", "v", "w"}, forwarded : {"", "viewer", "editor", "guest"},
            route : {"delete", "head"}, range : {Absent}]

=============================================================================
