--------------------------- MODULE MCConnections ---------------------------
(* A small instance of Connections for TLC. *)
EXTENDS Connections

SomeClients == 1..2
Send(data, caps) == [data |-> data, caps |-> caps]
SomeSends == {Send(<<3, 4>>, <<>>), Send(<<5>>, <<"unset", "page">>),
              Send(<<>>, <<"page", "page", "page">>)}
=============================================================================
