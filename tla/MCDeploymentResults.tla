-------------------------- MODULE MCDeploymentResults --------------------------
(* Small instances of DeploymentResults.                                   *)
EXTENDS DeploymentResults

\* Services: with a TCP port that is exposed, not exposed, exposed with a port
\* that is missing or not TCP, or without a result name.
Web == [web |-> "TCP"]
Open(n) == [result |-> n, exposed |-> "web", ports |-> Web]
Inner(n) == [result |-> n, exposed |-> NoPort, ports |-> Web]
Missing == [result |-> 1, exposed |-> "rpc", ports |-> Web]
Datagram == [result |-> 1, exposed |-> "web", ports |-> [web |-> "UDP", rpc |-> "TCP"]]
Unnamed == [result |-> NoName, exposed |-> "rpc", ports |-> Web]
Looks == {Open(1), Open(2), Inner(2), Missing, Datagram, Unnamed}

\* Names of deployments: b, a-b and a.b, which is a-b to the selector.
Names == {<< <<"b">>, <<"a", "-", "b">> >>, << <<"a", ".", "b">>, <<"a", "-", "b">> >>}

App == <<"x", "app">>
Components == {<<App, <<"x", "web">> >>, <<App, <<"y", "app">> >>, <<App, <<"x", "app", "">> >>,
               <<App, <<"">> >>}

\* Results of another deployer: of another type, with the name of an own result,
\* exposed without a port, or not unique.
Other(n, t, p) == [name |-> n, type |-> t, service |-> 9, ports |-> p, exposed |-> "web"]
Foreign == {<< >>} \cup {<< <<<<"z", "db">>, results>> >> : results \in
              {<<Other(1, "other", << >>), Other(2, HTTP, Web)>>, <<Other(3, HTTP, << >>)>>,
               <<Other(3, HTTP, Web), Other(3, HTTP, Web)>>}}

Flag(j, t) == [json |-> j, text |-> t]
Flags == [one |-> [f |-> Flag("number", "1"), g |-> Flag("bool", "true")],
          text |-> [f |-> Flag("string", "1"), g |-> Flag("bool", "true")],
          odd |-> [f |-> Flag("object", "{}"), g |-> Flag("string", "null")],
          huge |-> [f |-> Flag("number", "1e999"), g |-> Flag("string", "x")],
          none |-> << >>]
Given(name) == [given |-> TRUE, flags |-> Flags[name]]
NotGiven == [given |-> FALSE, flags |-> << >>]

Base == [name |-> << <<"b">>, <<"a", "-", "b">> >>, component |-> <<App, <<"x", "web">> >>,
         owner |-> <<1, 1, 2>>, services |-> <<Open(1), Inner(2), Open(2)>>, looks |-> {},
         foreign |-> << >>, features |-> <<Given("one")>>, changes |-> 0]

\* Services of all kinds that change, for both pairs of names.
Publishing == {[Base EXCEPT !.name = n, !.services = <<a, Open(2), c>>, !.looks = Looks, !.changes = 2,
                            !.features = << >>] :
                 n \in Names, a \in Looks, c \in {Open(1), Datagram}}

\* Component names and results of another deployer.
Rendering == {[Base EXCEPT !.component = c, !.foreign = f, !.services = <<a, Inner(2), Open(1)>>] :
                c \in Components, f \in Foreign, a \in {Open(1), Open(2), Inner(1)}}

\* VectorDatas that follow each other, with different features.
Serving == {[Base EXCEPT !.services = <<Open(1), Unnamed, Unnamed>>, !.features = <<f, g, h>>] :
              f, g, h \in {Given(n) : n \in DOMAIN Flags} \cup {NotGiven}}

All == Publishing \cup Rendering \cup Serving
=============================================================================
