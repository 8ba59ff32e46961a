---------------------------- MODULE MCBulkQuery ----------------------------
EXTENDS BulkQuery

MCAlphabet ==
    <<"a", "b", "c", ":", ",", " ", "\n", "info", "group", "about", "state", "more", "why", "x",
      "gDC", "BDC", "gAPI", "gAPS", "DP", "SLP", "gASL", "SLL", "EPI", "gGI", "GI", "gEDI", "EDI",
      "DPS", "EPS", "NOK", "Err", "29", "8", "Dbg", "0", "1", "2">>

A == [id |-> <<"a">>, name |-> <<"x">>, kind |-> "digital", labels |-> <<>>, group |-> <<>>,
      access |-> "OK"]
B == [A EXCEPT !.id = <<"b">>]
C == [A EXCEPT !.id = <<"c">>]

Select(port, labels) == [port EXCEPT !.kind = "select", !.labels = labels]
In(port, group) == [port EXCEPT !.group = <<group>>]
Group(id, parent) == [id |-> <<id>>, parent |-> parent]

\* Names a device might use: empty, with blanks and separators at either end, a
\* terminator, and one that is too long.
Name == {<<>>, <<" ", "x">>, <<"x", " ">>, <<"x", ":">>, <<":", "x">>, <<"a", ":", "b">>,
         <<"\n">>, <<"x", "x", "x", "x", "x", "x", "x", "x", "x", "x", "x", "x", "x", "x">>}

Quiet == [ports |-> <<A>>, groups |-> <<>>, cipher |-> FALSE, disturbed |-> FALSE, streaming |-> FALSE,
          first |-> <<>>, trim |-> TRUE]

Named == {[Quiet EXCEPT !.ports = <<A, [B EXCEPT !.name = name]>>, !.cipher = cipher] :
             name \in Name, cipher \in BOOLEAN}

\* Devices the bulk queries do not work for, or not for all of their ports.
Odd == {[Quiet EXCEPT !.ports = listed] :
           listed \in {<<>>, <<[A EXCEPT !.kind = "streaming"]>>, <<A, [B EXCEPT !.kind = "streaming"]>>,
                      <<[A EXCEPT !.access = "DENIED"], B>>, <<[A EXCEPT !.access = "FAILED"], B>>,
                      <<[A EXCEPT !.access = "PORT_ERROR"], B>>,
                      <<[A EXCEPT !.id = <<"a", ",">>], B>>}}

Disturbed == {[Quiet EXCEPT !.disturbed = TRUE, !.cipher = cipher, !.ports = listed,
                            !.streaming = streaming, !.first = first] :
                 listed \in {<<A>>, <<A, B>>}, cipher \in BOOLEAN, streaming \in BOOLEAN,
                 first \in {<<>>, << <<"Dbg">>, <<"a">> >>}}

Streaming == {[Quiet EXCEPT !.ports = <<A, B>>, !.streaming = TRUE, !.cipher = cipher] :
                 cipher \in BOOLEAN}

\* Messages of the master: parts of every form, trimmed and not.
FormOfPart == {<<>>, <<"a">>, <<" ">>, <<" ", "a">>, <<"a", " ">>, <<":">>, <<"a", ":">>,
               <<"a", ":", ":", "b">>}

Messages == {[Quiet EXCEPT !.first = <<<<"Dbg">>>> \o rest, !.trim = trim] :
                trim \in BOOLEAN,
                rest \in {<<p, q>> : p \in FormOfPart, q \in FormOfPart}
                         \cup {<<<<"a">>, <<>>, <<"b">>, <<"a">>>>, <<<<"\n">>>>}}

Lengths == {[Quiet EXCEPT !.first = <<<<"Dbg">>, [i \in 1..n |-> "a"]>>, !.cipher = cipher] :
               n \in 8..14, cipher \in BOOLEAN}

\* Select ports with labels of several forms, before and behind other ports.
Selecting ==
    {[Quiet EXCEPT !.ports = listed, !.cipher = cipher] :
        listed \in {<<Select(A, <<>>)>>, <<Select(A, << <<"x">>, <<" ", "x">> >>), B>>,
                    <<A, Select(B, << <<>>, <<"x", ":">> >>)>>,
                    <<Select(A, << <<"a">>, <<"\n">> >>), B>>},
        cipher \in BOOLEAN}

\* A chain two ports share, a group that is not known, one that is above itself, and two
\* that are above each other, the lower one below them.
Hierarchies ==
    {<<Group("a", <<>>), Group("b", <<"a">>)>>, <<Group("b", <<"a">>)>>,
     <<Group("a", <<>>), Group("b", <<"b">>)>>,
     <<Group("a", <<"c">>), Group("c", <<"a">>), Group("b", <<"a">>)>>}

Grouped == {[Quiet EXCEPT !.ports = listed, !.groups = groups] :
               listed \in {<<In(A, "b"), In(B, "a")>>, <<A, In(B, "b")>>},
               groups \in Hierarchies}

\* A group above itself, and two below it, one below the other.
BelowCycle == {[Quiet EXCEPT !.ports = <<In(A, "a"), In(B, "b"), In(C, "c")>>,
                             !.groups = <<Group("a", <<"a">>), Group("b", <<"a">>),
                                          Group("c", <<"b">>)>>]}

Interrupted == {[Quiet EXCEPT !.disturbed = TRUE, !.ports = <<port>>,
                              !.groups = <<Group("a", <<>>), Group("b", <<"a">>)>>] :
                   port \in {Select(A, << <<"x">>, <<"a">> >>), In(A, "b")}}

MCConfiguration == Selecting \cup Grouped \cup BelowCycle \cup Interrupted \cup Named \cup Odd \cup Disturbed \cup Streaming \cup Messages \cup Lengths

=============================================================================
