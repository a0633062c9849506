---------------------------- MODULE MCRequestRead ----------------------------
(* Requests of the run request_read.                                       *)
EXTENDS RequestRead, QueryString

Line(method) == <<method, " ", "/path", " ", "HTTP", "/", "1.1">>

Field2(name, space, value) == [name |-> name, space |-> space, value |-> value]

Length(space, value) == Field2(<<"Content-Length">>, space, <<value>>)

Get == [line |-> Line("GET"), fields |-> <<>>, content |-> <<>>]

Post(fields, content) == [line |-> Line("POST"), fields |-> fields, content |-> content]

\* Contents that hold ends of lines, a field or a blank line; an empty one; a
\* field with an empty value; then a length that is none, a request line that
\* ends early, and a field without a colon in front of the length.
Kinds ==
  {Get,
   Post(<<Length(TRUE, "2")>>, <<"x", "LF">>),
   Post(<<Field2(<<"Accept">>, FALSE, <<>>), Length(FALSE, "4")>>, CRLF \o CRLF),
   Post(<<Length(TRUE, "3"), Field2(<<"Accept">>, TRUE, <<"a", ":">>)>>, <<"x", ":", "CR">>),
   Post(<<Length(TRUE, "0")>>, <<>>),
   Post(<<Length(TRUE, "x")>>, <<"x">>),
   [Get EXCEPT !.line = <<"GET", " ", "/path">>],
   Post(<<Field2(<<>>, FALSE, <<"junk">>), Length(TRUE, "2")>>, <<"x", "x">>)}

MCPlans == {<<k>> : k \in Kinds} \cup (Kinds \X Kinds)

\* a, 4a
MCKeys == {<<97>>, <<52, 97>>}

MCInit == Init /\ QueryInit

\* A step of the connection, which forgets the query.
Quietly(A) == A /\ NewPath

\* The client makes up a query for the path of a single GET before it sends it;
\* the sent path is one symbol.
Writing(A) == plan = <<Get>> /\ ~ pipelined /\ begun = 0 /\ A /\ UNCHANGED vars

MCNext ==
  \/ Quietly(ClientSends)
  \/ Quietly(ReceiveHeader)
  \/ Quietly(ReceiveContent)
  \/ Quietly(HeaderDone)
  \/ Quietly(ContentDone)
  \/ Quietly(Answered)
  \/ Writing(WriteKey)
  \/ Writing(WriteCharacter)

MCSpec == MCInit /\ [][MCNext]_<<vars, query>> /\ Fairness
=============================================================================
