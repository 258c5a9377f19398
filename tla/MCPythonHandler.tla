-------------------------- MODULE MCPythonHandler --------------------------
(***************************************************************************)
(* PythonHandler on a few requests: query strings and forms that an encoder *)
(* writes, multipart bodies of up to two parts, and malformed ones.        *)
(***************************************************************************)
EXTENDS PythonHandler

a == 97   b == 98

Request(kind, content) ==
  [kind |-> kind, body |-> content, query |-> <<>>, cookies |-> <<>>,
   pairs |-> <<>>, parts |-> <<>>, taken |-> {}]

Keys   == {<<a>>, <<b, Percent>>}
Values == {<<>>, <<Plus>>, <<a, 200>>}
PairLists == {<<>>} \cup {<<p>> : p \in Keys \X Values}
             \cup {<<p, q>> : p \in Keys \X Values, q \in Keys \X Values}

Queries == { [Request("none", <<>>) EXCEPT !.query = Encoded(pairs, Amp), !.pairs = pairs] :
               pairs \in PairLists }
Forms   == { Request("form", Encoded(<<p, q>>, Amp)) :
               p \in {<<a>>} \X Values, q \in {<<b>>} \X Values }

\* The same name in all three places.
Shadowed == { [Request("form", Encoded(<<<<<<a>>, <<b>>>>>>, Amp))
                 EXCEPT !.query = Encoded(<<p>>, Amp), !.pairs = <<p>>,
                        !.cookies = <<a, Equals, b>>] : p \in {<<a>>} \X Values }

Field(name, data) ==
  [isFile |-> FALSE, name |-> name, fileName |-> <<>>, data |-> data]
Upload(name, fileName, data) ==
  [isFile |-> TRUE, name |-> name, fileName |-> fileName, data |-> data]

Multipart(parts) == [Request("multipart", MultipartText(parts)) EXCEPT !.parts = parts]

Contents == {<<>>, <<a, LineEnd, Dashes>>, <<b, LineEnd, LineEnd>>}

Multiparts ==
  { Multipart(<<p>>) : p \in { Field(<<a>>, d) : d \in Contents }
                          \cup { Upload(<<a>>, <<b>>, d) : d \in Contents } }
  \cup { Multipart(<<Upload(<<a>>, <<b>>, d), Field(<<b>>, <<a>>)>>) : d \in Contents }
  \cup { Multipart(<<>>), Multipart(<<Field(<<a>>, <<b>>), Field(<<a>>, <<a>>)>>),
         Multipart(<<Upload(<<a>>, <<b>>, <<a>>), Upload(<<b>>, <<b>>, <<b>>)>>),
         Multipart(<<Upload(<<a>>, <<b>>, <<a>>), Upload(<<a>>, <<a>>, <<b>>)>>),
         Multipart(<<Upload(<<a>>, <<>>, <<>>), Field(<<b>>, <<a>>)>>) }

Malformed ==
  { Request("form", <<a, Equals, Percent, a, Amp, b, Equals, b>>),
    [Request("form", <<a, Equals, b>>) EXCEPT !.cookies = <<a, Equals, Percent>>],
    [Request("none", <<>>) EXCEPT !.query = <<Percent, a>>],
    Request("multipart", BoundaryBegin \o <<LineEnd, FormData>> \o HeadersEndMark
                           \o <<a, LineEnd>> \o BoundaryEnd),
    Request("multipart", <<a>> \o BoundaryEnd),
    Request("multipart", PartText(Upload(<<a>>, <<b>>, <<a, b>>))),
    Request("multipart", PartText(Upload(<<a>>, <<b>>, <<b>>)) \o BoundaryBegin
                           \o <<LineEnd, FormData>> \o HeadersEndMark) }

Named(n) == [name |-> <<b>>, prefix |-> n]
Taken == { {}, {Named(0)}, {Named(1)} }

MCContexts ==
  Queries \cup Forms \cup Shadowed \cup Malformed
  \cup { [r EXCEPT !.taken = taken] : r \in Multiparts, taken \in Taken }
=============================================================================
