---------------------------- MODULE XmlDocument ----------------------------
(***************************************************************************)
(* TinyXML: how the text of a document becomes a tree, and how the tree is  *)
(* searched.  A text is a sequence of marks: a tag with its attributes, a   *)
(* comment, a declaration, a run of characters; white space between them is *)
(* skipped.  The value of an attribute or of a run is not looked into.      *)
(***************************************************************************)
EXTENDS Sequences, Integers, SequencesExt, Functions

CONSTANT None   \* a null pointer, an attribute that cannot be read

\* The marks of a text.
Mark(kind, value) == [kind |-> kind, value |-> value]
Tag(kind, tag, attributes) == [kind |-> kind, tag |-> tag, attributes |-> attributes]

Declaration == [kind |-> "declaration", attributes |-> <<<<"version", "1.0">>>>]
Comment     == Mark("comment", "...")
Characters(value)     == Mark("text", value)
Open(tag, attributes) == Tag("open", tag, attributes)
Empty(tag, attributes) == Tag("empty", tag, attributes)
Close(tag)            == Tag("close", tag, <<>>)

\* Where a parser returns to: a position, Len(text) + 1 at the terminating zero, or
\* NULL.
Null == 0

\* Attributes up to the first that cannot be read.  A name that comes twice gets the
\* second value, and reading stops there, too.
ReadAttributes(attributes) ==
  FoldLeft(LAMBDA read, attribute :
             IF read.stopped THEN read
             ELSE IF attribute[2] = None THEN [read EXCEPT !.stopped = TRUE, !.error = TRUE]
             ELSE [read EXCEPT !.map = attribute[1] :> attribute[2] @@ @,
                               !.stopped = attribute[1] \in DOMAIN read.map],
           [map |-> <<>>, stopped |-> FALSE, error |-> FALSE], attributes)

\* TiXmlDeclaration::Parse: its attributes know no document to report an error to.
ParseDeclaration(text, p) ==
  [node  |-> Mark("declaration", <<>>),
   next  |-> IF \E i \in DOMAIN text[p].attributes : text[p].attributes[i][2] = None
             THEN Null ELSE p + 1,
   error |-> FALSE]

\* TiXmlElement::Parse and ReadValue.  An end tag must be that of the element; the
\* text may not end before it.
RECURSIVE ParseElement(_, _), ReadValue(_, _, _)

ParseElement(text, p) ==
  LET read  == ReadAttributes(text[p].attributes)
      inner == IF read.stopped THEN [children |-> <<>>, next |-> Null]
               ELSE IF text[p].kind = "empty" THEN [children |-> <<>>, next |-> p]
               ELSE ReadValue(text, p + 1, <<>>)
      ended == inner.next \in DOMAIN text /\ text[inner.next] = Close(text[p].tag)
  IN [node  |-> [kind |-> "element", tag |-> text[p].tag, attributes |-> read.map,
                 children |-> inner.children],
      next  |-> IF ended \/ inner.next = p THEN inner.next + 1 ELSE Null,
      error |-> IF read.stopped THEN read.error ELSE ~(ended \/ inner.next = p)]

\* Identify, and the Parse of what it finds.
ParseNode(text, p) ==
  CASE text[p].kind \in {"open", "empty"} -> ParseElement(text, p)
    [] text[p].kind = "declaration"       -> ParseDeclaration(text, p)
    [] OTHER -> [node |-> Mark(text[p].kind, text[p].value), next |-> p + 1, error |-> FALSE]

ReadValue(text, p, children) ==
  IF p \notin DOMAIN text THEN [children |-> children, next |-> Null]
  ELSE IF text[p].kind = "close" THEN [children |-> children, next |-> p]
  ELSE LET parsed == ParseNode(text, p)
       IN ReadValue(text, parsed.next, Append(children, parsed.node))

\* TiXmlDocument::Parse.  What stands before or after the elements and cannot be
\* identified ends the parse, without an error once there is a child.
RECURSIVE ParseDocument(_, _, _)
ParseDocument(text, p, document) ==
  IF p \notin DOMAIN text \/ text[p].kind = "text"
  THEN [document EXCEPT !.error = @ \/ document.children = <<>>]
  ELSE LET parsed == IF text[p].kind = "close"
                     THEN [node |-> Mark("unknown", <<>>), next |-> p + 1, error |-> FALSE]
                     ELSE ParseNode(text, p)
       IN ParseDocument(text, parsed.next,
                        [children |-> Append(document.children, parsed.node),
                         error |-> document.error \/ parsed.error])

\* LoadFile, of a file that is None when it cannot be opened or read.
LoadFile(file) ==
  IF file = None THEN [children |-> <<>>, error |-> TRUE]
  ELSE ParseDocument(file, 1, [children |-> <<>>, error |-> FALSE])
-----------------------------------------------------------------------------
(* Searching the tree. *)

\* FirstChildElement with one tag, then NextSiblingElement with another, to the end.
Walk(node, first, next) ==
  LET Is(child, tag) == child.kind = "element" /\ child.tag = tag
      firsts == {i \in DOMAIN node.children : Is(node.children[i], first)} IN
  IF firsts = {} THEN <<>>
  ELSE <<node.children[Min(firsts)]>>
         \o SelectSeq(SubSeq(node.children, Min(firsts) + 1, Len(node.children)),
                      LAMBDA child : Is(child, next))

FirstChildElement(node, tag) ==
  LET found == Walk(node, tag, tag) IN IF found = <<>> THEN None ELSE found[1]

\* The first element of a document, whatever its tag.
RootElement(document) ==
  LET elements == SelectSeq(document.children, LAMBDA child : child.kind = "element")
  IN IF elements = <<>> THEN None ELSE elements[1]

Attribute(element, name) ==
  IF name \in DOMAIN element.attributes THEN element.attributes[name] ELSE None

\* QueryValueAttribute, when only TIXML_SUCCESS counts: an empty value has the wrong
\* type.
QueryValueAttribute(element, name) ==
  IF Attribute(element, name) = "" THEN None ELSE Attribute(element, name)

\* GetText: of the first child, and of no other.
GetText(element) ==
  IF element.children = <<>> \/ element.children[1].kind # "text" THEN None
  ELSE element.children[1].value
=============================================================================
