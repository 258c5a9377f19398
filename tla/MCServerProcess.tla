-------------------------- MODULE MCServerProcess --------------------------
(***************************************************************************)
(* The process with documents of three directories: "/", "/a/" below it    *)
(* and "/a/b/" below that, which has a local configuration; or of the first *)
(* two, with a handler that does not initialize.  The others cannot be     *)
(* loaded: an end tag is missing, a folder is missing, an expression is    *)
(* wrong (and there is no log), a record is its own parent.  Each is       *)
(* written as a text with comments in it.                                  *)
(***************************************************************************)
EXTENDS ServerProcess, HttpSettings

\* The directories, as they are meant.
NoDir == [name |-> None, parent |-> None, charset |-> None, browsing |-> None, path |-> None,
          relativePath |-> None, virtualPath |-> None, adds |-> <<>>, removes |-> <<>>,
          handlers |-> <<>>, mappings |-> <<>>]

Registered(name, ext) == [name |-> name, ext |-> ext]

Root == [NoDir EXCEPT !.name = "root", !.path = <<"www">>, !.charset = "utf-8",
           !.adds = <<"index", "main">>,
           !.handlers = <<Registered("python", None), Registered("python", "htm")>>]
DirA == [NoDir EXCEPT !.name = "a", !.parent = "root", !.relativePath = <<"a">>,
           !.virtualPath = <<"a">>, !.browsing = "false", !.removes = <<"main">>,
           !.handlers = <<Registered("other", "htm")>>]
DirB == [NoDir EXCEPT !.name = "b", !.parent = "a", !.relativePath = <<"b">>,
           !.virtualPath = <<"b", "">>, !.adds = <<"main">>,
           !.mappings = <<[regex |-> "old", url |-> "new"]>>]

MCWritten ==
  << <<DirB, Root, DirA>>,                                 \* children before parents
     <<Root, [DirA EXCEPT !.removes = <<>>, !.adds = <<"first">>]>>,
     <<Root, DirA>>,
     <<Root, [DirA EXCEPT !.relativePath = <<"gone">>]>>,
     <<Root, [DirA EXCEPT !.mappings = <<[regex |-> "wrong", url |-> "new"]>>]>>,
     <<Root, [DirA EXCEPT !.name = "root"]>> >>            \* below itself

MCWrittenLocals ==
  <<"www", "a", "b">> :> [NoDir EXCEPT !.removes = <<"index">>,
                                       !.handlers = <<Registered("python", "htm")>>]

\* Their texts.
Element(tag, attributes, content) ==
  LET present == SelectSeq(attributes, LAMBDA attribute : attribute[2] # None)
  IN IF content = <<>> THEN <<Empty(tag, present)>>
     ELSE <<Open(tag, present)>> \o content \o <<Close(tag)>>

TextElement(tag, text) ==
  IF text = None THEN <<>> ELSE Element(tag, <<>>, <<Characters(text), Comment>>)

Listed(Text(_), items) == FlattenSeq([i \in DOMAIN items |-> <<Comment>> \o Text(items[i])])

LocalText(dir) ==
  Element("default-documents", <<>>,
          Listed(LAMBDA name : TextElement("remove", name), dir.removes)
            \o Listed(LAMBDA name : TextElement("add", name), dir.adds))
  \o Element("handlers", <<>>,
             Listed(LAMBDA item : Element("register", <<<<"name", item.name>>, <<"ext", item.ext>>>>,
                                         <<>>), dir.handlers))
  \o Element("mappings", <<>>,
             Listed(LAMBDA item : Element("register", <<>>, TextElement("regex", item.regex)
                                           \o TextElement("url", item.url)), dir.mappings))

DirectoryText(dir) ==
  Element("directory", <<<<"name", dir.name>>, <<"parent", dir.parent>>,
                         <<"charset", dir.charset>>, <<"browsing-enabled", dir.browsing>>>>,
    TextElement("path", dir.path) \o TextElement("relative-path", dir.relativePath)
      \o TextElement("virtual-path", dir.virtualPath) \o LocalText(dir))

MimeFile == <<Comment>> \o Element("mime-types", <<>>,
                             Element("type", <<<<"ext", "htm">>>>, <<Characters("text/html")>>))

Handler(name, path, ext) ==
  Element("handler", <<<<"name", name>>, <<"default-ext", ext>>>>, TextElement("path", path))

ServerText(library, log) ==
  Element("server",
    <<<<"port", 5555>>, <<"command-port", 5556>>, <<"workers-count", 500>>,
      <<"worker-life-time", 60>>, <<"keep-alive-timeout", 10>>, <<"root", "root">>>>,
    log \o Element("mime-types", <<<<"file", MimeFile>>>>, <<>>)
      \o Element("handlers", <<>>, Handler("python", library, "py")
                   \o Element("parameter", <<<<"name", "other">>>>,
                              TextElement("path", "other.so"))))

LogText == Element("log", <<<<"log-level", "error">>>>, TextElement("path", "server.log"))

Text(i) ==
  <<Declaration, Comment>>
    \o Element("settings", <<>>,
         ServerText(IF i = 2 THEN "bad.so" ELSE "python.so", IF i = 5 THEN <<>> ELSE LogText)
           \o Listed(DirectoryText, MCWritten[i]))
    \o <<Comment>>

\* The third text ends before its last two tags.
MCTexts ==
  [i \in DOMAIN MCWritten |->
     IF i # 3 THEN Text(i) ELSE SubSeq(Text(3), 1, Len(Text(3)) - 3)]

MCLocalTexts ==
  [path \in DOMAIN MCWrittenLocals |->
     Element("directory", <<>>, LocalText(MCWrittenLocals[path]))]

MCFolders == {<<"www">>, <<"www", "a">>, <<"www", "a", "b">>}
MCLibraries == [path \in {"python.so", "other.so", "bad.so"} |-> TRUE]
MCInitializes == {"python.so", "other.so"}
MCOldFiles == {[ts |-> 1, index |-> -1]}

\* The settings that any number of loads, whole or begun, can end in.
RECURSIVE MCReached(_)
MCReached(states) ==
  LET more == states \cup {Cleared(s) : s \in states}
                \cup {Loaded(s, Documents[i]) : s \in states, i \in DOMAIN Documents}
  IN IF more = states THEN states ELSE MCReached(more)

MCSettings == MCReached({InitialSettings})

\* Whatever was loaded before, without an error, with one or with another load in
\* between: a document that loads without an error ends in what it says.  Nothing here
\* depends on the state: it is evaluated where main is about to load.
LoadsAsWritten == at["main"] = "settings" => LoaderContract(MCSettings)
=============================================================================
