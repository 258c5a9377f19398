-------------------------- MODULE SettingsDocument --------------------------
(***************************************************************************)
(* What HttpServerSettings looks up in a document: the elements of its      *)
(* configuration as records, before anything is made of them.  A missing    *)
(* element or attribute is None; an attribute whose value is empty is "".   *)
(***************************************************************************)
EXTENDS XmlDocument

\* isNullOrEmpty, for attributes that are read as they stand.
NonEmpty(element, name) == QueryValueAttribute(element, name)

\* loadBoolAttribute
Bool(element, name) ==
  IF QueryValueAttribute(element, name) = None THEN None
  ELSE QueryValueAttribute(element, name) = "true"

ChildText(element, tag) ==
  LET child == FirstChildElement(element, tag)
  IN IF child = None THEN None ELSE GetText(child)

\* The children of a child, <<>> when it is not there.
Items(element, tag, first, next) ==
  LET list == FirstChildElement(element, tag)
  IN IF list = None THEN <<>> ELSE Walk(list, first, next)

Texts(elements) == [i \in DOMAIN elements |-> GetText(elements[i])]

\* loadMimeTypes: the file it names is loaded first, and may name another.  The value
\* of the attribute stands for the content of that file.
RECURSIVE MimeTypesElement(_)
MimeTypesElement(element) ==
  LET types    == [i \in DOMAIN Walk(element, "type", "type") |->
                     [ext  |-> Attribute(Walk(element, "type", "type")[i], "ext"),
                      text |-> GetText(Walk(element, "type", "type")[i])]]
      file     == Attribute(element, "file")
      document == LoadFile(file)
      root     == RootElement(document)
  IN IF file = None THEN [types |-> types, error |-> "none"]
     ELSE IF document.error THEN [types |-> <<>>, error |-> "settings"]
     ELSE IF root = None THEN [types |-> <<>>, error |-> "crash"]
     ELSE IF root.tag # "mime-types" THEN [types |-> <<>>, error |-> "settings"]
     ELSE LET included == MimeTypesElement(root)
          IN [types |-> included.types \o types, error |-> included.error]

\* loadHandlers.  What it asks for after a handler is a parameter, and after a
\* parameter a handler.
HandlerElement(element) ==
  LET params == Walk(element, "parameter", "handler") IN
  [name       |-> Attribute(element, "name"),
   defaultExt |-> QueryValueAttribute(element, "default-ext"),
   path       |-> ChildText(element, "path"),
   params     |-> [i \in DOMAIN params |-> [name |-> Attribute(params[i], "name"),
                                            text |-> GetText(params[i])]]]

\* loadLoggerSettings: the level by its name, "debug" for any other.
LogElement(element) ==
  [level   |-> LET level == Attribute(element, "log-level") IN
               IF level = None THEN None
               ELSE IF level \in {"error", "warning", "info"}
               THEN [error |-> 0, warning |-> 1, info |-> 2][level] ELSE 3,
   size    |-> Attribute(element, "max-file-size"),
   hasPath |-> FirstChildElement(element, "path") # None,
   path    |-> ChildText(element, "path")]

\* loadServerSettings
ServerElement(element) ==
  LET log       == FirstChildElement(element, "log")
      mimeTypes == FirstChildElement(element, "mime-types")
      handlers  == Items(element, "handlers", "handler", "parameter")
  IN [version |-> NonEmpty(element, "version"),
      port |-> Attribute(element, "port"), commandPort |-> Attribute(element, "command-port"),
      workersCount |-> Attribute(element, "workers-count"),
      poolingEnabled |-> Bool(element, "pooling-enabled"),
      workerLifeTime |-> Attribute(element, "worker-life-time"),
      socketTimeout |-> Attribute(element, "server-socket-timeout"),
      keepAliveEnabled |-> Bool(element, "keep-alive-enabled"),
      keepAliveTimeout |-> Attribute(element, "keep-alive-timeout"),
      commandSocketTimeout |-> Attribute(element, "command-socket-timeout"),
      directoryConfigFile |-> NonEmpty(element, "directory-config-file"),
      responseBufferSize |-> Attribute(element, "response-buffer-size"),
      maxChunkSize |-> Attribute(element, "max-chunk-size"),
      root |-> NonEmpty(element, "root"),
      mimeTypes |-> IF mimeTypes = None THEN None ELSE MimeTypesElement(mimeTypes),
      handlers |-> [i \in DOMAIN handlers |-> HandlerElement(handlers[i])],
      log |-> IF log = None THEN None ELSE LogElement(log)]

\* loadLocalDirectorySettings with loadDirectoryIndexDocuments, loadDirectoryHandlers
\* and loadDirectoryMappings.
LocalElement(element) ==
  LET handlers == Items(element, "handlers", "register", "register")
      mappings == Items(element, "mappings", "register", "register") IN
  [adds     |-> Texts(Items(element, "default-documents", "add", "add")),
   removes  |-> Texts(Items(element, "default-documents", "remove", "remove")),
   handlers |-> [i \in DOMAIN handlers |-> [name |-> Attribute(handlers[i], "name"),
                                            ext  |-> Attribute(handlers[i], "ext")]],
   mappings |-> [i \in DOMAIN mappings |-> [regex |-> ChildText(mappings[i], "regex"),
                                            url   |-> ChildText(mappings[i], "url")]]]

\* loadDirectory.  A path element without a text is the empty path.
DirectoryElement(element) ==
  LET Path(tag) == IF FirstChildElement(element, tag) # None /\ ChildText(element, tag) = None
                   THEN <<>> ELSE ChildText(element, tag)
      browsing  == Bool(element, "browsing-enabled")
      templates == {tag \in {"file-template", "directory-template",
                             "virtual-directory-template", "parent-directory-template",
                             "header-template", "footer-template"} :
                      FirstChildElement(element, tag) # None}
  IN [name |-> QueryValueAttribute(element, "name"),
      parent |-> QueryValueAttribute(element, "parent"),
      browsingEnabled |-> IF browsing = None THEN None ELSE IF browsing THEN 1 ELSE 0,
      charset |-> QueryValueAttribute(element, "charset"),
      path |-> Path("path"), relativePath |-> Path("relative-path"),
      virtualPath |-> Path("virtual-path"),
      templates |-> [tag \in templates |-> ChildText(element, tag)]]
  @@ LocalElement(element)

\* The documents load() and tryLoadLocalSettings read; `root` is the tag of the root
\* element, None when there is none.
Settings(document) ==
  LET root == RootElement(document) IN
  IF document.error \/ root = None
  THEN [loads |-> ~document.error, root |-> None, server |-> None, directories |-> <<>>]
  ELSE LET server      == FirstChildElement(root, "server")
           directories == Walk(root, "directory", "directory")
       IN [loads |-> TRUE, root |-> root.tag,
           server |-> IF server = None THEN None ELSE ServerElement(server),
           directories |-> [i \in DOMAIN directories |-> DirectoryElement(directories[i])]]

LocalSettings(document) ==
  LET root == RootElement(document) IN
  [loads |-> ~document.error, root |-> IF root = None THEN None ELSE root.tag]
  @@ IF root = None THEN <<>> ELSE LocalElement(root)
=============================================================================
