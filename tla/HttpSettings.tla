---------------------------- MODULE HttpSettings ----------------------------
(***************************************************************************)
(* HttpServerSettings: what a configuration document turns into.           *)
(*                                                                         *)
(* A document is a record of SettingsDocument.  A virtual path is the      *)
(* sequence of its names and ends in the empty one, as in RequestTarget.   *)
(* Loading yields settings and how it ended: "none" (no error), "settings" *)
(* (settings_load_error), "other" (another exception), "crash" (a null     *)
(* pointer, or a recursion that does not end).                             *)
(***************************************************************************)
EXTENDS SettingsDocument

CONSTANTS
  Folders,      \* real paths of directories
  LocalTexts,   \* real path -> the text of its directoryConfigFile
  Libraries,    \* path of a library -> does it export both functions?
  Initializes   \* libraries whose initHandler returns true

LocalConfigs == [path \in DOMAIN LocalTexts |-> LocalSettings(LoadFile(LocalTexts[path]))]

Or(attribute, default) == IF attribute = None THEN default ELSE attribute

\* QueryValueAttribute into a variable of a loop: an empty value leaves what the last
\* turn put there.
Kept(attribute, last) == IF attribute \in {None, ""} THEN last ELSE attribute

\* The error of the first check that fails; a check is <<condition, error>>.
FirstError(checks) ==
  LET failed == SelectSeq(checks, LAMBDA check : check[1])
  IN IF failed = <<>> THEN "none" ELSE failed[1][2]

\* Steps over a sequence, up to the first error.
RECURSIVE Each(_, _, _)
Each(step(_, _), state, items) ==
  IF items = <<>> \/ state.error # "none" THEN state
  ELSE Each(step, step(state, Head(items)), Tail(items))

\* The constructors of ServerSettings, HttpServerSettings, HandlerInfo and
\* DirectorySettings.
ServerDefaults ==
  [reuseAddr |-> TRUE, enablePooling |-> TRUE, workersCount |-> 500,
   workerLifeTime |-> 300, socketTimeout |-> 60]

Defaults ==
  [firstLoad |-> TRUE, port |-> -1, commandPort |-> -1, serverVersion |-> "ahttpserver",
   enableKeepAlive |-> TRUE, keepAliveTimeout |-> 5, commandSocketTimeout |-> 30,
   responseBufferSize |-> 2097152, maxChunkSize |-> 65535, rootDirName |-> None,
   directoryConfigFile |-> "directory.config", logLevel |-> 3, maxLogFileSize |-> 4194304,
   logFileTemplate |-> None, mimeTypes |-> <<>>, registeredHandlers |-> <<>>,
   directories |-> <<>>] @@ ServerDefaults

NewHandler == [library |-> None, ext |-> None, params |-> <<>>]

NewDirectory ==
  [name |-> None, parentName |-> "", relativePath |-> <<>>, virtualPath |-> <<>>,
   realPath |-> None, browsingEnabled |-> -1, isLinkedDirectory |-> FALSE, charset |-> None,
   defaultDocuments |-> <<>>, handlers |-> <<>>, mappings |-> <<>>, templates |-> <<>>,
   error |-> "none"]
-----------------------------------------------------------------------------
(* Mime types and handlers. *)

\* loadMimeTypes: those of the file come first, own ones replace them.  A type with an
\* empty extension is put under that of the type before it.
LoadMimeTypes(types, element) ==
  LET put(state, type) ==
        LET ext == Kept(type.ext, state.ext) IN
        [map   |-> IF type.ext = None \/ type.text = None THEN state.map
                   ELSE ext :> type.text @@ state.map,
         ext   |-> ext,
         error |-> IF type.ext = None THEN "settings" ELSE "none"]
  IN Each(put, [map |-> types, ext |-> "", error |-> element.error], element.types)

\* getMimeType
MimeType(types, ext) ==
  IF ext \in DOMAIN types THEN types[ext] ELSE "application/octet-stream"

\* registerHandler
Register(handlers, name, element) ==
  LET error == FirstError(<<
        <<name \in DOMAIN handlers, "settings">>,
        <<element.path \notin DOMAIN Libraries, "settings">>,
        <<element.path \in DOMAIN Libraries /\ ~Libraries[element.path], "settings">> >>)
  IN [map   |-> IF error # "none" THEN handlers
                ELSE name :> [NewHandler EXCEPT !.ext = element.defaultExt,
                                                !.library = element.path,
                                                !.params = element.params] @@ handlers,
      error |-> error]

\* loadHandlers.  A handler with an empty name has that of the handler before it; the
\* test for an empty default extension is never true, for such a value is not read.
LoadHandlers(handlers, elements) ==
  LET load(state, element) ==
        LET name  == Kept(element.name, state.name)
            error == FirstError(<<
              <<element.name = None, "settings">>, <<element.path = None, "settings">>,
              <<\E i \in DOMAIN element.params : element.params[i].name = None,
                "settings">> >>)
            registered == Register(state.map, name, element)
        IN [map   |-> IF error = "none" THEN registered.map ELSE state.map,
            name  |-> name,
            error |-> IF error = "none" THEN registered.error ELSE error]
  IN Each(load, [map |-> handlers, name |-> "", error |-> "none"], elements)

\* initHandlers
InitHandlersFails(settings) ==
  \E name \in DOMAIN settings.registeredHandlers :
    settings.registeredHandlers[name].library \notin Initializes
-----------------------------------------------------------------------------
(* loadServerSettings and loadLoggerSettings. *)

LoadServer(settings, e) ==
  LET mimeTypes == IF e.mimeTypes = None THEN [map |-> <<>>, error |-> "settings"]
                   ELSE LoadMimeTypes(settings.mimeTypes, e.mimeTypes)
      handlers  == LoadHandlers(settings.registeredHandlers, e.handlers)
      log       == IF e.log # None THEN e.log
                   ELSE [level |-> None, size |-> None, hasPath |-> FALSE, path |-> None]
  IN [settings EXCEPT
       !.serverVersion = Or(e.version, @), !.port = e.port, !.commandPort = e.commandPort,
       !.workerLifeTime = Or(e.workerLifeTime, Or(e.workersCount, @)),
       !.enablePooling = Or(e.poolingEnabled, @),
       !.socketTimeout = Or(e.socketTimeout, 900),
       !.enableKeepAlive = Or(e.keepAliveEnabled, @),
       !.keepAliveTimeout = Or(e.keepAliveTimeout, 5),
       !.commandSocketTimeout = Or(e.commandSocketTimeout, 30),
       !.directoryConfigFile = Or(e.directoryConfigFile, @),
       !.responseBufferSize = Or(e.responseBufferSize, @),
       !.maxChunkSize = Or(e.maxChunkSize, @),
       !.rootDirName = e.root, !.mimeTypes = mimeTypes.map,
       !.registeredHandlers = handlers.map,
       !.logLevel = log.level,
       !.maxLogFileSize = Or(log.size, @), !.logFileTemplate = log.path,
       !.error = FirstError(<<
         <<e.port = None, "settings">>, <<e.commandPort = None, "settings">>,
         <<"wrong" \in {e.responseBufferSize, e.maxChunkSize}, "other">>,
         <<e.root = None, "settings">>,
         <<mimeTypes.error # "none", mimeTypes.error>>,
         <<handlers.error # "none", handlers.error>>,
         <<e.log = None \/ log.level = None \/ ~log.hasPath, "crash">>,
         <<log.path = None, "settings">> >>)]
-----------------------------------------------------------------------------
(* loadLocalDirectorySettings, of a <directory> and of a local configuration. *)

\* loadDirectoryHandlers, one <register> of the handler with that name and default.
HandlerExtension(default, last, item) ==
  LET ext == Kept(item.ext, last) IN
  [ext   |-> IF ext = "" THEN default ELSE ext,
   error |-> IF default = None /\ (item.ext = None \/ ext = "") THEN "settings" ELSE "none"]

LoadDirectoryHandlers(dir, items, handlers) ==
  LET add(state, item) ==
        LET name == Kept(item.name, state.name) IN
        IF item.name = None \/ name \notin DOMAIN handlers
        THEN [state EXCEPT !.error = "settings"]
        ELSE LET found == HandlerExtension(handlers[name].ext, state.ext, item) IN
             [handlers |-> Append(state.handlers,
                                  [ext |-> found.ext, library |-> handlers[name].library]),
              name |-> name, ext |-> found.ext, error |-> found.error]
  IN Each(add, [handlers |-> dir.handlers, name |-> "", ext |-> "", error |-> "none"], items)

\* loadDirectoryIndexDocuments, loadDirectoryHandlers, loadDirectoryMappings.
LoadLocal(dir, e, handlers) ==
  LET registered == LoadDirectoryHandlers(dir, e.handlers, handlers)
      texts(list) == SelectSeq(list, LAMBDA text : text # None)
      mark(add, list) == [i \in DOMAIN list |-> <<add, list[i]>>]
      bad == {i \in DOMAIN e.mappings :
                e.mappings[i].regex \in {None, "wrong"} \/ e.mappings[i].url = None}
  IN [dir EXCEPT
       !.defaultDocuments = @ \o mark(TRUE, texts(e.adds)) \o mark(FALSE, texts(e.removes)),
       !.handlers = registered.handlers,
       !.mappings = @ \o e.mappings,
       !.error = IF registered.error # "none" THEN registered.error
                 ELSE IF bad = {} THEN "none"
                 ELSE IF e.mappings[Min(bad)].regex = "wrong" /\ e.mappings[Min(bad)].url # None
                 THEN "other" ELSE "settings"]

\* loadDirectory
LoadDirectory(e, handlers) ==
  LET written == {tag \in DOMAIN e.templates : e.templates[tag] # None}
      dir == [NewDirectory EXCEPT
        !.name = e.name, !.parentName = Or(e.parent, @),
        !.browsingEnabled = Or(e.browsingEnabled, @), !.charset = e.charset,
        !.realPath = e.path, !.relativePath = Or(e.relativePath, @),
        !.virtualPath = Or(e.virtualPath, @),
        !.templates = [tag \in written |-> e.templates[tag]]]
      has(tag) == tag \in DOMAIN e.templates
      error == FirstError(<<
        <<e.name = None, "settings">>, <<e.path = <<>>, "settings">>,
        <<e.path # None /\ e.relativePath # None, "settings">>,
        <<has("file-template") # has("directory-template"), "settings">>,
        <<e.browsingEnabled = 1 /\ ~has("file-template"), "settings">> >>)
  IN IF error # "none" THEN [dir EXCEPT !.error = error] ELSE LoadLocal(dir, e, handlers)

\* tryLoadLocalSettings
TryLoadLocal(dir, handlers) ==
  IF dir.realPath \notin DOMAIN LocalConfigs THEN dir
  ELSE LET doc == LocalConfigs[dir.realPath] IN
       IF ~doc.loads THEN [dir EXCEPT !.error = "settings"]
       ELSE IF doc.root = None THEN [dir EXCEPT !.error = "crash"]
       ELSE IF doc.root # "directory" THEN [dir EXCEPT !.error = "settings"]
       ELSE LoadLocal(dir, doc, handlers)
-----------------------------------------------------------------------------
(* fillDirectoriesMap. *)

\* What the child adds to and takes from the documents of its parent.
InheritDocuments(inherited, own) ==
  LET change(state, document) ==
        CASE document[1] /\ Contains(state.list, document) -> state
          [] document[1] /\ ~Contains(state.list, document) ->
               [state EXCEPT !.list = Append(@, document)]
          [] ~document[1] /\ Contains(state.list, <<TRUE, document[2]>>) ->
               [state EXCEPT !.list = Remove(@, <<TRUE, document[2]>>)]
          [] OTHER -> [state EXCEPT !.error = "settings"]
  IN Each(change, [list |-> inherited, error |-> "none"], own)

\* Faulty: handlers of the parent are added for the extensions the child has, too.
InheritAll(inherited, own) == own \o inherited

\* One by one: the first inherited of an extension hides the others.
InheritHandlers(inherited, own) ==
  FoldLeft(LAMBDA list, handler :
             IF \E i \in DOMAIN list : list[i].ext = handler.ext THEN list
             ELSE Append(list, handler),
           own, inherited)

\* A child, registered below its parent.
Child(parent, child, handlers) ==
  LET linked == child.realPath \notin {None, <<>>}
      real   == IF linked THEN child.realPath ELSE parent.realPath \o child.relativePath
      placed == [child EXCEPT
        !.virtualPath = SubSeq(parent.virtualPath, 1, Len(parent.virtualPath) - 1) \o @
                          \o (IF @ # <<>> /\ @[Len(@)] = "" THEN <<>> ELSE <<"">>),
        !.isLinkedDirectory = linked \/ @,
        !.realPath = real]
      local  == TryLoadLocal(placed, handlers)
      docs   == InheritDocuments(parent.defaultDocuments, local.defaultDocuments)
      error  == FirstError(<<
        <<child.virtualPath = <<>>, "settings">>, <<real \notin Folders, "settings">>,
        <<local.error = "crash", "crash">>, <<local.error # "none", "settings">>,
        <<docs.error # "none", "settings">> >>)
  IN IF error # "none" THEN [child EXCEPT !.error = error]
     ELSE [local EXCEPT
            !.browsingEnabled = IF @ = -1 THEN parent.browsingEnabled ELSE @,
            !.charset = Or(@, parent.charset),
            !.templates = @ @@ parent.templates,
            !.defaultDocuments = docs.list,
            !.handlers = InheritHandlers(parent.handlers, @)]

\* All records whose parent has the name of this one, each with its own children
\* before the next.  The records change as they are placed, and may be placed more
\* than once; more than Len(list) levels do not end.
RECURSIVE Fill(_, _, _, _)
Fill(state, parent, handlers, depth) ==
  LET place(s, i) ==
        IF s.list[i].parentName # s.list[parent].name THEN s
        ELSE IF depth = 0 THEN [s EXCEPT !.error = "crash"]
        ELSE LET child == Child(s.list[parent], s.list[i], handlers) IN
             IF child.error # "none" THEN [s EXCEPT !.error = child.error]
             ELSE Fill([s EXCEPT !.list[i] = child,
                                 !.map = child.virtualPath :> child @@ @],
                       i, handlers, depth - 1)
  IN Each(place, state, [i \in DOMAIN state.list |-> i])

\* The <directory> elements: all are read, then the root is placed, then the rest.
LoadDirectories(elements, rootDirName, handlers) ==
  LET read(state, e) ==
        LET dir == LoadDirectory(e, handlers)
        IN [state EXCEPT !.list = Append(@, dir), !.error = dir.error]
      all   == Each(read, [list |-> <<>>, map |-> <<>>, error |-> "none"], elements)
      roots == {i \in DOMAIN all.list : all.list[i].name = rootDirName}
      r     == Min(roots)
      root  == TryLoadLocal([all.list[r] EXCEPT !.virtualPath = <<"">>], handlers)
      error == FirstError(<<
        <<elements = <<>>, "settings">>, <<all.error # "none", all.error>>,
        <<roots = {}, "settings">>,
        <<roots # {} /\ all.list[r].realPath \notin Folders, "settings">>,
        <<roots # {} /\ root.error = "crash", "crash">>,
        <<roots # {} /\ root.error # "none", "settings">> >>)
  IN IF error # "none" THEN [map |-> <<>>, error |-> error]
     ELSE LET filled == Fill([all EXCEPT !.list[r] = root, !.map = <<"">> :> root],
                             r, handlers, Len(elements))
          IN [map |-> filled.map, error |-> filled.error]

\* load, as far as it only reads.
SettingsOf(text) == LET document == LoadFile(text) IN Settings(document)

\* load.  A second load reads the directories only; they are cleared before.
Load(settings, document) ==
  LET s      == settings @@ [error |-> "none"]
      server == IF ~s.firstLoad THEN s
                ELSE IF document.server = None THEN [s EXCEPT !.error = "settings"]
                ELSE LoadServer(s, document.server)
      loaded == LoadDirectories(document.directories, server.rootDirName,
                                server.registeredHandlers)
  IN IF ~document.loads THEN [s EXCEPT !.error = "settings"]
     ELSE IF document.root = None THEN [s EXCEPT !.error = "crash"]
     ELSE IF document.root # "settings" THEN [s EXCEPT !.error = "settings"]
     ELSE IF server.error # "none" THEN server
     ELSE [server EXCEPT !.directories = loaded.map, !.error = loaded.error,
                         !.firstLoad = @ /\ loaded.error # "none"]
-----------------------------------------------------------------------------
(* What a document says, record by record, without placing one after the other: its *)
(* records and those of the local configurations as their author means them.       *)

\* The records from one up to the root, <<>> when it does not come to the root.
RECURSIVE Ancestry(_, _, _, _)
Ancestry(elements, i, root, depth) ==
  LET parents == {p \in DOMAIN elements : elements[p].name = elements[i].parent} IN
  IF elements[i].name = root THEN <<i>>
  ELSE IF parents = {} \/ depth = 0 THEN <<>>
  ELSE LET above == Ancestry(elements, Min(parents), root, depth - 1)
       IN IF above = <<>> THEN <<>> ELSE <<i>> \o above

\* What the record of a directory and its local configuration say together.
Said(element, local) ==
  [adds     |-> Range(element.adds) \cup Range(local.adds),
   removes  |-> Range(element.removes) \cup Range(local.removes),
   handlers |-> element.handlers \o local.handlers]

\* The directories are those whose parents lead to the root, at the path their
\* parents give them.  The nearest record that names a default document decides
\* whether it is one, and the nearest that registers handlers for an extension which
\* run: all of its own, of another's the first.
AsConfigured(settings, elements, locals) ==
  LET root     == settings.rootDirName
      above    == [i \in DOMAIN elements |-> Ancestry(elements, i, root, Len(elements))]
      placed   == {i \in DOMAIN elements : above[i] # <<>>}
      names(i) == IF elements[i].name = root THEN <<>>
                  ELSE SelectSeq(elements[i].virtualPath, LAMBDA name : name # "")
      path     == [i \in placed |->
                     FlattenSeq(Reverse([k \in DOMAIN above[i] |-> names(above[i][k])]))
                       \o <<"">>]
      said     == [i \in placed |->
                     LET real == settings.directories[path[i]].realPath IN
                     Said(elements[i], IF real \in DOMAIN locals THEN locals[real]
                                       ELSE [adds |-> <<>>, removes |-> <<>>,
                                             handlers |-> <<>>])]
      own(i, ext) == SelectSeq(said[i].handlers, LAMBDA item :
                       ext = Or(item.ext, settings.registeredHandlers[item.name].ext))
      \* above[i][k] is the nearest of those that Holds tells
      Nearest(i, k, Holds(_)) == /\ Holds(above[i][k])
                                 /\ \A l \in 1..k - 1 : ~Holds(above[i][l])
      Library(item) == settings.registeredHandlers[item.name].library
  IN /\ DOMAIN settings.directories = {path[i] : i \in placed}
     /\ \A i \in placed :
          LET dir == settings.directories[path[i]]
              documents == {d[2] : d \in {e \in Range(dir.defaultDocuments) : e[1]}}
              run(ext)  == SelectSeq(dir.handlers, LAMBDA handler : handler.ext = ext)
          IN /\ documents =
                  {d \in UNION {said[j].adds : j \in placed} :
                     \E k \in DOMAIN above[i] :
                       /\ Nearest(i, k, LAMBDA j : d \in said[j].adds \cup said[j].removes)
                       /\ d \in said[above[i][k]].adds}
             /\ \A ext \in {dir.handlers[n].ext : n \in DOMAIN dir.handlers}
                             \cup {Or(item.ext, settings.registeredHandlers[item.name].ext) :
                                     item \in UNION {Range(said[j].handlers) :
                                                       j \in Range(above[i])}} :
                  \E k \in DOMAIN above[i] :
                    LET list == own(above[i][k], ext) IN
                    /\ Nearest(i, k, LAMBDA j : own(j, ext) # <<>>)
                    /\ [n \in DOMAIN run(ext) |-> run(ext)[n].library] =
                         IF k = 1 THEN [n \in DOMAIN list |-> Library(list[n])]
                         ELSE <<Library(list[1])>>
=============================================================================
