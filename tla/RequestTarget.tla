--------------------------- MODULE RequestTarget ---------------------------
(***************************************************************************)
(* HttpServer::findTarget and processDirectoryRequest as pure operators:   *)
(* what a virtual path of a request stands for.                            *)
(***************************************************************************)
EXTENDS VirtualDirectories, SequencesExt

CONSTANTS
  Files,         \* the file system: path -> [kind, size], kind "dir" or "file"
  Extension(_),  \* fs::extension of a name
  NotPortable    \* names that fs::portable_name refuses

ASSUME RequestTargetAssumption ==
  \A file \in DOMAIN Files : Files[file].size \in Nat

\* What follows the path of the directory in path.
Below(dir, path) == SubSeq(path, Len(dir.virtualPath), Len(path))

\* A mapping is a function from the paths its expression matches to their
\* targets.  All are tried on the original path: the last that matches decides.
Mapped(dir, path) ==
  LET below == Below(dir, path)
      hits  == {i \in DOMAIN dir.mappings : below \in DOMAIN dir.mappings[i]}
  IN IF hits = {} THEN path
     ELSE SubSeq(dir.virtualPath, 1, Len(dir.virtualPath) - 1)
            \o dir.mappings[Max(hits)][below]

\* fs::path checks the names below a directory, and throws.
NamesAllowed(dir, mapped) == \A i \in DOMAIN Below(dir, mapped) :
                               Below(dir, mapped)[i] \notin NotPortable

\* fs::path takes several slashes for one, and none at the end.
NamesOf(path) ==
  FlattenSeq([i \in DOMAIN path |-> IF path[i] = "" THEN <<>> ELSE <<path[i]>>])

FileSystemPath(dir, mapped) == dir.realPath \o NamesOf(Below(dir, mapped))

Exists(file)      == file \in DOMAIN Files
IsDirectory(file) == Exists(file) /\ Files[file].kind = "dir"
ExtensionOf(file) == IF file = <<>> THEN "" ELSE Extension(file[Len(file)])

\* runHandlers: how many of the registrations a file matches.
Handlers(dir, file) ==
  Len(SelectSeq(dir.handlers, LAMBDA ext : ext \in {ExtensionOf(file), "*"}))

\* Faulty: a mapped path is redirected too.
ResourceRedirectsMapped(path, mapped, file) ==
  IF IsDirectory(file)
  THEN IF mapped[Len(mapped)] # "" THEN "redirect" ELSE "directory"
  ELSE IF Exists(file) THEN "file" ELSE "missing"

\* findTarget, after the handlers.
Resource(path, mapped, file) ==
  IF IsDirectory(file)
  THEN IF path = mapped /\ path[Len(path)] # "" THEN "redirect" ELSE "directory"
  ELSE IF \E link \in DOMAIN Directories :
            Directories[link].isLinkedDirectory /\ path \o Slash = link
  THEN "redirect"
  ELSE IF Exists(file) THEN "file" ELSE "missing"

\* The first of the default documents that exists: its index, if there is one.
DefaultDocument(dir, file) ==
  LET Present(i) == Exists(Append(file, dir.defaultDocuments[i]))
  IN {i \in DOMAIN dir.defaultDocuments :
        Present(i) /\ \A j \in 1..i - 1 : ~Present(j)}

\* Faulty: the name of a directory is not followed by a slash.
ContentWithoutSlash(path, file) ==
  {[kind |-> Files[f].kind, url |-> SubSeq(path, 1, Len(path) - 1) \o <<f[Len(f)]>>] :
     f \in {g \in DOMAIN Files : g # <<>> /\ SubSeq(g, 1, Len(g) - 1) = file}}

\* readDirectoryContent: what a directory of the file system holds, each with the
\* path of the page before its name.
DirectoryContent(path, file) ==
  {[kind |-> Files[f].kind,
    url  |-> SubSeq(path, 1, Len(path) - 1) \o <<f[Len(f)]>>
               \o (IF IsDirectory(f) THEN Slash ELSE <<>>)] :
     f \in {g \in DOMAIN Files : g # <<>> /\ SubSeq(g, 1, Len(g) - 1) = file}}

\* What a listing refers to: the parent, the linked directories, the content.
Listing(dir, path, file) ==
  {[kind |-> "dir", url |-> SubSeq(path, 1, Len(path) - 2) \o Slash] : up \in {path} \ {Slash}}
  \cup {[kind |-> "dir", url |-> link] :
          link \in {l \in DOMAIN Directories : /\ Directories[l].isLinkedDirectory
                                              /\ Directories[l].parentName = dir.name
                                              /\ path = dir.virtualPath}}
  \cup DirectoryContent(path, file)

\* processDirectoryRequest, when there is no default document.
ListingStatus(dir, method, charsetAccepted) ==
  CASE ~dir.browsingEnabled                             -> 403
    [] dir.browsingEnabled /\ method \notin {"GET", "HEAD"} -> 405
    [] dir.browsingEnabled /\ method \in {"GET", "HEAD"} /\ ~charsetAccepted -> 406
    [] OTHER                                            -> 200
-----------------------------------------------------------------------------
\* What a site needs for its links to lead to what is there: the directories above a
\* registered one are registered, what it stands for exists, what its mappings match is
\* not the path of a directory, and no file hides behind a linked directory.
SoundSite ==
  /\ RootRegistered
  /\ \A path \in DOMAIN Directories :
       LET dir   == Directories[path]
           place == SubSeq(path, 1, Len(path) - 1)
       IN /\ path \in Seq(STRING) /\ path # <<>> /\ path[Len(path)] = ""
          /\ \A depth \in 1..Len(path) - 1 :
               DirectoryPath(path, depth) \in DOMAIN Directories
          /\ dir.virtualPath = path
          /\ dir.realPath \in Seq(STRING) /\ IsDirectory(dir.realPath)
          /\ \A i \in DOMAIN dir.mappings : \A below \in DOMAIN dir.mappings[i] :
               below # <<>> => below[Len(below)] # ""
          /\ dir.isLinkedDirectory =>
               place # <<>> /\ LET file == FileSystemPath(FindDirectory(place), place)
                              IN Exists(file) => IsDirectory(file)
  /\ \A file \in DOMAIN Files :
       /\ file \in Seq(STRING) /\ (\A i \in DOMAIN file : file[i] # "")
       /\ Files[file].kind \in {"dir", "file"}
       /\ file # <<>> => IsDirectory(SubSeq(file, 1, Len(file) - 1))
=============================================================================
