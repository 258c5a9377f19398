------------------------- MODULE VirtualDirectories -------------------------
(***************************************************************************)
(* The registered directories and the walk of HttpServer::findTarget to    *)
(* the one that serves a path.                                             *)
(*                                                                         *)
(* A path is the sequence of its names, so that "/a/b" is <<"a", "b">> and *)
(* the path of a directory ends in the empty name: "/a/" is <<"a", "">>    *)
(* and "/" is <<"">>.                                                      *)
(***************************************************************************)
EXTENDS Sequences, Integers, FiniteSetsExt

CONSTANT Directories   \* GlobalSettings()->Directories(): virtual path -> settings

Slash == <<"">>
RootRegistered == Slash \in DOMAIN Directories

DirectoryPath(path, depth) == SubSeq(path, 1, depth) \o Slash

\* The registered directory that serves a path: the walk stops at the first
\* directory on the way that is not registered.
FindDirectory(path) ==
  LET reached == {depth \in 0..Len(path) - 1 :
                    \A d \in 1..depth : DirectoryPath(path, d) \in DOMAIN Directories}
  IN Directories[DirectoryPath(path, Max(reached))]
=============================================================================
