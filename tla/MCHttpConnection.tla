-------------------------- MODULE MCHttpConnection --------------------------
(***************************************************************************)
(* HttpConnection on a small site: "/" with a default document, a mapping, *)
(* a handler for scripts and an empty directory; "/docs/" registered below *)
(* it, with browsing; "/link/" and "/docs/pics/", which stand for another  *)
(* directory.                                                              *)
(***************************************************************************)
EXTENDS HttpConnection, TLC

Dir(name, virtualPath, realPath) ==
  [name |-> name, parentName |-> "", virtualPath |-> virtualPath, realPath |-> realPath,
   isLinkedDirectory |-> FALSE,
   browsingEnabled |-> FALSE, defaultDocuments |-> <<>>, handlers |-> <<>>,
   mappings |-> <<>>]

MCDirectories ==
  (<<"">> :> [Dir("root", <<"">>, <<>>) EXCEPT
     !.defaultDocuments = <<"none", "index">>, !.handlers = <<"py">>,
     !.mappings = <<(<<"old">> :> <<"gone">>),
                    (<<"old">> :> <<"docs">> @@ <<"bad">> :> <<"..">>)>>]) @@
  (<<"docs", "">> :> [Dir("docs", <<"docs", "">>, <<"docs">>) EXCEPT
     !.browsingEnabled = TRUE, !.handlers = <<"*", "py">>]) @@
  (<<"link", "">> :> [Dir("link", <<"link", "">>, <<"elsewhere">>) EXCEPT
     !.parentName = "root", !.isLinkedDirectory = TRUE]) @@
  (<<"docs", "pics", "">> :> [Dir("pics", <<"docs", "pics", "">>, <<"elsewhere">>) EXCEPT
     !.parentName = "docs", !.isLinkedDirectory = TRUE])

File(size) == [kind |-> "file", size |-> size, readable |-> TRUE]
Folder     == [kind |-> "dir", size |-> 0, readable |-> TRUE]

MCFiles ==
  <<>>            :> Folder @@ <<"index">>   :> File(3) @@
  <<"docs">>      :> Folder @@ <<"docs", "a.py">> :> File(1) @@
  <<"docs", "old">> :> Folder @@ <<"docs", "old", "text">> :> File(2) @@
  <<"sub">>       :> Folder @@ <<"elsewhere">> :> Folder @@
  <<"empty">>     :> File(0) @@ <<"page">>   :> File(5) @@
  <<"secret">>    :> [File(1) EXCEPT !.readable = FALSE]

MCExtension(name) == IF name = "a.py" THEN "py" ELSE ""

Get(path) ==
  [method |-> "GET", length |-> 0, path |-> path, connection |-> "keep-alive",
   proxyConnection |-> "none", unmodified |-> FALSE, charset |-> TRUE,
   wellFormed |-> TRUE]

MCRequests ==
  { Get(path) : path \in
      { <<"">>, <<"old">>, <<"bad">>, <<"docs">>, <<"docs", "">>, <<"docs", "a.py">>,
        <<"sub", "">>, <<"link">>, <<"page">>, <<"empty">>, <<"secret">>,
        <<"missing">> } }
  \cup
  { [Get(<<"docs", "a.py">>) EXCEPT !.method = "POST", !.length = 2],
    [Get(<<"docs", "">>)     EXCEPT !.method = "POST"],
    [Get(<<"page">>)         EXCEPT !.method = "POST", !.length = 1],
    [Get(<<"page">>)         EXCEPT !.length = 1],
    [Get(<<"page">>)         EXCEPT !.unmodified = TRUE],
    [Get(<<"docs", "">>)     EXCEPT !.method = "HEAD"],
    [Get(<<"page">>)         EXCEPT !.method = "HEAD", !.connection = "none"],
    [Get(<<"docs", "">>)     EXCEPT !.charset = FALSE],
    [Get(<<"page">>)         EXCEPT !.proxyConnection = "close"],
    [Get(<<"page">>)         EXCEPT !.method = ""],
    [Get(<<"page">>)         EXCEPT !.method = "PUT"],
    [Get(<<"page">>)         EXCEPT !.wellFormed = FALSE] }

\* The theorem on links speaks of this site.
ASSUME MCHttpConnectionAssumption ==
  /\ SoundSite
  /\ \A r \in Requests : r.path \in Seq(STRING) /\ r.path # <<>>
=============================================================================
