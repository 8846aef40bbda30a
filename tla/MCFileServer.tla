---------------------------- MODULE MCFileServer ----------------------------
(* The tree of the repository's res directory, with short files. *)
EXTENDS FileServer

MCDirectories   == {<< >>, <<"cpp">>, <<"upload">>}
MCInitialFiles  == [p \in {<<"index.html">>, <<"cpp", "1.txt">>, <<"upload", "upload">>} |->
                      CASE p = <<"index.html">> -> <<"i">>
                        [] p = <<"cpp", "1.txt">> -> << >>
                        [] OTHER -> <<"u", "u">>]
MCBodies        == {<<"a", "a">>, <<"b">>}
MCTargets       == [path : {<< >>}, slash : {TRUE}]
                     \cup [path : {<<"cpp">>, <<"upload", "upload">>, <<"none">>, <<"searches">>},
                           slash : {FALSE}]
MCSearchNames   == {"search", "searches"}
MCUploadTargets == {<<"upload">>, <<"new">>, <<"nodir", "new">>}
=============================================================================
