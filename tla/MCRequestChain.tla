--------------------------- MODULE MCRequestChain ---------------------------
(* Two requests on sites that between them use every handler and guard. *)
EXTENDS RequestChain, TLC
CONSTANTS c1, c2, guest, user
TwoConns == {c1, c2}
TwoRoles == {guest, user}

ForUsers == [kind |-> "rule", permissions |-> user :> TRUE, password |-> FALSE, proxy |-> FALSE]
ForAll == [ForUsers EXCEPT !.permissions = guest :> TRUE]
Password == [ForUsers EXCEPT !.password = TRUE]
Proxy == [Password EXCEPT !.proxy = TRUE]

\* A directory for users whose index.html is for all, and a script that may not compile.
Directory == [guard |-> "role", development |-> TRUE,
    rules |-> ("page" :> ForUsers @@ "index" :> ForAll @@ "file" :> ForAll),
    files |-> {<<"public", "index">>, <<"ts", "file">>, <<"public", "file">>},
    dirs |-> {<<"public", "page">>}, sidecars |-> {}]
\* A page by index.hbs with a stylesheet below it, all behind a password or a proxy.
Templates == [guard |-> "basic", development |-> FALSE,
    rules |-> ("root" :> Password @@ "index" :> Proxy),
    files |-> {<<"hbs", "page">>, <<"hbs", "index">>, <<"scss", "file">>}, dirs |-> {}, sidecars |-> {}]
\* The same unguarded, with scripts.
Scripts == [guard |-> "none", development |-> TRUE, rules |-> "root" :> ForAll,
    files |-> {<<"hbs", "page">>, <<"hbs", "index">>, <<"ts", "file">>}, dirs |-> {}, sidecars |-> {}]
\* A page by fruit.md or its PDF, with a script in dist, a controller of its own.
Texts == [guard |-> "role", development |-> FALSE, rules |-> "file" :> ForUsers,
    files |-> {<<"md", "page">>, <<"controller", "index">>, <<"csv", "file">>}, dirs |-> {}, sidecars |-> {}]
\* A folder that is listed, a PDF, and data that is there only as a .gz.
Folder == [guard |-> "none", development |-> TRUE, rules |-> "root" :> ForAll,
    files |-> {<<"folder", "page">>, <<"pdf", "index">>, <<"data", "file">>}, dirs |-> {},
    sidecars |-> {<<"data", "file">>}]
SomeSites == {Directory, Templates, Scripts, Texts, Folder}
\* A page by fruit.hbs, without an index, and a script below it.
NoIndex == {[Scripts EXCEPT !.files = {<<"hbs", "page">>, <<"ts", "file">>}]}
=============================================================================
