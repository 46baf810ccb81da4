-------------------------- MODULE MCSolverBoundary --------------------------
(* Small instances of SolverBoundary for TLC.                              *)
EXTENDS SolverBoundary

MCInitialFiles == {[f \in FileNames |-> "v1"]}

N == [type |-> "n", challenge |-> "c"]
Sig == [type |-> "sig", challenge |-> "c"]
MCRequestLists ==
    {<<>>, <<N, Sig>>, <<[N EXCEPT !.challenge = ""]>>, <<Sig, [N EXCEPT !.type = "other"]>>}
MCOneRequest == {<<N>>}

MCHosts == {"h1", "h2"}
MCPaths == {"/w", "/none", "/bad", "/js"}

JsUrl(host, path) == [kind |-> "page", jsUrl |-> [host |-> host, path |-> path]]
Script(v) == [kind |-> "script", text |-> v]
NotFound == [kind |-> "status"]

\* h1 has a watch page and its script, and pages without a usable jsUrl; h2
\* redirects to h1's page and has a script of its own.
MCServes ==
    [a \in MCHosts \X MCPaths |->
        CASE a = <<"h1", "/w">>    -> JsUrl("", "/js")
          [] a = <<"h1", "/js">>   -> Script("v1")
          [] a = <<"h1", "/none">> -> [kind |-> "page", jsUrl |-> Null]
          [] a = <<"h1", "/bad">>  -> JsUrl("h1", "")
          [] a = <<"h2", "/w">>    -> [kind |-> "redirect", to |-> <<"h1", "/w">>]
          [] a = <<"h2", "/js">>   -> Script("v2")
          [] OTHER                 -> NotFound]
=============================================================================
