----------------------------- MODULE MCStartup ------------------------------
(***************************************************************************)
(* Instances of Startup for TLC.                                           *)
(***************************************************************************)
EXTENDS Startup

T(s, h, p) == [scheme |-> s, host |-> h, port |-> p]

MCTexts == {T("", "a", "8080"), T("https", "b", "443"), T("http", "a", ""), T("", "%", "80"), T("", "", "")}

\* No list; an address without a scheme and an https one; one without a port, and the empty
\* element that a trailing comma leaves; one that does not parse.
MCLists == {<<>>,
            <<T("", "a", "8080"), T("https", "b", "443")>>,
            <<T("http", "a", ""), T("", "", "")>>,
            <<T("https", "b", "443"), T("", "%", "80")>>}

\* All flags at their minima; one below it for each setting, the others at the default.
MCNumbers == {Minimum, [s \in Settings |-> Minimum[s] - 1],
              [Default EXCEPT !["idle-timeout"] = 0, !["copy-buffers-size"] = 0]}
=============================================================================
