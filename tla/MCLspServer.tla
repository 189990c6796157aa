---------------------------- MODULE MCLspServer ----------------------------
(* Clients for the model of the language server.                           *)
EXTENDS LspServerProperties

CONSTANTS main, dep, t1, t2, id1

OneDocument == {main}
TwoDocuments == {main, dep}
MCEditable == {main}
OneText == {t2}
TwoTexts == {t1, t2}
MCVersion == {1, 2}

Plain(method) ==
    [method |-> method, id |-> Nothing, document |-> Nothing,
     version |-> Nothing, text |-> Nothing]

Request(method, id) == [Plain(method) EXCEPT !.id = id]
Query(kind, id, d) == [Request(kind, id) EXCEPT !.document = d]
Sync(method, d, v, t) ==
    [Plain(method) EXCEPT !.document = d, !.version = v, !.text = t]

\* An editor that edits one document while it asks, cancels and asks again,
\* reusing its request id.
EditingClient ==
    {Request("initialize", id1), Request("cancel", id1), Query("semanticTokens", id1, main),
     Sync("didOpen", main, 1, t1), Sync("didChange", main, 2, t2),
     Sync("didSave", main, Nothing, NoText), Sync("didClose", main, Nothing, Nothing)}

\* Every method once, in and out of its place.
RudeClient ==
    {Plain(m) : m \in {"unparsable", "invalid", "exit", "initialized",
                       "unknownNotification", "malformedSync"}}
      \cup {Request(m, id1) : m \in {"initialize", "shutdown", "unknownRequest", "cancel"}}
      \cup {Query("semanticTokens", id1, dep), Query("navigation", id1, UnknownDocument)}
      \cup {Sync("didOpen", d, 1, t2) : d \in {main, dep}}
      \cup {Sync("didChange", main, 2, t2), Sync("didClose", main, Nothing, Nothing)}
=============================================================================
