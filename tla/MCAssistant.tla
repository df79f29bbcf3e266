---------------------------- MODULE MCAssistant ----------------------------
(***************************************************************************)
(* Small instances of Assistant: texts that are not understood, that read, *)
(* change, need a human, that contain a dangerous phrase behind a harmless *)
(* one; capabilities with and without tool, offer and approval.            *)
(***************************************************************************)
EXTENDS Assistant, TLC

SomeUtterances ==
    {{}, {"QUERY_STATUS"}, {"CREATE_TASK"}, {"QUERY_STATUS", "RESTRICTED_DELETE"}, {"UPDATE_KINGDOM"}}

SomeWanted ==
    {<<"int_filesystem", "filesystem.read">>, <<"int_filesystem", "filesystem.write">>,
     <<"int_filesystem", "filesystem.delete">>, <<"int_email", "email.search">>,
     <<"int_email", "filesystem.read">>, <<"int_unknown", "filesystem.read">>}

SomeChanges == {<<"int_email", "ERROR">>}
=============================================================================
