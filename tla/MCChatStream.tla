---------------------------- MODULE MCChatStream ----------------------------
EXTENDS CrossStream

MCContents ==
  {<<"t">>, <<"<", "t">>, <<"t", ">", "t">>, <<"t", "<", "t", ">">>, <<"t", "p">>, <<"p">>}

MCRoutes ==
  {<<"responses", "claude">>, <<"anthropic", "chat">>, <<"gemini", "chat">>}
    \cup {"chat", "anthropic", "responses"} \X {"gemini", "interactions"}
=============================================================================
