---------------------------- MODULE MCChatSession ----------------------------
(* Small instances of ChatSession.                                          *)
EXTENDS ChatSession

\* Nothing is said about a client that has lost its place in the stream.
InStep == inStep
=============================================================================
