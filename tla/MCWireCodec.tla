---------------------------- MODULE MCWireCodec ----------------------------
(* WireCodec for TLC: the texts of its calls.                              *)
EXTENDS WireCodec

\* Keys with every character: cut by a slash, showing "} in the JSON or nearly,
\* spelling the mark the client looks for.
MCKeyTexts ==
  {<<>>, <<"a">>, <<"a", Slash>>, <<Slash, "a">>, <<Brace, Quote>>, <<Quote, Brace>>,
   <<"a", Brace>>, <<Space>>, <<Byte>>, <<"value", Quote, ":", Quote>>}

\* Values with every character, those that end or escape the JSON's text, and one
\* that is larger than the cache.
MCValueTexts ==
  {<<>>, <<"a", Slash>>, <<Quote>>, <<"a", Quote>>, <<Quote, Brace>>,
   <<Backslash, "a">>, <<Brace>>, <<"a", Brace>>, <<Byte>>, <<"a", "a", "a", "a", "a">>}
=============================================================================
