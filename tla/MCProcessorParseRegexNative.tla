-------------------- MODULE MCProcessorParseRegexNative --------------------
EXTENDS ProcessorParseRegexNative

\* The test's regex (\w+)\t(\w+).* : "value1\tvalue2" captures two groups,
\* "value1" none.
MCLines == {"value1\tvalue2", "value1"}
MCCaptures == ("value1\tvalue2" :> <<"value1", "value2">>) @@ ("value1" :> NoMatch)

\* The Keys of the test's cases.
MCKeyChoices == {<<"key1", "key2">>, <<"rawLog", "key2">>, <<"content", "key2">>,
                 <<"key1", "key2", "key3">>, <<"content">>}
=============================================================================
