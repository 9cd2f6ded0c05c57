-------------------- MODULE MCContainerDiscoveryOptions --------------------
EXTENDS ContainerDiscoveryOptions

CONSTANTS f1, f2

MCFieldNames == {f1, f2}

\* K8s regexes: one that compiles, one that throws; WrongType stands for the empty default.
MCRegexStrs == {<<"a">>, <<"(">>, WrongType}

\* Label / env maps: none; an anchored regex beside a value that only starts
\* with ^ (exact match); an exact-match value that would not compile as a
\* regex beside an anchored value that throws.
MCMapChoices == {EmptyMap,
                 (f1 :> <<"^", "a", "$">>) @@ (f2 :> <<"^", "a">>),
                 (f1 :> <<"^", "(">>) @@ (f2 :> <<"^", "(", "$">>)}

\* ExternalEnvTag / ExternalK8sLabelTag: none, or key "app" -> tag "t"
\* (both mappings use the same tag key).
MCTagMapChoices == {EmptyMap, "app" :> "t"}
MCEnvChoices == {EmptyMap, "app" :> "v"}
MCLabelChoices == {EmptyMap, "app" :> "w"}
=============================================================================
