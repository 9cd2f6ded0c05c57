--------------------------- MODULE MCPluginRegistry ---------------------------
EXTENDS PluginRegistry

CONSTANTS cHost, cFile, cRegex, cRegexExt, cSplit, cSls

\* Creators and their Name(): a singleton and a plain Input, a processor
\* built in and again in the auxiliary module, one only there, a flusher.
MCCreators == {cHost, cFile, cRegex, cRegexExt, cSplit, cSls}
MCNameOf == (cHost :> "input_host") @@ (cFile :> "input_file") @@ (cRegex :> "processor_regex")
            @@ (cRegexExt :> "processor_regex") @@ (cSplit :> "processor_split") @@ (cSls :> "flusher_sls")

MCStaticRegs ==
    << [cat |-> "Input", creator |-> cHost, singleton |-> TRUE],
       [cat |-> "Input", creator |-> cFile, singleton |-> FALSE],
       [cat |-> "Processor", creator |-> cRegex, singleton |-> FALSE],
       [cat |-> "Flusher", creator |-> cSls, singleton |-> FALSE] >>

MCDynamicRegs ==
    << [cat |-> "Processor", creator |-> cRegexExt, singleton |-> FALSE],
       [cat |-> "Processor", creator |-> cSplit, singleton |-> FALSE] >>

\* Plugin lists a config is applied with: the singleton Input, once or
\* twice; the plain Input with the optional processor, or twice.
MCVersions ==
    { << <<"Input", "input_host">>, <<"Processor", "processor_regex">>, <<"Flusher", "flusher_sls">> >>,
      << <<"Input", "input_host">>, <<"Input", "input_host">>, <<"Flusher", "flusher_sls">> >>,
      << <<"Input", "input_file">>, <<"Processor", "processor_split">>, <<"Flusher", "flusher_sls">> >>,
      << <<"Input", "input_file">>, <<"Input", "input_file">>, <<"Flusher", "flusher_sls">> >> }
=============================================================================
