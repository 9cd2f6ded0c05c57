---------------------- MODULE ContainerDiscoveryOptions ----------------------
(***************************************************************************)
(* ContainerDiscoveryOptions::Init and the ContainerFilters it builds.     *)
(* A config string is a tuple of characters over a small alphabet, so the  *)
(* code's character tests (first '^', last '$', non-empty) are modelled by *)
(* what they do.  boost::regex construction is abstracted to Compiles: a   *)
(* pattern with an unbalanced "(" throws.  unordered_map iteration order   *)
(* is unspecified, so SplitRegexFromMap walks a map's keys in any order.   *)
(***************************************************************************)
EXTENDS Naturals, Sequences, SequencesExt

CONSTANTS
    FieldNames,   \* label / env keys a filter map may hold
    RegexStrs,    \* values of K8sNamespaceRegex, K8sPodRegex, K8sContainerRegex
    MapChoices,   \* values of the six Include/Exclude maps
    TagMapChoices, \* values of ExternalEnvTag and ExternalK8sLabelTag
    EnvChoices,   \* environments a discovered container may have
    LabelChoices, \* K8s labels a discovered container may have
    WrongType,    \* a JSON value of the wrong type
    Absent,       \* ContainerFilters missing from the config
    NotObject,    \* ContainerFilters present but not an object
    Null          \* a regex pointer left nullptr

EmptyMap == [f \in {} |-> Null]
IsStrMap(m) == DOMAIN m \subseteq FieldNames /\ \A k \in DOMAIN m : m[k] \in Seq(STRING)
IsFieldFilter(ff) ==
    DOMAIN ff = {"mFieldsMap", "mFieldsRegMap"} /\ IsStrMap(ff.mFieldsMap) /\ IsStrMap(ff.mFieldsRegMap)
EmptyFieldFilter == [mFieldsMap |-> EmptyMap, mFieldsRegMap |-> EmptyMap]

\* The string fields of ContainerFilterConfig, and the map fields.
RegexFields == {"mK8sNamespaceRegex", "mK8sPodRegex", "mK8sContainerRegex"}
MapFields == {"mIncludeK8sLabel", "mExcludeK8sLabel", "mIncludeEnv", "mExcludeEnv",
              "mIncludeContainerLabel", "mExcludeContainerLabel"}
FilterConfigs == [RegexFields -> RegexStrs] \X [MapFields -> MapChoices]

\* The JSON "ContainerFilters" value: absent, not an object, or an object.
JsonFilters == {Absent, NotObject} \cup
               {[f \in RegexFields \cup MapFields |-> IF f \in RegexFields THEN p[1][f] ELSE p[2][f]]
                   : p \in FilterConfigs}

\* ContainerFilters as slots: three regex pointers and six FieldFilters.
RegexSlots == {"mK8SFilter.mNamespaceReg", "mK8SFilter.mPodReg", "mK8SFilter.mContainerReg"}
FilterSlots == {"mK8SFilter.mK8sLabelFilter.mIncludeFields", "mK8SFilter.mK8sLabelFilter.mExcludeFields",
                "mContainerLabelFilter.mIncludeFields", "mContainerLabelFilter.mExcludeFields",
                "mEnvFilter.mIncludeFields", "mEnvFilter.mExcludeFields"}
DefaultFilters == [s \in RegexSlots \cup FilterSlots |->
                      IF s \in RegexSlots THEN Null ELSE EmptyFieldFilter]

-----------------------------------------------------------------------------
(* Operators translated from the code                                      *)

\* boost::regex(pattern) does not throw.
Compiles(s) == \A i \in DOMAIN s : s[i] # "("

\* Mutant of IsValidRegex: only the leading '^' is tested.
IsValidRegexPrefixOnly(s) == Len(s) > 0 /\ s[1] = "^"

\* SplitRegexFromMap: a value is a regex iff non-empty, starts with '^'
\* and ends with '$'.
IsValidRegex(s) == Len(s) > 0 /\ s[1] = "^" /\ s[Len(s)] = "$"

\* Mutant of SplitLoop: an anchored value is stored without being compiled.
RECURSIVE SplitLoopNoCompileCheck(_, _, _, _)
SplitLoopNoCompileCheck(inputs, order, static, regex) ==
    IF order = <<>> THEN [ok |-> TRUE, static |-> static, regex |-> regex]
    ELSE LET k == Head(order)
             v == inputs[k]
         IN IF ~IsValidRegex(v)
              THEN SplitLoopNoCompileCheck(inputs, Tail(order), static @@ (k :> v), regex)
            ELSE SplitLoopNoCompileCheck(inputs, Tail(order), static, regex @@ (k :> v))

\* The loop of SplitRegexFromMap over the entries in iteration order.
RECURSIVE SplitLoop(_, _, _, _)
SplitLoop(inputs, order, static, regex) ==
    IF order = <<>> THEN [ok |-> TRUE, static |-> static, regex |-> regex]
    ELSE LET k == Head(order)
             v == inputs[k]
         IN IF ~IsValidRegex(v)
              THEN SplitLoop(inputs, Tail(order), static @@ (k :> v), regex)
            ELSE IF Compiles(v)
              THEN SplitLoop(inputs, Tail(order), static, regex @@ (k :> v))
            ELSE [ok |-> FALSE, static |-> static, regex |-> regex]

\* SplitRegexFromMap(inputs, fieldFilter): fieldFilter is assigned only after
\* the whole loop succeeded.  perm is the iteration order of the keys.
SplitRegexFromMap(inputs, perm, ff) ==
    LET r == SplitLoop(inputs, SelectSeq(perm, LAMBDA k : k \in DOMAIN inputs), EmptyMap, EmptyMap)
    IN IF r.ok THEN [ok |-> TRUE, ff |-> [mFieldsMap |-> r.static, mFieldsRegMap |-> r.regex]]
       ELSE [ok |-> FALSE, ff |-> ff]

\* Mutant of InitSteps: the ExcludeEnv block copied from IncludeEnv keeps
\* its target.
InitStepsSwapped ==
    << [from |-> "mK8sNamespaceRegex", to |-> "mK8SFilter.mNamespaceReg"],
       [from |-> "mK8sPodRegex", to |-> "mK8SFilter.mPodReg"],
       [from |-> "mK8sContainerRegex", to |-> "mK8SFilter.mContainerReg"],
       [from |-> "mIncludeK8sLabel", to |-> "mK8SFilter.mK8sLabelFilter.mIncludeFields"],
       [from |-> "mExcludeK8sLabel", to |-> "mK8SFilter.mK8sLabelFilter.mExcludeFields"],
       [from |-> "mIncludeContainerLabel", to |-> "mContainerLabelFilter.mIncludeFields"],
       [from |-> "mExcludeContainerLabel", to |-> "mContainerLabelFilter.mExcludeFields"],
       [from |-> "mIncludeEnv", to |-> "mEnvFilter.mIncludeFields"],
       [from |-> "mExcludeEnv", to |-> "mEnvFilter.mIncludeFields"] >>

\* The statements of ContainerFilters::Init in code order: config field ->
\* filter slot.
InitSteps ==
    << [from |-> "mK8sNamespaceRegex", to |-> "mK8SFilter.mNamespaceReg"],
       [from |-> "mK8sPodRegex", to |-> "mK8SFilter.mPodReg"],
       [from |-> "mK8sContainerRegex", to |-> "mK8SFilter.mContainerReg"],
       [from |-> "mIncludeK8sLabel", to |-> "mK8SFilter.mK8sLabelFilter.mIncludeFields"],
       [from |-> "mExcludeK8sLabel", to |-> "mK8SFilter.mK8sLabelFilter.mExcludeFields"],
       [from |-> "mIncludeContainerLabel", to |-> "mContainerLabelFilter.mIncludeFields"],
       [from |-> "mExcludeContainerLabel", to |-> "mContainerLabelFilter.mExcludeFields"],
       [from |-> "mIncludeEnv", to |-> "mEnvFilter.mIncludeFields"],
       [from |-> "mExcludeEnv", to |-> "mEnvFilter.mExcludeFields"] >>

\* ContainerFilters::Init(config): run the steps, returning false at the
\* first regex that throws or map that fails to split; slots assigned by
\* earlier steps keep their values.
RECURSIVE RunInitSteps(_, _, _, _)
RunInitSteps(steps, config, perm, filters) ==
    IF steps = <<>> THEN [ok |-> TRUE, filters |-> filters]
    ELSE LET st == Head(steps)
             v == config[st.from]
             rest(f) == RunInitSteps(Tail(steps), config, perm, f)
         IN IF st.from \in RegexFields
              THEN IF v = <<>> THEN rest(filters)
                   ELSE IF Compiles(v) THEN rest([filters EXCEPT ![st.to] = v])
                   ELSE [ok |-> FALSE, filters |-> filters]
            ELSE IF DOMAIN v = {} THEN rest(filters)
            ELSE LET r == SplitRegexFromMap(v, perm, filters[st.to])
                 IN IF r.ok THEN rest([filters EXCEPT ![st.to] = r.ff])
                    ELSE [ok |-> FALSE, filters |-> filters]

ContainerFiltersInit(config, perm) == RunInitSteps(InitSteps, config, perm, DefaultFilters)

\* ContainerFilterConfig::Init: every parameter is optional; one of the wrong
\* type is ignored with a warning and keeps its default.  Always succeeds.
ContainerFilterConfigInit(obj) ==
    [f \in RegexFields \cup MapFields |->
        IF obj[f] # WrongType THEN obj[f]
        ELSE IF f \in RegexFields THEN <<>> ELSE EmptyMap]

\* Mutant of ContainerDiscoveryOptionsInit: the result of
\* ContainerFilters::Init is not checked.
ContainerDiscoveryOptionsInitIgnoringFilters(j, perm) ==
    IF j.filters \in {Absent, NotObject}
      THEN [ok |-> TRUE, filters |-> DefaultFilters,
            env |-> j.externalEnvTag, label |-> j.externalK8sLabelTag]
    ELSE LET r == ContainerFiltersInit(ContainerFilterConfigInit(j.filters), perm)
         IN [ok |-> TRUE, filters |-> r.filters,
             env |-> j.externalEnvTag, label |-> j.externalK8sLabelTag]

\* ContainerDiscoveryOptions::Init(config): a ContainerFilters value that is
\* not an object is ignored with a warning; a filter that fails to build
\* fails Init before ExternalK8sLabelTag and ExternalEnvTag are read.
ContainerDiscoveryOptionsInit(j, perm) ==
    IF j.filters \in {Absent, NotObject}
      THEN [ok |-> TRUE, filters |-> DefaultFilters,
            env |-> j.externalEnvTag, label |-> j.externalK8sLabelTag]
    ELSE LET r == ContainerFiltersInit(ContainerFilterConfigInit(j.filters), perm)
         IN IF ~r.ok THEN [ok |-> FALSE, filters |-> r.filters, env |-> EmptyMap, label |-> EmptyMap]
            ELSE [ok |-> TRUE, filters |-> r.filters,
                  env |-> j.externalEnvTag, label |-> j.externalK8sLabelTag]

\* One loop of GetCustomExternalTags: for each mapping key -> tagKey whose
\* key the container has, append <<tagKey, value>>.
RECURSIVE AppendFound(_, _, _, _)
AppendFound(mapping, found, order, tags) ==
    IF order = <<>> THEN tags
    ELSE LET k == Head(order)
         IN AppendFound(mapping, found, Tail(order),
                        IF k \in DOMAIN found THEN Append(tags, <<mapping[k], found[k]>>) ELSE tags)

\* Mutant of GetCustomExternalTags: returns early when either mapping is empty.
GetCustomExternalTagsEitherEmpty(env, label, envs, labels, tags) ==
    IF DOMAIN env = {} \/ DOMAIN label = {} THEN tags
    ELSE AppendFound(label, labels, SetToSeq(DOMAIN label),
                     AppendFound(env, envs, SetToSeq(DOMAIN env), tags))

\* GetCustomExternalTags(containerEnvs, containerK8sLabels, tags): env
\* mappings first, then K8s label mappings, appended to the caller's tags.
GetCustomExternalTags(env, label, envs, labels, tags) ==
    IF DOMAIN env = {} /\ DOMAIN label = {} THEN tags
    ELSE AppendFound(label, labels, SetToSeq(DOMAIN label),
                     AppendFound(env, envs, SetToSeq(DOMAIN env), tags))

-----------------------------------------------------------------------------
(* The plugin's Init, then one container discovered by it                  *)

Jsons == [filters : JsonFilters, externalEnvTag : TagMapChoices,
          externalK8sLabelTag : TagMapChoices]

\* A tag the input plugin has put on the container before (_container_name_).
PresetTag == <<"_container_name_", "c">>

VARIABLES
    json,            \* the plugin's config
    phase,           \* "new" | "inited" | "tagged"
    initResult,      \* return value of ContainerDiscoveryOptions::Init
    options,         \* mContainerFilters, mExternalEnvTag, mExternalK8sLabelTag
    container,       \* envs and K8s labels of the discovered container
    tags             \* tags vector passed to GetCustomExternalTags

vars == <<json, phase, initResult, options, container, tags>>

Init ==
    /\ json \in Jsons
    /\ phase = "new"
    /\ initResult = FALSE
    /\ options = [filters |-> DefaultFilters, env |-> EmptyMap, label |-> EmptyMap]
    /\ container = [envs |-> EmptyMap, labels |-> EmptyMap]
    /\ tags = <<PresetTag>>

\* The pipeline builds the input plugin, which calls Init; the iteration
\* order of a map's keys is any permutation, the same for every map.
InitOptions ==
    /\ phase = "new"
    /\ \E perm \in SetToSeqs(FieldNames) :
          LET r == ContainerDiscoveryOptionsInit(json, perm)
          IN /\ initResult' = r.ok
             /\ options' = [filters |-> r.filters, env |-> r.env, label |-> r.label]
    /\ phase' = "inited"
    /\ UNCHANGED <<json, container, tags>>

\* A container is discovered for a plugin whose Init succeeded.
TagContainer ==
    /\ phase = "inited"
    /\ initResult
    /\ \E envs \in EnvChoices, labels \in LabelChoices :
          /\ container' = [envs |-> envs, labels |-> labels]
          /\ tags' = GetCustomExternalTags(options.env, options.label, envs, labels, tags)
    /\ phase' = "tagged"
    /\ UNCHANGED <<json, initResult, options>>

Next == InitOptions \/ TagContainer

Spec == Init /\ [][Next]_vars

-----------------------------------------------------------------------------
(* Properties, against reference definitions written from the documented  *)
(* behaviour: a value that begins with ^ and ends with $ is a regex, any   *)
(* other value is matched exactly.                                         *)

Anchored(s) == s # <<>> /\ Head(s) = "^" /\ Last(s) = "$"

\* The filter slot each config field is documented to configure.
SlotOf ==
    [mK8sNamespaceRegex |-> "mK8SFilter.mNamespaceReg",
     mK8sPodRegex |-> "mK8SFilter.mPodReg",
     mK8sContainerRegex |-> "mK8SFilter.mContainerReg",
     mIncludeK8sLabel |-> "mK8SFilter.mK8sLabelFilter.mIncludeFields",
     mExcludeK8sLabel |-> "mK8SFilter.mK8sLabelFilter.mExcludeFields",
     mIncludeContainerLabel |-> "mContainerLabelFilter.mIncludeFields",
     mExcludeContainerLabel |-> "mContainerLabelFilter.mExcludeFields",
     mIncludeEnv |-> "mEnvFilter.mIncludeFields",
     mExcludeEnv |-> "mEnvFilter.mExcludeFields"]

\* The config's fields with values of the wrong type left at their defaults.
Effective(obj) ==
    [f \in RegexFields \cup MapFields |->
        IF obj[f] = WrongType THEN (IF f \in RegexFields THEN <<>> ELSE EmptyMap) ELSE obj[f]]

PatternsCompile(c) ==
    /\ \A f \in RegexFields : c[f] = <<>> \/ Compiles(c[f])
    /\ \A f \in MapFields : \A k \in DOMAIN c[f] : Anchored(c[f][k]) => Compiles(c[f][k])

IsCompiledPattern(p) == p \in Seq(STRING) /\ p # <<>> /\ \A i \in DOMAIN p : p[i] # "("

TypeOK ==
    /\ json \in Jsons
    /\ phase \in {"new", "inited", "tagged"}
    /\ initResult \in BOOLEAN
    /\ \A s \in FilterSlots : IsFieldFilter(options.filters[s])
    \* a shared_ptr<boost::regex> only ever holds a pattern that compiled
    /\ \A s \in RegexSlots : options.filters[s] = Null \/ IsCompiledPattern(options.filters[s])
    /\ \A s \in FilterSlots : \A k \in DOMAIN options.filters[s].mFieldsRegMap :
          IsCompiledPattern(options.filters[s].mFieldsRegMap[k])
    /\ options.env \in TagMapChoices /\ options.label \in TagMapChoices
    /\ tags \in Seq(STRING \X STRING)

\* ContainerDiscoveryOptions::Init fails exactly when ContainerFilters is an
\* object holding a K8s regex, or an anchored label / env value, that does
\* not compile, whatever order the unordered_maps are walked in; a
\* ContainerFilters of the wrong type is ignored.
InitResultAsSpecified ==
    phase # "new" =>
        initResult = (json.filters \in {Absent, NotObject}
                      \/ PatternsCompile(Effective(json.filters)))

\* After a successful Init, every slot of ContainerFilters holds exactly the
\* field that configures it: the K8s regexes as given (nullptr when empty),
\* and each label / env map split into exact-match entries and regex entries
\* by the ^...$ rule, nothing lost and nothing in the wrong filter.
FiltersAsSpecified ==
    phase # "new" /\ initResult =>
        IF json.filters \in {Absent, NotObject}
          THEN options.filters = DefaultFilters
        ELSE LET c == Effective(json.filters)
             IN /\ \A f \in RegexFields :
                      options.filters[SlotOf[f]] = IF c[f] = <<>> THEN Null ELSE c[f]
                /\ \A f \in MapFields :
                      LET regex == {k \in DOMAIN c[f] : Anchored(c[f][k])}
                      IN options.filters[SlotOf[f]] =
                            [mFieldsMap |-> Restrict(c[f], DOMAIN c[f] \ regex),
                             mFieldsRegMap |-> Restrict(c[f], regex)]

\* GetCustomExternalTags keeps the tags the caller already has and appends
\* one tag per configured ExternalEnvTag key the container's env has, then
\* one per configured ExternalK8sLabelTag key its labels have.
TagsAsConfigured ==
    phase = "tagged" =>
        LET env == json.externalEnvTag
            label == json.externalK8sLabelTag
            E == DOMAIN env \cap DOMAIN container.envs
            L == DOMAIN label \cap DOMAIN container.labels
            n == Cardinality(E)
        IN /\ Len(tags) = 1 + n + Cardinality(L)
           /\ tags[1] = PresetTag
           /\ {tags[i] : i \in 2..1 + n} = {<<env[k], container.envs[k]>> : k \in E}
           /\ {tags[i] : i \in 2 + n..Len(tags)} = {<<label[k], container.labels[k]>> : k \in L}
=============================================================================
