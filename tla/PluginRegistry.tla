---------------------------- MODULE PluginRegistry ----------------------------
(***************************************************************************)
(* PluginRegistry: the process-wide catalog mPluginDict from a PluginKey    *)
(* (category, creator name) to the creator and its singleton flag, and the *)
(* pipeline builder that instantiates a config's plugins through it.       *)
(* LoadPlugins registers the static creators, then the processors of the   *)
(* auxiliary native module that load (one may fail, non-fatally);          *)
(* UnloadPlugins empties the catalog.  A registration of a key already in  *)
(* the catalog does not replace it (spec 4.1; RegisterCreator returns      *)
(* void, so the refusal is silent).  The builder refuses a config naming   *)
(* an unknown plugin, or a singleton Input that another applied config or  *)
(* the config itself already instantiates; it can ask only about Inputs    *)
(* (IsGlobalSingletonInputPlugin).                                         *)
(***************************************************************************)
EXTENDS Naturals, Sequences, SequencesExt

CONSTANTS
    Creators,      \* PluginCreator objects
    NameOf,        \* creator -> creator->Name()
    StaticRegs,    \* LoadStaticPlugins: its Register*Creator calls, in order
    DynamicRegs,   \* the auxiliary module's processors, in std::set order
    Configs,       \* pipeline config names
    Versions,      \* plugin lists a config can be applied with
    NoPipeline,    \* the config is not applied
    Null           \* nullptr from Create

Cats == {"Input", "Processor", "Flusher"}
PluginKeys == Cats \X {NameOf[c] : c \in Creators}

\* A Register*Creator call: RegisterInputCreator(creator, isSingleton),
\* RegisterProcessorCreator(creator) (never singleton),
\* RegisterFlusherCreator(creator, isSingleton).
Regs == [cat : Cats, creator : Creators, singleton : BOOLEAN]

\* PluginKey(cat, creator->Name()) and PluginCreatorWithInfo.
RegKey(reg) == <<reg.cat, NameOf[reg.creator]>>
Entry(reg) == [creator |-> reg.creator, singleton |-> reg.singleton]

\* A plugin instance a pipeline holds: its key and the creator that made it.
Instances == [key : PluginKeys, creator : Creators]

VARIABLES
    dict,        \* mPluginDict: a function on the registered keys
    loaded,      \* LoadPlugins has run and UnloadPlugins has not since
    pipeline     \* per config: the instances of its applied pipeline

vars == <<dict, loaded, pipeline>>

EmptyDict == [k \in {} |-> Entry(CHOOSE r \in Regs : TRUE)]

-----------------------------------------------------------------------------
\* RegisterCreator(cat, creator, isSingleton): insert the key unless the
\* catalog already holds it.
RegisterCreator(d, reg) ==
    IF RegKey(reg) \in DOMAIN d THEN d ELSE d @@ (RegKey(reg) :> Entry(reg))

\* LoadPlugins: LoadStaticPlugins, then LoadDynamicPlugins; a processor
\* whose LoadProcessorPlugin fails (nullptr) is skipped with a warning.
LoadPlugins ==
    /\ ~loaded
    /\ \E ok \in SUBSET DOMAIN DynamicRegs :
          LET regs == StaticRegs \o SelectSeq(DynamicRegs, LAMBDA r : \E i \in ok : DynamicRegs[i] = r)
          IN dict' = FoldLeft(RegisterCreator, dict, regs)
    /\ loaded' = TRUE
    /\ UNCHANGED pipeline

\* UnloadPlugins: the catalog is emptied.
UnloadPlugins ==
    /\ loaded
    /\ dict' = EmptyDict
    /\ loaded' = FALSE
    /\ UNCHANGED pipeline

\* Create(cat, name, meta): an instance from the key's creator, or nullptr.
Create(k) == IF k \in DOMAIN dict THEN [key |-> k, creator |-> dict[k].creator] ELSE Null

\* IsGlobalSingleton(cat, name); IsGlobalSingletonInputPlugin(name).
IsGlobalSingleton(k) == k \in DOMAIN dict /\ dict[k].singleton
IsGlobalSingletonInputPlugin(k) == k[1] = "Input" /\ IsGlobalSingleton(k)

\* IsValidNativeInputPlugin(name), IsValidNativeProcessorPlugin(name),
\* IsValidNativeFlusherPlugin(name): the catalog holds the key.
IsValidNativePlugin(k) == k \in DOMAIN dict

\* Instances of key k in config d's applied pipeline.
Uses(d, k) == IF pipeline[d] = NoPipeline THEN 0
              ELSE Len(SelectSeq(pipeline[d], LAMBDA i : i.key = k))

\* Mutant of ApplyConfig: a nullptr from Create is not checked.
ApplyConfigUnchecked(c, v) ==
    /\ \A k \in ToSet(v) : IsGlobalSingletonInputPlugin(k) =>
          /\ Len(SelectSeq(v, LAMBDA x : x = k)) = 1
          /\ \A d \in Configs \ {c} : Uses(d, k) = 0
    /\ pipeline' = [pipeline EXCEPT ![c] = [i \in DOMAIN v |-> Create(v[i])]]
    /\ UNCHANGED <<dict, loaded>>

\* The pipeline manager applies (or reloads) config c with plugin list v:
\* every plugin name is checked with IsValidNative<Category>Plugin, an
\* unknown one is a ConfigError, and each is created through the registry; a singleton Input may appear once, in no other applied
\* config.  On an error the config keeps its previous pipeline.
ApplyConfig(c, v) ==
    /\ \A i \in DOMAIN v : IsValidNativePlugin(v[i])
    /\ \A k \in ToSet(v) : IsGlobalSingletonInputPlugin(k) =>
          /\ Len(SelectSeq(v, LAMBDA x : x = k)) = 1
          /\ \A d \in Configs \ {c} : Uses(d, k) = 0
    /\ pipeline' = [pipeline EXCEPT ![c] = [i \in DOMAIN v |-> Create(v[i])]]
    /\ UNCHANGED <<dict, loaded>>

\* The config is removed and its pipeline released.
RemoveConfig(c) ==
    /\ pipeline[c] # NoPipeline
    /\ pipeline' = [pipeline EXCEPT ![c] = NoPipeline]
    /\ UNCHANGED <<dict, loaded>>

Init ==
    /\ dict = EmptyDict
    /\ loaded = FALSE
    /\ pipeline = [c \in Configs |-> NoPipeline]

Next ==
    \/ LoadPlugins
    \/ UnloadPlugins
    \/ \E c \in Configs, v \in Versions : ApplyConfig(c, v)
    \/ \E c \in Configs : RemoveConfig(c)

Spec == Init /\ [][Next]_vars

-----------------------------------------------------------------------------
(* Properties                                                              *)

TypeOK ==
    /\ DOMAIN dict \subseteq PluginKeys
    /\ \A k \in DOMAIN dict : dict[k] \in [creator : Creators, singleton : BOOLEAN]
    /\ loaded \in BOOLEAN
    /\ \A c \in Configs : pipeline[c] = NoPipeline \/ pipeline[c] \in Seq(Instances)

=============================================================================
