---------------------------- MODULE PluginLoader ----------------------------
(***************************************************************************)
(* PluginLoader, CanAdapterPluginFactory and ParameterString: the plugin   *)
(* of an adapter, and the options a controller of it is created with.      *)
(*                                                                         *)
(* A library of a directory is [loads, type, name]: type is None when it   *)
(* has no PLUGIN_GetFuncs().                                               *)
(***************************************************************************)
EXTENDS Integers, SequencesExt

None == "none"

(* The result is that of the last library, whatever became of the others:  *)
(* the factories are those of CAN adapters only.                           *)
LoadLibrary(res, library, wanted) ==
  [ret |-> library.loads,
   plugins |-> IF library.loads /\ library.type = "can_adapter" /\ library.name \in wanted
               THEN Append(res.plugins, library) ELSE res.plugins]

(* PluginLoader::load() of a directory that can be listed, with the names  *)
(* its filter lets through                                                 *)
LoadPlugins(libraries, wanted) ==
  FoldLeft(LAMBDA res, library : LoadLibrary(res, library, wanted),
           [ret |-> TRUE, plugins |-> <<>>], libraries)

(* Variant: the first of several plugins *)
LoadFirstAdapter(libraries, adapter) ==
  LET res == LoadPlugins(libraries, {adapter})
  IN IF res.ret /\ Len(res.plugins) >= 1 THEN {res.plugins[1]} ELSE {}

(* CanAdapterPluginFactory::load() of one adapter: a set of one plugin, or *)
(* of none.  The plugins that are not returned stay loaded.                *)
LoadAdapter(libraries, adapter) ==
  LET res == LoadPlugins(libraries, {adapter})
  IN IF res.ret /\ Len(res.plugins) = 1 THEN {res.plugins[1]} ELSE {}

(* of the adapters of a list, and of all *)
LoadAdapters(libraries, adapters) == LoadPlugins(libraries, adapters)
LoadAll(libraries) == LoadPlugins(libraries, {library.name : library \in Range(libraries)})

-----------------------------------------------------------------------------
(* ParameterString: the text is split at ';' and '=' into sequences of     *)
(* texts, of which those of a name and a value count, and the last ones of *)
(* a name.                                                                 *)
AddParameter(params, split) ==
  IF Len(split) = 2 /\ "" \notin Range(split)
  THEN [name \in DOMAIN params \union {split[1]} |->
          IF name = split[1] THEN split[2] ELSE params[name]]
  ELSE params

ParameterString(text) == FoldLeft(AddParameter, [name \in {} |-> ""], text)

GetParam(params, name, default) ==
  IF name \in DOMAIN params THEN params[name] ELSE default
=============================================================================
