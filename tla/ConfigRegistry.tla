--------------------------- MODULE ConfigRegistry ---------------------------
(***************************************************************************)
(* Config of src/mumu/config.cc and config.h: the registry of settings,    *)
(* which code looks up by name and type and which LoadFromYaml sets from a *)
(* file, key by key, a lock at a time.  A name is the sequence of its      *)
(* parts between dots.  What a file lists and what the casts make of a     *)
(* node is ConfigText's.                                                   *)
(***************************************************************************)
EXTENDS Integers, Sequences, SequencesExt

CONSTANTS
  Loaders,                  \* threads that load a file
  SettingNames, TypesOf(_),   \* and the types that code looks a name up with
  Defaults(_),              \* the value a type is looked up with
  BadParts,                 \* parts of a name with other characters than a-z0-9_
  LowerOf(_),               \* a part in lower case
  YamlFiles,
  Members(_),               \* of a file: what ListAllMember lists below the root
  Takes(_, _), Cast(_, _),  \* of a type and a node: whether FromStr takes it, and the value
  NoVar,                    \* there is no ConfigVar of that name
  MaxLoads                  \* bound: files loaded in all

Listed == UNION {Range(Members(f)) : f \in YamlFiles}

VarOf(type, val) == [type |-> type, val |-> val]
Types == UNION {TypesOf(n) : n \in SettingNames}

ASSUME RegistryAssumption ==
  /\ MaxLoads \in Nat /\ \A f \in YamlFiles : Members(f) \in Seq(Listed)
  /\ \A type \in Types, member \in Listed : VarOf(type, Cast(type, member.node)) # NoVar

VARIABLES
  s_datas,     \* of each name: the type and value of its ConfigVar, if there is one
  loader,      \* of each loader: the nodes still to visit, and for the properties the file,
               \* the values when it began, and names that others meanwhile made or set
  loads
registryVars == <<s_datas, loader, loads>>

NoFile == [is |-> "null"]
LoaderAt(todo, file, before, met) == [todo |-> todo, file |-> file, before |-> before, met |-> met]

RegistryInit ==
  /\ s_datas = [n \in SettingNames |-> NoVar] /\ loads = 0
  /\ loader = [t \in Loaders |-> LoaderAt(<<>>, NoFile, s_datas, SettingNames)]

Valid(name) == \A i \in DOMAIN name : name[i] \notin BadParts

(* Others make or set a setting while a loader loads its file. *)
MeetsIn(at, name) == LoaderAt(at.todo, at.file, at.before, at.met \cup {name})

(* Lookup with a default: makes the setting unless there is one, of whatever type, and
   throws if the name is not valid.  Whoever finds another type gets no setting. *)
Lookup(name, type) ==
  /\ s_datas[name] = NoVar /\ Valid(name)
  /\ s_datas' = [s_datas EXCEPT ![name] = VarOf(type, Defaults(type))]
  /\ loader' = [t \in Loaders |-> MeetsIn(loader[t], name)] /\ UNCHANGED loads

LoadFromYaml(t, file) ==    \* the root has the empty name and is passed over
  /\ loader[t].todo = <<>> /\ loads < MaxLoads /\ loads' = loads + 1
  /\ loader' = [loader EXCEPT ![t] = LoaderAt(Members(file), file, s_datas, {})]
  /\ UNCHANGED s_datas

(* A key: looked up, then set by fromString, which keeps the value when the cast throws. *)
Assigned(name, node) ==
  LET var == s_datas[name]
  IN IF var = NoVar \/ ~Takes(var.type, node) THEN s_datas
     ELSE [s_datas EXCEPT ![name] = VarOf(var.type, Cast(var.type, node))]
NameOf(given) == [i \in DOMAIN given |-> LowerOf(given[i])]
LoadKey(t) ==
  LET node == Head(loader[t].todo).node
      name == NameOf(Head(loader[t].todo).name)
      known == name \in SettingNames
      at == loader[t]
  IN /\ at.todo # <<>> /\ UNCHANGED loads
     /\ s_datas' = IF known THEN Assigned(name, node) ELSE s_datas
     /\ loader' = [u \in Loaders |->
          IF u = t THEN LoaderAt(Tail(at.todo), at.file, at.before, at.met)
          ELSE IF known THEN MeetsIn(loader[u], name) ELSE loader[u]]

RegistryNext ==
  \/ \E n \in SettingNames : \E type \in TypesOf(n) : Lookup(n, type)
  \/ \E t \in Loaders : LoadKey(t) \/ \E f \in YamlFiles : LoadFromYaml(t, f)

RegistrySpec == RegistryInit /\ [][RegistryNext]_registryVars

-----------------------------------------------------------------------------
RegistryTypeOK ==
  /\ \A n \in SettingNames : s_datas[n] = NoVar \/ s_datas[n].type \in TypesOf(n)
  /\ loads \in 0..MaxLoads /\ \A t \in Loaders : loader[t].met \subseteq SettingNames

(* When a file has been loaded, a setting that was there before has the last value that the
   file gives it and that its type takes, else the value it had; settings that were made while
   the file was loaded, or that another file set, are the exceptions (Config::LoadFromYaml). *)
FileApplied ==
  \A t \in Loaders : loader[t].todo = <<>> =>
    \A n \in SettingNames \ loader[t].met :
      LET var == loader[t].before[n]
          said == Members(loader[t].file)
          given == {i \in DOMAIN said : NameOf(said[i].name) = n /\ Takes(var.type, said[i].node)}
      IN IF var = NoVar \/ given = {} THEN s_datas[n] = var
         ELSE \E last \in given : /\ \A i \in given : i <= last
                                  /\ s_datas[n] = VarOf(var.type, Cast(var.type, said[last].node))
=============================================================================
