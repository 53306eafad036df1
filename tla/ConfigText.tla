----------------------------- MODULE ConfigText -----------------------------
(***************************************************************************)
(* How src/mumu/config.h turns a setting into YAML text and back: the      *)
(* specialisations of LexcalCast.  A text is the YAML document it holds: a *)
(* scalar, a sequence, a map, or a scalar whose content is the text of     *)
(* another document.  What yaml-cpp does with a node (emit it, load it     *)
(* again, ask its size) is taken from how the casts use it.  And what a    *)
(* file, whose maps keep their order, lists for the registry.              *)
(***************************************************************************)
EXTENDS ConfigRegistry

CONSTANTS
  Numbers,       \* scalars that boost::lexical_cast<int> takes
  TypedValues,   \* pairs of a type and a value of it
  Absent         \* what a cast that throws leaves

VARIABLE shown   \* a call of toString and fromString: the type, the value, and what came back
shownVars == <<shown>>

(* Types: [c |-> "int"], [c |-> "string"], or a container with the type e of its elements. *)
IsScalar(type) == type.c \in {"int", "string"}
NullNode == [is |-> "null"]
ScalarNode(v) == [is |-> "scalar", v |-> v]

(* YAML::Load of a text, and the scalar node a text becomes when it is put into a node. *)
Load(text) == IF text = ScalarNode("") THEN NullNode ELSE text
AsScalar(text) == IF text.is = "scalar" THEN text ELSE [is |-> "quoted", text |-> text]

(* ToStr: vector and map load the text of an element again, list and set put it in as a string. *)
Element(container, text) == IF container \in {"vector", "map"} THEN Load(text) ELSE AsScalar(text)
RECURSIVE ToText(_, _)
ToText(type, val) ==
  IF IsScalar(type) THEN ScalarNode(val)
  ELSE LET Put(v) == Element(type.c, ToText(type.e, v))
       IN IF type.c = "set" THEN [is |-> "sequence", of |-> [i \in DOMAIN SetToSeq(val) |-> Put(SetToSeq(val)[i])]]
          ELSE IF type.c = "map" /\ DOMAIN val # {} THEN [is |-> "map", of |-> [k \in DOMAIN val |-> Put(val[k])]]
          ELSE [is |-> "sequence", of |-> IF type.c = "map" THEN <<>> ELSE [i \in DOMAIN val |-> Put(val[i])]]

(* FromStr.  A node that is a scalar has size 0, which makes any container empty; an iterator
   over a sequence has no key, and an index into a map finds nothing, which is no number. *)
ScalarText(node) ==
  CASE node.is = "scalar" -> IF node.v = "" THEN "\"\"" ELSE node.v
    [] node.is = "null" -> "~"
    [] OTHER -> "document"
Entries(node) == IF node.is \in {"sequence", "map"} THEN node.of ELSE <<>>
RECURSIVE FromText(_, _)
FromText(type, node) ==
  IF type.c = "string" THEN ScalarText(node)
  ELSE IF type.c = "int" THEN (IF ScalarText(node) \in Numbers THEN ScalarText(node) ELSE Absent)
  ELSE LET read == [i \in DOMAIN Entries(node) |-> FromText(type.e, Entries(node)[i])]
           wrong == IF type.c = "map" THEN "sequence" ELSE "map"
       IN IF (node.is = wrong /\ DOMAIN read # {}) \/ \E i \in DOMAIN read : read[i] = Absent THEN Absent
          ELSE IF type.c = "set" THEN Range(read) ELSE read

-----------------------------------------------------------------------------
(* FromStr of a node of a file; of a key that is there twice the first one counts. *)
RECURSIVE Plain(_)
Plain(node) ==
  IF node.is = "map"
  THEN [is |-> "map", of |-> [k \in {node.of[i].key : i \in DOMAIN node.of} |->
          Plain(node.of[SelectInSeq(node.of, LAMBDA entry : entry.key = k)].node)]]
  ELSE IF node.is = "sequence" THEN [node EXCEPT !.of = [i \in DOMAIN @ |-> Plain(@[i])]] ELSE node
FromNode(type, node) == FromText(type, Plain(node))
NodeTakes(type, node) == FromNode(type, node) # Absent

(* ListAllMember: a node, then what is below it; a name that is not valid ends the branch,
   and so LoadFromYaml has nothing to put into lower case. *)
RECURSIVE ListAllMember(_, _)
ListAllMember(prefix, node) ==
  IF ~Valid(prefix) THEN <<>>
  ELSE <<[name |-> prefix, node |-> node]>> \o
       IF node.is # "map" THEN <<>>
       ELSE FlattenSeq([i \in DOMAIN node.of |-> ListAllMember(prefix \o node.of[i].key, node.of[i].node)])
FileMembers(file) == Tail(ListAllMember(<<>>, file))

(* What a file says of a name: the nodes that one reaches by its parts, in their order. *)
RECURSIVE Said(_, _)
Said(node, name) ==
  IF name = <<>> THEN <<node>>
  ELSE IF node.is # "map" THEN <<>>
  ELSE FlattenSeq([i \in DOMAIN node.of |->
         IF IsPrefix(node.of[i].key, name)
         THEN Said(node.of[i].node, SubSeq(name, Len(node.of[i].key) + 1, Len(name))) ELSE <<>>])

(* The list has of each valid name what the file says, in the order of the file, and of others nothing. *)
ASSUME MembersAreSaid ==
  \A f \in YamlFiles, n \in SettingNames :
    LET of == SelectSeq(FileMembers(f), LAMBDA member : NameOf(member.name) = n)
    IN [i \in DOMAIN of |-> of[i].node] = IF Valid(n) THEN Said(f, n) ELSE <<>>

-----------------------------------------------------------------------------
NotShown == [type |-> [c |-> "none"], val |-> 0, back |-> 0]
ShownInit == shown = NotShown
(* fromString of what toString returned; a scalar's text is not loaded. *)
TopText(type, val) == IF type.c = "string" THEN val ELSE FromText(type, ToText(type, val))
ToStringFromString ==
  /\ shown.type.c = "none"
  /\ \E tv \in TypedValues : shown' = [type |-> tv[1], val |-> tv[2], back |-> TopText(tv[1], tv[2])]

-----------------------------------------------------------------------------
ShownTypeOK == DOMAIN shown = DOMAIN NotShown

RECURSIVE Kept(_)
Kept(type) ==    \* no list or set of containers
  IsScalar(type) \/ (Kept(type.e) /\ (type.c \in {"list", "set"} => IsScalar(type.e)))
RECURSIVE HasEmptyText(_, _)
HasEmptyText(type, val) ==
  IF IsScalar(type) THEN val = ""
  ELSE \E v \in (IF type.c = "set" THEN val ELSE Range(val)) : HasEmptyText(type.e, v)

(* A setting that is written out and read is itself again.  Not so an empty string in a
   container, which comes back as ~ or as two quotes, nor the elements of a list or of a
   set that are containers themselves: they come back empty, those of a set as one. *)
SettingsReadBack ==
  shown.type.c # "none" =>
    \/ shown.back = shown.val
    \/ ~IsScalar(shown.type) /\ HasEmptyText(shown.type, shown.val)
    \/ ~Kept(shown.type) /\ shown.back # Absent
=============================================================================
