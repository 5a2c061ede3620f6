---------------------------- MODULE ConfigValidator ----------------------------
(* ConfigValidator of configmgr: a new configuration is walked key by key against
   the constraint file, and what is refused is taken from the configuration in
   force.  Loads follow one another; the result of one is the previous
   configuration of the next.

   A JSON value is a record with its kind t: "int", "float", "string" and "bool"
   have a value v, "object" has its members in m, "array" its elements in e, "null" nothing.
   A path is a sequence of keys; OBJECT_KEY stands for any key of a map.         *)
EXTENDS Integers, Sequences, FiniteSets, SequencesExt, TLC

CONSTANTS
    Keys,          \* every key, in the order in which nlohmann::json iterates
    Constraint,    \* path -> [Type, Default, Min, Max, Enum]
    Configs        \* the configurations that can be loaded

VARIABLE inForce   \* getPrevConfig(): the last configuration that was accepted

Null == [t |-> "null"]
Error == [t |-> "config_error"]
EmptyArray == [t |-> "array", e |-> <<>>]
OBJECT_KEY == "OBJECT_KEY"
INDEX == "0"       \* the index of an element, whichever
Maps == {"map.object"}
Arrays == {"array.int", "array.object"}

KeysOf(js) == IF js.t = "object" THEN DOMAIN js.m ELSE {}
Ordered(keys) == SelectSeq(Keys, LAMBDA k : k \in keys)
Size(js) == CASE js.t = "null" -> 0
              [] js.t = "object" -> Cardinality(DOMAIN js.m)
              [] js.t = "array" -> Len(js.e)
              [] OTHER -> 1

\* getParamValueFromJson(), isContainParamInJson(): the value at a path, or Error.
RECURSIVE Get(_, _)
Get(js, path) ==
    IF path = <<>> THEN js
    ELSE IF Head(path) \notin KeysOf(js) THEN Error
    ELSE Get(js.m[Head(path)], Tail(path))

Has(js, path) == Get(js, path) # Error

\* setParamValueToJson(): the path must exist.
RECURSIVE Put(_, _, _)
Put(js, path, value) ==
    IF path = <<>> THEN value
    ELSE [js EXCEPT !.m[Head(path)] = Put(@, Tail(path), value)]

Replace(js, path, value) ==
    IF value = Error \/ ~Has(js, path) THEN Error ELSE Put(js, path, value)

TypeOf(path) == IF path \in DOMAIN Constraint THEN Constraint[path].Type ELSE ""
DefaultOf(path) == IF path \in DOMAIN Constraint THEN Constraint[path].Default ELSE Null

--------------------------------------------------------------------------------
(* getDefaultConfig(): every parameter's Default, the members of a map's entries
   included, which become entries of the map.                                    *)

Children(path) == {p \in DOMAIN Constraint : Len(p) = Len(path) + 1 /\ IsPrefix(path, p)}

RECURSIVE DefaultAt(_)
DefaultAt(path) ==
    IF Children(path) = {} THEN DefaultOf(path)
    ELSE [t |-> "object", m |-> [k \in {Last(p) : p \in Children(path)} |->
                                    DefaultAt(Append(path, k))]]

getDefaultConfig == DefaultAt(<<>>)

--------------------------------------------------------------------------------
(* validateForOne(): TRUE, FALSE, or config_error for a parameter the constraint
   does not know and for a string outside its Enum.                              *)

FitsType(value, c) ==
    CASE value.t = "int" -> c.Type \in {"int", "float"}
      [] value.t = "float" -> c.Type = "float"
      [] value.t = "string" -> c.Type = "string"
      [] value.t = "bool" -> c.Type = "bool"
      [] value.t = "object" -> c.Type \in {"object"} \cup Maps
      [] value.t = "array" -> c.Type \in Arrays
      [] value.t = "null" -> c.Type = "object" \/ c.Default = Null

\* Only a number or null comes this far, and null is less than any Min.
InRange(value, c) == value # Null /\ value.v \in c.Min..c.Max

\* A version that does not look at the size of a map.
MutFits(value, size, c) ==
    /\ FitsType(value, c)
    /\ c.Type \notin {"string", "object", "bool"} \cup Maps => InRange(value, c)

Fits(value, size, c) ==
    /\ FitsType(value, c)
    /\ c.Type \notin {"string", "object", "bool"} =>
          IF c.Type \in Maps \cup Arrays THEN size \in c.Min..c.Max ELSE InRange(value, c)

Throws(path, value) ==
    \/ path \notin DOMAIN Constraint
    \/ /\ value.t = "string" /\ TypeOf(path) = "string"
       /\ Constraint[path].Enum # {} /\ value.v \notin Constraint[path].Enum

\* validateForOne() lets everything under ForDebug pass.
ForDebug(path) == path # <<>> /\ path[1] = "ForDebug"

--------------------------------------------------------------------------------
(* anyParamProc() for one value: the new configuration after it, or Error.  `parent`
   is parentKey, with OBJECT_KEY for the entry of a map; `name` is the key, and the
   index for an element of an array.                                             *)

MapEntry(parent) == parent # <<>> /\ TypeOf(parent) \in Maps
ConstraintPath(parent, name) ==
    SelectSeq(IF MapEntry(parent) THEN parent ELSE parent \o name,
              LAMBDA k : k # OBJECT_KEY)

\* parentPath once "/OBJECT_KEY/" is cut out of it: inside an object of a map's
\* entry the rest is glued to the name before it and is found nowhere.
ParentPath(parent, name) ==
    IF parent = <<>> THEN name
    ELSE IF Last(parent) = OBJECT_KEY THEN Front(parent) ELSE parent
Glued(parent) == \E i \in 1..Len(parent) - 1 : parent[i] = OBJECT_KEY

\* A version that knows a value without an old one by its place in an entry only.
MutRefusedEntry(conf, old, parent, key) ==
    LET up == ParentPath(parent, <<key>>)
        inEntry == MapEntry(parent) \/ \E i \in DOMAIN parent : parent[i] = OBJECT_KEY
    IN  IF inEntry /\ old = getDefaultConfig
        THEN Replace(conf, up, DefaultOf(up))
        ELSE IF Has(old, Append(parent, key))
        THEN Replace(conf, Append(parent, key), Get(old, Append(parent, key)))
        ELSE IF inEntry THEN Replace(conf, up, Get(old, up)) ELSE Error

\* A refused value is replaced by the old one; one without an old value, and any
\* member of a map's entry, by the old map, or by the map's Default when the old
\* configuration is the default one.
Refused(conf, old, parent, key) ==
    LET up == ParentPath(parent, <<key>>)
        inEntry == \E i \in DOMAIN parent : parent[i] = OBJECT_KEY
    IN  IF inEntry /\ old = getDefaultConfig
        THEN Replace(conf, up, DefaultOf(up))
        ELSE IF Has(old, Append(parent, key))
        THEN Replace(conf, Append(parent, key), Get(old, Append(parent, key)))
        ELSE IF TypeOf(IF parent = <<>> THEN <<key>> ELSE parent)
                   \in Maps \cup {"array.object"} \/ inEntry
        THEN Replace(conf, up, Get(old, up))
        ELSE Error

\* recurseJogConfig(): the walk goes over the configuration as it was given, the
\* replacements are made in `conf`.  An array is walked element by element, so that an
\* empty one passes unchecked.  An element is found neither in the constraint nor in
\* the configuration, unless the array is the entry of a map: then it stands for the
\* entry, and only its members are found nowhere.
RECURSIVE recurseJogConfig(_, _, _, _)
recurseJogConfig(conf0, old, parent, object) ==
    LET One(conf, key, name, value) ==
            LET path == ConstraintPath(parent, name)
                up == ParentPath(parent, name)
                below == IF MapEntry(parent) /\ Len(name) = 1 THEN <<OBJECT_KEY>> ELSE name
                accepted == IF KeysOf(value) = {} THEN conf
                            ELSE recurseJogConfig(conf, old, parent \o below, value)
            IN  IF conf = Error \/ Glued(parent) \/ ~Has(conf, up) THEN Error
                ELSE IF ForDebug(path) THEN accepted
                ELSE IF Throws(path, value) THEN Error
                ELSE IF Fits(value, Size(Get(conf, up)), Constraint[path]) THEN accepted
                ELSE Refused(conf, old, parent, key)
        Step(conf, key) ==
            LET value == object.m[key]
            IN  IF value.t = "array"
                THEN FoldLeft(LAMBDA c, el : One(c, key, <<key, INDEX>>, el), conf, value.e)
                ELSE One(conf, key, <<key>>, value)
    IN  FoldLeft(Step, conf0, Ordered(KeysOf(object)))

\* checkLostParamInConfig(): a map and what is below it may be missing.
MayBeMissing(path) ==
    \E i \in DOMAIN path : TypeOf(SubSeq(path, 1, i)) \in Maps \cup {"array.object"}
checkLostParamInConfig(conf) ==
    \A path \in DOMAIN Constraint : MayBeMissing(path) \/ Has(conf, path)

validateAndReplaceConfig(new, old) ==
    IF checkLostParamInConfig(new) THEN recurseJogConfig(new, old, <<>>, new) ELSE Error

Init == inForce = getDefaultConfig

\* loadInputConfig(): a configuration that is accepted is saved, and becomes the
\* previous one of the next load; one that ends in config_error leaves it.
Load(new) ==
    LET result == validateAndReplaceConfig(new, inForce)
    IN  inForce' = IF result = Error THEN inForce ELSE result

\* The constructor starts from the defaults, whatever was saved before.
Restart == inForce' = getDefaultConfig

Next == Restart \/ \E new \in Configs : Load(new)

Spec == Init /\ [][Next]_inForce

--------------------------------------------------------------------------------
(* Properties *)

\* The reference: a value is right for its parameter by the constraint's words,
\* independently of the walk.
RightScalar(value, c) ==
    CASE c.Type = "int" -> value.t = "int" /\ c.Min <= value.v /\ value.v <= c.Max
      [] c.Type = "string" -> value.t = "string" /\ (c.Enum = {} \/ value.v \in c.Enum)
      [] c.Type = "bool" -> value.t = "bool"
      [] c.Type = "object" -> value.t = "object"
      [] c.Type \in Arrays -> value.t = "null"

\* What may be in force besides: the Default, which may be null, and an empty array,
\* which passes in place of any parameter.
Tolerated(value, c) == value \in {c.Default, EmptyArray} \/ RightScalar(value, c)

\* An entry is an object with right members.  Null and an array of empty objects and
\* nulls pass as entries too; only a null or an object is counted against Min and Max.
RightEntry(entry, path) ==
    \/ entry = Null
    \/ entry.t = "array" /\ Range(entry.e) \subseteq {Null, [t |-> "object", m |-> <<>>]}
    \/ /\ entry.t = "object"
       /\ \A f \in KeysOf(entry) :
             /\ Append(path, f) \in DOMAIN Constraint
             /\ Tolerated(entry.m[f], Constraint[Append(path, f)])

\* The forms of a map that are let in without being maps of entries: its Default, the
\* entry-less template of the default configuration, and an empty array; a nested map
\* without an entry that is counted may have any size.
RightMap(value, path) ==
    \/ value \in {DefaultOf(path), DefaultAt(path), EmptyArray}
    \/ /\ value.t = "object"
       /\ \/ Constraint[path].Min <= Size(value) /\ Size(value) <= Constraint[path].Max
          \/ Len(path) > 1 /\ \A k \in KeysOf(value) : value.m[k] = EmptyArray
       /\ \A k \in KeysOf(value) : RightEntry(value.m[k], path)

\* Whatever is loaded, in whatever order, the configuration in force is right:
\* no refused value stays in it, and no replacement brings in a wrong one.
InForceIsRight ==
    \A path \in DOMAIN Constraint :
        IF MayBeMissing(path)
        THEN TypeOf(path) \in Maps /\ Has(inForce, path) => RightMap(Get(inForce, path), path)
        ELSE Has(inForce, path) /\ Tolerated(Get(inForce, path), Constraint[path])

\* A right value is never lost to a wrong neighbour: when a configuration is
\* accepted, each of its right parameters outside maps is taken over.
RightIsTaken ==
    \A new \in Configs :
        LET result == validateAndReplaceConfig(new, inForce)
        IN  result # Error =>
               \A path \in DOMAIN Constraint :
                  ~MayBeMissing(path) /\ Children(path) = {}
                     /\ RightScalar(Get(new, path), Constraint[path])
                  => Get(result, path) = Get(new, path)

\* Reading back the configuration in force changes nothing and is no error; in a
\* process that was started again and knows the defaults only it is no error.
\* (There it may change: a map in force as its out-of-range Default is refused.)
ReloadIsStable ==
    /\ validateAndReplaceConfig(inForce, inForce) = inForce
    /\ validateAndReplaceConfig(inForce, getDefaultConfig) # Error

\* A load takes over what is right and nothing else (validateAndReplaceConfig()).
LoadIsRight == InForceIsRight /\ RightIsTaken
================================================================================
