------------------------------ MODULE ConfigSchema ------------------------------
(***************************************************************************)
(* The configuration schema: its rules, one configuration, and what        *)
(* validation, defaults and the JSON schema make of them.                  *)
(*                                                                         *)
(* A rule is a record of the fields that were set on it; key and type      *)
(* always are.  A key is the sequence of its parts, so that <<"a", "b">>   *)
(* is the rule key "a.b", and the member "a.b" were a document to have     *)
(* one.  A value is a function from paths, which are sequences of the      *)
(* names of members, to nodes; the empty path leads to its own node.  A    *)
(* node is [num |-> twice the number], [str |-> a string], [bool |-> ...], *)
(* [nul |-> TRUE], [list |-> a sequence of values] or [obj |-> TRUE].  A   *)
(* text that is a pattern's or a format's match, or that reads as a        *)
(* number, is given by constants.                                          *)
(*                                                                         *)
(* Rules are nested in rules.  The operators of this module are those on   *)
(* the rule itself; what they ask of the rules inside it is a parameter,   *)
(* and an instance gives the same operator for it: ValidateNode for        *)
(* ValidateNested, and KeysBelow for KeysNested.                           *)
(***************************************************************************)
EXTENDS Integers, Sequences, FiniteSets, SequencesExt

CONSTANTS RuleChoices,   \* the rules added
          Paths, Nodes,  \* where the document's owner puts members, and which
          MaxRules,      \* bound on the rules
          Matching,      \* the pairs of a text and a pattern or format it matches
          NumberRead,    \* the texts std::stoll and std::stod read, and what they read
          ValidateNested(_, _),  \* validateNode() on an item or a member
          KeysNested(_, _)       \* collectKeys() below a nested rule

VARIABLES rules, config
schemaVars == <<rules, config>>

Has(record, f) == f \in DOMAIN record
Get(record, f, default) == IF Has(record, f) THEN record[f] ELSE default
Is(node, kind) == kind \in DOMAIN node

Object == [obj |-> TRUE]
Leaf(node) == [p \in {<<>>} |-> node]

\* The part of a value that is its member n.
Member(v, n) ==
    [q \in {Tail(p) : p \in {p \in DOMAIN v : p # <<>> /\ Head(p) = n}} |-> v[<<n>> \o q]]

-----------------------------------------------------------------------------
(* What rules and values are                                               *)

TypeNames == {"string", "integer", "float", "boolean", "array", "object", "null"}
Kinds     == {"num", "str", "bool", "nul", "list", "obj"}

IsNode(node) == /\ \E kind \in Kinds : DOMAIN node = {kind}
                /\ Is(node, "obj") => node = Object

Key == Seq(STRING) \ {<<>>}

IsRule(r) ==
    /\ {"key", "type"} \subseteq DOMAIN r /\ r.key \in Key /\ r.type \in TypeNames
    /\ Get(r, "required", FALSE) \in BOOLEAN
    /\ DOMAIN Get(r, "nested", <<>>) \subseteq Key
    /\ DOMAIN Get(r, "properties", <<>>) \subseteq Key

\* The nodes that a path goes through on its way.
Above(path) == {SubSeq(path, 1, i) : i \in 0 .. Len(path) - 1}

IsValue(v) ==
    /\ <<>> \in DOMAIN v
    /\ \A p \in DOMAIN v :
           /\ p \in Seq(Key) /\ IsNode(v[p])
           /\ \A q \in Above(p) : q \in DOMAIN v /\ Is(v[q], "obj")

SchemaAssumption ==
    /\ MaxRules \in Nat /\ Matching \subseteq (STRING \X STRING)
    /\ \A r \in RuleChoices : IsRule(r)
    /\ Paths \subseteq Seq(Key) \ {<<>>} /\ \A node \in Nodes : IsNode(node)

-----------------------------------------------------------------------------
(* Validation of one value                                                 *)

\* An integer is one of the numbers; any number passes for a float.
ValidateType(node, type) ==
    CASE type = "string"  -> Is(node, "str")
      [] type = "integer" -> Is(node, "num") /\ node.num % 2 = 0
      [] type = "float"   -> Is(node, "num")
      [] type = "boolean" -> Is(node, "bool")
      [] type = "array"   -> Is(node, "list")
      [] type = "object"  -> Is(node, "obj")
      [] type = "null"    -> Is(node, "nul")

\* Only strings pass an enumeration.
ValidateEnum(node, allowed) == Is(node, "str") /\ node.str \in allowed

MatchPattern(text, pattern) == <<text, pattern>> \in Matching

ValidatePattern(node, r) ==
    Is(node, "str") /\ Get(r, "pattern", "") # "" => MatchPattern(node.str, r.pattern)

\* The bounds of both kinds count for an integer.
ValidateRange(node, r) ==
    LET Within(x, low, high) == /\ Has(r, low)  => x >= r[low]
                                /\ Has(r, high) => x <= r[high]
    IN  /\ Is(node, "num") /\ node.num % 2 = 0 => Within(node.num, "min", "max")
        /\ Is(node, "num")  => Within(node.num, "minFloat", "maxFloat")
        /\ Is(node, "str")  => Within(Len(node.str), "minLength", "maxLength")
        /\ Is(node, "list") => Within(Len(node.list), "minItems", "maxItems")

\* The formats of the constructor and of isFormatValid(); any other is valid.
CustomTypes == {"email", "url", "ip", "uuid"}

IsFormatValid(text, format) ==
    format \in {"email", "url", "ip", "uuid", "hostname", "path"}
        => <<text, format>> \in Matching

ValidateFormat(node, r) ==
    Is(node, "str") /\ Get(r, "format", "") # ""
        => IF r.format \in CustomTypes THEN <<node.str, r.format>> \in Matching
                                       ELSE IsFormatValid(node.str, r.format)

\* The rule of the items is one for strings unless it has been set.
ValidateArray(node, r) ==
    LET item == Get(r, "items", [key |-> <<>>, type |-> "string"])
    IN  Is(node, "list") /\ item.type # "null"
            => \A i \in DOMAIN node.list : ValidateNested(node.list[i], item)

\* Members without a rule are never refused: nothing sets strictMode.
ValidateObject(v, r) ==
    Is(v[<<>>], "obj") => \A p \in DOMAIN Get(r, "properties", <<>>) :
        IF <<p>> \in DOMAIN v THEN ValidateNested(Member(v, p), r.properties[p])
        ELSE ~ Get(r.properties[p], "required", FALSE)

ValidateNode(v, r) ==
    LET node == v[<<>>]
    IN  IF Is(node, "nul") THEN Get(r, "nullable", FALSE)
        ELSE /\ ValidateType(node, r.type)
             /\ Get(r, "enum", {}) # {} => ValidateEnum(node, r.enum)
             /\ ValidatePattern(node, r)
             /\ ValidateRange(node, r)
             /\ ValidateFormat(node, r)
             /\ ValidateArray(node, r)
             /\ ValidateObject(v, r)

-----------------------------------------------------------------------------
(* Validation of a configuration                                           *)

\* A key is looked up as a member of the root, its dots included.
Present(c, key) == <<key>> \in DOMAIN c

ValidateDependenciesNode(c, r) ==
    IF Present(c, r.key) THEN \A k \in Get(r, "requiredWith", {}) : Present(c, k)
                         ELSE \A k \in Get(r, "requiredWithout", {}) : Present(c, k)

ValidateDependencies(rs, c) == \A i \in DOMAIN rs : ValidateDependenciesNode(c, rs[i])

Validate(rs, c, strict) ==
    /\ \A i \in DOMAIN rs :
           IF Present(c, rs[i].key) THEN ValidateNode(Member(c, rs[i].key), rs[i])
                                    ELSE ~ Get(rs[i], "required", FALSE)
    /\ strict => ValidateDependencies(rs, c)

-----------------------------------------------------------------------------
(* The keys of the schema                                                  *)

\* The keys of a rule's nested rules or of its properties.
Below(r, f) == {r.key \o n : n \in DOMAIN Get(r, f, <<>>)}

KeysOf(r) == {r.key} \cup Below(r, "nested") \cup Below(r, "properties")

\* The last rule to have a key, at its top or one level below it.
LastRule(rs, k) == rs[CHOOSE i \in DOMAIN rs :
                         /\ k \in KeysOf(rs[i])
                         /\ \A j \in DOMAIN rs : k \in KeysOf(rs[j]) => j <= i]

\* buildRuleMap(): a property overrides a nested rule, and that the rule itself.
RuleMap(rs) ==
    LET Rest(k, r) == SubSeq(k, Len(r.key) + 1, Len(k))
    IN  [k \in UNION {KeysOf(rs[i]) : i \in DOMAIN rs} |->
            LET r == LastRule(rs, k)
            IN  IF k \in Below(r, "properties") THEN r.properties[Rest(k, r)]
                ELSE IF k \in Below(r, "nested") THEN r.nested[Rest(k, r)] ELSE r]

HasKey(rs, k) == k \in DOMAIN RuleMap(rs)

ValidateKey(rs, k, v) == HasKey(rs, k) /\ ValidateNode(v, RuleMap(rs)[k])

\* collectKeys() on what is inside a rule.  It goes by the rules' own keys, where
\* buildRuleMap() goes by the names of the properties.
KeysBelow(r, key) ==
    LET Inside(f) == {Get(r, f, <<>>)[n] : n \in DOMAIN Get(r, f, <<>>)}
    IN  UNION {{key \o q.key} \cup KeysNested(q, key \o q.key) :
                   q \in Inside("nested") \cup Inside("properties")}

CollectKeys(r, prefix) == {prefix \o r.key} \cup KeysBelow(r, prefix \o r.key)

GetAllKeys(rs) == UNION {CollectKeys(rs[i], <<>>) : i \in DOMAIN rs}

GetRequiredKeys(rs) == {rs[i].key : i \in {j \in DOMAIN rs : Get(rs[j], "required", FALSE)}}

-----------------------------------------------------------------------------
(* Defaults                                                                *)

\* A default that does not read as a number of its type is the null value.
GetDefaultValue(r) ==
    LET text == Get(r, "default", "")
    IN  CASE text = "" -> (CASE r.type = "string"  -> [str |-> ""]
                             [] r.type \in {"integer", "float"} -> [num |-> 0]
                             [] r.type = "boolean" -> [bool |-> FALSE]
                             [] r.type = "array"   -> [list |-> <<>>]
                             [] r.type = "object"  -> Object
                             [] OTHER              -> [nul |-> TRUE])
          [] text # "" /\ r.type = "integer" /\ text \in DOMAIN NumberRead ->
                 [num |-> NumberRead[text] - (NumberRead[text] % 2)]
          [] text # "" /\ r.type = "float" /\ text \in DOMAIN NumberRead ->
                 [num |-> NumberRead[text]]
          [] text # "" /\ r.type \in {"integer", "float"} /\ text \notin DOMAIN NumberRead ->
                 [nul |-> TRUE]
          [] text # "" /\ r.type = "boolean" -> [bool |-> text \in {"true", "1"}]
          [] text # "" /\ r.type \notin {"integer", "float", "boolean"} -> [str |-> text]

SplitKey(key) == [i \in DOMAIN key |-> <<key[i]>>]

\* No value at all: an exception.
Throws == <<>>

\* The default goes where the parts of the key lead, through objects made on the
\* way; a node there that is neither an object nor null throws.
PutDefault(v, path, default, overwrite) ==
    IF \E p \in Above(path) \cap DOMAIN v : ~ Is(v[p], "obj") /\ ~ Is(v[p], "nul")
    THEN Throws
    ELSE IF path \in DOMAIN v /\ ~ overwrite THEN v
    ELSE [p \in {p \in DOMAIN v : ~ IsPrefix(path, p)} \cup Above(path) \cup {path} |->
             IF p = path THEN default ELSE IF p \in Above(path) THEN Object ELSE v[p]]

\* Mutant of ApplyDefault: what is there counts for nothing.
ReplaceByDefault(v, r, overwrite) ==
    IF v = Throws \/ Get(r, "default", "") = "" THEN v
    ELSE PutDefault(v, SplitKey(r.key), GetDefaultValue(r), TRUE)

\* One turn of the loop of applyDefaults().
ApplyDefault(v, r, overwrite) ==
    IF v = Throws \/ Get(r, "default", "") = "" THEN v
    ELSE PutDefault(v, SplitKey(r.key), GetDefaultValue(r), overwrite)

\* The configuration after the first i rules, for every i.
Filled(rs, c, overwrite) ==
    LET filled[i \in 0 .. Len(rs)] ==
            IF i = 0 THEN c ELSE ApplyDefault(filled[i - 1], rs[i], overwrite)
    IN  filled

\* How many of the rules applyDefaults() comes through: all, or those before the one
\* that throws.
RulesDone(rs, c, overwrite) ==
    CHOOSE n \in 0 .. Len(rs) :
        /\ Filled(rs, c, overwrite)[n] # Throws
        /\ n < Len(rs) => Filled(rs, c, overwrite)[n + 1] = Throws

\* It works on the document of the caller, which keeps what was done before a throw.
ApplyDefaults(rs, c, overwrite) ==
    Filled(rs, c, overwrite)[RulesDone(rs, c, overwrite)]

GenerateDefaultConfig(rs) == Filled(rs, Leaf(Object), TRUE)[Len(rs)]

-----------------------------------------------------------------------------
(* The JSON schema                                                         *)

\* exportJsonSchema(): the type, the enumeration, the pattern, the bounds of
\* integers and strings, and the default, by its value or as it is; nothing else of
\* the last rule of each key.
ExportJsonSchema(rs) ==
    LET LastOf(k) == rs[CHOOSE i \in DOMAIN rs : rs[i].key = k /\
                          \A j \in DOMAIN rs : rs[j].key = k => j <= i]
        Kept(r) == {"type", "enum", "pattern", "min", "max", "minLength", "maxLength"}
                       \cap DOMAIN r
        Default(r) == LET value == GetDefaultValue(r)
                      IN  IF Is(value, "nul") THEN [str |-> r.default] ELSE value
        Property(r) == [f \in Kept(r) \cup (IF Get(r, "default", "") # ""
                                            THEN {"default"} ELSE {}) |->
                           IF f = "default" THEN Default(r) ELSE r[f]]
    IN  [required   |-> GetRequiredKeys(rs),
         properties |-> [k \in {rs[i].key : i \in DOMAIN rs} |-> Property(LastOf(k))]]

\* The text of a number, a truth value or a string: asString().
TextOf(v) == CASE Is(v, "str")  -> v.str
               [] Is(v, "bool") -> IF v.bool THEN "true" ELSE "false"
               [] Is(v, "num")  -> CHOOSE t \in DOMAIN NumberRead : NumberRead[t] = v.num
               [] OTHER         -> ""

\* The loaders have no "float" and no "null", which are what export writes: a rule of
\* those types stays the string rule that it is made as.
LoadedType(type) == IF type \in {"float", "null"} THEN "string" ELSE type

\* Mutant of RuleOf: a rule is read as one of a key that may be absent.
RuleOptional(s, k) ==
    LET p == s.properties[k]
    IN  [f \in DOMAIN p \cup {"key"} |-> CASE f = "key" -> k
                                          [] f = "default" -> TextOf(p[f])
                                          [] OTHER -> p[f]]

\* loadJsonSchema() on one property; the bounds go with the type.
RuleOf(s, k) ==
    LET p    == s.properties[k]
        type == LoadedType(p.type)
        kept == ({"enum"} \cup CASE type = "string"  -> {"pattern", "minLength", "maxLength"}
                                 [] type = "integer" -> {"min", "max"}
                                 [] OTHER            -> {}) \cap DOMAIN p
    IN  [f \in kept \cup {"key", "type", "required", "default"} |->
            CASE f = "key"      -> k
              [] f = "type"     -> type
              [] f = "required" -> k \in s.required
              [] f = "default"  -> IF Has(p, "default") THEN TextOf(p.default) ELSE ""
              [] OTHER          -> p[f]]

\* loadYamlSchema() on one property, which says itself whether it is required, and
\* may have a format.
YamlRuleOf(p, k) ==
    LET type == LoadedType(p.type)
        kept == ({"enum", "required", "default", "format", "sensitive", "readOnly"} \cup
                    CASE type = "string"  -> {"pattern", "minLength", "maxLength"}
                      [] type = "integer" -> {"min", "max"}
                      [] OTHER            -> {}) \cap DOMAIN p
    IN  [f \in kept \cup {"key", "type"} |->
            CASE f = "key" -> k [] f = "type" -> type [] OTHER -> p[f]]

\* The rules are added in the order of the keys; only their keys differ here.
LoadJsonSchema(s) == LET keys == SetToSeq(DOMAIN s.properties)
                     IN  [i \in DOMAIN keys |-> RuleOf(s, keys[i])]

-----------------------------------------------------------------------------
Init == rules = <<>> /\ config = Leaf(Object)

AddRule(r) == Len(rules) < MaxRules /\ rules' = Append(rules, r) /\ UNCHANGED config

Clear == rules' = <<>> /\ UNCHANGED config

\* The owner of the document sets a member, of the root or below.
SetMember(path, node) ==
    /\ config' = PutDefault(config, path, node, TRUE)
    /\ config' # Throws
    /\ UNCHANGED rules

FillIn(overwrite) ==
    /\ config' = ApplyDefaults(rules, config, overwrite)
    /\ UNCHANGED rules

\* The document is made anew, unless that throws.
Generate ==
    /\ config' = GenerateDefaultConfig(rules)
    /\ config' # Throws
    /\ UNCHANGED rules

Next == \/ \E r \in RuleChoices : AddRule(r)
        \/ Clear \/ Generate
        \/ \E path \in Paths, node \in Nodes : SetMember(path, node)
        \/ \E overwrite \in BOOLEAN : FillIn(overwrite)

-----------------------------------------------------------------------------
Conforms(r) == Get(r, "default", "") # "" => ValidateNode(Leaf(GetDefaultValue(r)), r)

\* No key leads through another one, and no two rules share one.
Separate(rs) == \A i, j \in DOMAIN rs : i # j => ~ IsPrefix(rs[i].key, rs[j].key)

\* A rule whose fields all are in the JSON schema.
Portable(r) ==
    /\ DOMAIN r \subseteq {"key", "type", "required", "enum", "pattern", "min", "max",
                           "minLength", "maxLength", "default"}
    /\ r.type \notin {"float", "null"}

\* The schema has rules and the configuration is an object.
SchemaTypeOK == /\ rules \in Seq(RuleChoices) /\ Len(rules) <= MaxRules
                /\ IsValue(config) /\ Is(config[<<>>], "obj")

\* Defaults fill in and never spoil, even where a scalar in the middle of a dotted key
\* makes applyDefaults() throw halfway: what the document has it keeps, at every path,
\* but for a null that had to become an object; a second call adds nothing; and where no
\* key leads through another and every default meets its own rule, a configuration that
\* is valid stays so.
DefaultsFillIn ==
    LET filled == ApplyDefaults(rules, config, FALSE)
    IN  /\ ApplyDefaults(rules, filled, FALSE) = filled
        /\ \A p \in DOMAIN config :
               p \in DOMAIN filled /\ (Is(config[p], "nul") \/ filled[p] = config[p])
        /\ Separate(rules) /\ (\A i \in DOMAIN rules : Conforms(rules[i]))
             /\ Validate(rules, config, FALSE) => Validate(rules, filled, FALSE)

\* A schema that is exported and loaded again accepts the same configurations, if it
\* has a rule per key, whose type the loader knows and whose fields all are in the JSON
\* schema; and the YAML loader reads the same rules.
ExportedSchemaAgrees ==
    Separate(rules) /\ (\A i \in DOMAIN rules : Portable(rules[i])) =>
        /\ (Validate(LoadJsonSchema(ExportJsonSchema(rules)), config, FALSE)
                <=> Validate(rules, config, FALSE))
        /\ \A i \in DOMAIN rules :
               LET r == RuleOf(ExportJsonSchema(rules), rules[i].key)
               IN  YamlRuleOf(r, r.key) = r

\* A rule nested in another, or a property of it under its own key, is listed by
\* getAllKeys() and found by hasKey(); and what a rule of a valid configuration accepts
\* is what the key's rule accepts alone.
KeysHaveRules ==
    /\ \A i \in DOMAIN rules, f \in {"nested", "properties"} :
           \A n \in DOMAIN Get(rules[i], f, <<>>) :
               /\ HasKey(rules, rules[i].key \o n)
               /\ rules[i][f][n].key = n => rules[i].key \o n \in GetAllKeys(rules)
    /\ Separate(rules) /\ Validate(rules, config, FALSE) =>
           \A i \in DOMAIN rules : Present(config, rules[i].key) =>
               ValidateKey(rules, rules[i].key, Member(config, rules[i].key))
=============================================================================
