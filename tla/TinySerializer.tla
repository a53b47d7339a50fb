--------------------------- MODULE TinySerializer ---------------------------
(***************************************************************************)
(* The serializers of src/common/tinyserializer*.h over the reflection of  *)
(* tinyreflection.h.  Each side of an exchange describes its C++ struct    *)
(* property by property, and builds a Protobuf descriptor from it; an      *)
(* object is written as one bytes field per property, found by the number  *)
(* the writer gave it and read by the number the reader gave it.           *)
(*                                                                         *)
(* Integers have a width and travel as 64-bit unsigned: modelled with      *)
(* WireBits bits.                                                          *)
(***************************************************************************)
EXTENDS Integers, Sequences, FiniteSets, SequencesExt

CONSTANTS
    Sides,          \* the programs: "writer", "reader"
    Menu,           \* the properties a side may declare
    MaxProperties,  \* bound: properties of one struct
    WireBits        \* bound: the width of IntegerProto.value

\* The C++ types of a property: ProtoCase.  A property declared without a
\* serializer has the DummySerializer.
Widths == [int8_t |-> 2, int16_t |-> 3]
IntegerTypes == DOMAIN Widths
Types == IntegerTypes \cup {"string", "seq", "set", "map", "dummy"}

Property == [name : STRING, number : 0 .. 3, type : Types]

ASSUME SerializerAssumption ==
    /\ Menu \subseteq Property
    /\ MaxProperties \in Nat
    /\ \A t \in IntegerTypes : Widths[t] < WireBits
    \* A number is not given to a string, a sequence and a map in turn: their
    \* bytes can be mistaken for each other.
    /\ \A x, y \in Menu :
          x.number = y.number /\ {x.type, y.type} \cap {"string", "map"} # {}
              => x.type = y.type \/ {x.type, y.type} \cap IntegerTypes # {}
                 \/ "dummy" \in {x.type, y.type}

VARIABLES
    struct_,        \* per side: the properties, in the order declared
    descriptor_pool_ \* per side: the fields of the built message, or NotBuilt

serializerVars == <<struct_, descriptor_pool_>>

NotBuilt == [built |-> FALSE, fields |-> {}]

SerializerInit ==
    /\ struct_ = [p \in Sides |-> <<>>]
    /\ descriptor_pool_ = [p \in Sides |-> NotBuilt]

Properties(p) == ToSet(struct_[p])

------------------------------------------------------------------------------
(* Values and their bytes.                                                 *)

\* The message a value is written as: an integer (varint), a string or a
\* list of members.  The DummySerializer writes nothing.
Bytes(wire, value) == [wire |-> wire, value |-> value]
NoBytes == Bytes("none", <<>>)

Integer(v) == Bytes("integer", <<v % (2 ^ WireBits)>>)

\* Assigning the 64-bit value to a signed integer of the given width.
Narrow(u, width) ==
    LET low == u % (2 ^ width)
    IN IF low >= 2 ^ (width - 1) THEN low - 2 ^ width ELSE low

\* The members of a container, in iteration order: a set and a map iterate
\* by key.
SetMembers(v) == SetToSortSeq(v, <)
MapMembers(v) ==
    LET keys == SetToSortSeq(DOMAIN v, <) IN [i \in DOMAIN keys |-> <<keys[i], v[keys[i]]>>]

serialize(type, v) ==
    CASE type \in IntegerTypes -> Integer(v)
      [] type = "string" -> Bytes("string", <<v>>)
      [] type = "seq" -> Bytes("sequence", v)
      [] type = "set" -> Bytes("sequence", SetMembers(v))
      [] type = "map" -> Bytes("associate", MapMembers(v))
      [] type = "dummy" -> NoBytes

\* vector, list, deque: every member is pushed behind what is there.
PushBack(objects, members) == objects \o members

\* set: the members are inserted.
Insert(objects, members) == objects \cup ToSet(members)

\* map: a key that is there keeps its value.
InsertPairs(objects, members) ==
    LET keys == {members[i][1] : i \in DOMAIN members} \ DOMAIN objects
    IN [k \in DOMAIN objects \cup keys |->
            IF k \in DOMAIN objects THEN objects[k]
            ELSE members[CHOOSE i \in DOMAIN members : members[i][1] = k][2]]

\* A field of another wire type is unknown to the parser, which succeeds and
\* leaves the field of its own at the default.
Parsed(wire, data) == IF data.wire = wire THEN data.value ELSE <<>>

deserialize(type, object, data) ==
    CASE type \in IntegerTypes ->
            LET value == Parsed("integer", data)
            IN IF value = <<>> THEN 0 ELSE Narrow(value[1], Widths[type])
      [] type = "string" ->
            LET value == Parsed("string", data) IN IF value = <<>> THEN 0 ELSE value[1]
      [] type = "seq" -> PushBack(object, Parsed("sequence", data))
      [] type = "set" -> Insert(object, Parsed("sequence", data))
      [] type = "map" -> InsertPairs(object, Parsed("associate", data))
      [] type = "dummy" -> object

\* The value of a property in a newly constructed object.
Default(type) == CASE type \in IntegerTypes -> 0
                   [] type = "seq" -> <<>>
                   [] type = "set" -> {}
                   [] type = "map" -> <<>>
                   [] type \in {"string", "dummy"} -> 0

------------------------------------------------------------------------------
(* Reflection and mapping.                                                 *)

\* Struct::property(): a name that is there is left as it is.
property(p, x) ==
    /\ Len(struct_[p]) < MaxProperties
    /\ struct_' = IF \E y \in Properties(p) : y.name = x.name THEN struct_
                  ELSE [struct_ EXCEPT ![p] = Append(@, x)]
    /\ UNCHANGED descriptor_pool_

\* Protobuf accepts a message whose fields have numbers of their own.
ValidFields(fields) ==
    /\ \A x \in fields : x.number > 0
    /\ \A x, y \in fields : x.number = y.number => x = y

\* createProtoDescriptor(), from done() or createAllProtoDescriptor(): a file
\* of that name that is already built stays; a message that is not valid is
\* not built, and nobody is told.
createProtoDescriptor(p) ==
    /\ descriptor_pool_' =
          IF ~descriptor_pool_[p].built /\ ValidFields(Properties(p))
          THEN [descriptor_pool_ EXCEPT ![p] =
                  [built |-> TRUE,
                   fields |-> {[name |-> x.name, number |-> x.number] : x \in Properties(p)}]]
          ELSE descriptor_pool_
    /\ UNCHANGED struct_

\* The field of the built message a property is written to and read from.
Fields(p, x) == {f \in descriptor_pool_[p].fields : f.name = x.name}

\* ProtoDynSerializerImpl<UserDefined>::serialize(): the bytes of every
\* property that has a field, by the field's number.
DynSerialize(p, object) ==
    LET carried == {x \in Properties(p) : Fields(p, x) # {}}
        numberOf(x) == (CHOOSE f \in Fields(p, x) : TRUE).number
    IN [n \in {numberOf(x) : x \in carried} |->
           LET x == CHOOSE y \in carried : numberOf(y) = n
           IN serialize(x.type, object[x.name])]

\* Its deserialize(): a property that has a field is read, from nothing when
\* the message does not have it; one without is left alone.
DynDeserialize(p, object, message) ==
    [name \in DOMAIN object |->
        LET x == CHOOSE y \in Properties(p) : y.name = name
        IN IF Fields(p, x) = {} THEN object[name]
           ELSE LET n == (CHOOSE f \in Fields(p, x) : TRUE).number
                IN deserialize(x.type, object[name],
                               IF n \in DOMAIN message THEN message[n] ELSE NoBytes)]

NewObject(p) == [name \in {x.name : x \in Properties(p)} |->
                    Default((CHOOSE x \in Properties(p) : x.name = name).type)]
==============================================================================
