----------------------------- MODULE MCRedactor -----------------------------
\* A small redactor: values in which the same names are found under structs,
\* maps, lists, pointers and interfaces, and filters that compete for them.
EXTENDS Redactor

DefaultWords ==
  {"password", "address", "cipher", "email", "csrf", "accessToken", "apiKey", "cvv"}
SomeWords == DefaultWords \cup {"note"}
WordsAlone == ({""} \cup SomeWords) \ {"accessToken", "apiKey"}
RawMap == "map[string]any"
SomeTypes == {NoType, Rtype, RawMap, "User", "Holder", "Note"}
Plain(v) == Kid(NoName, TRUE, v)

Iface(v) == Node("iface", NoType, <<Plain(v)>>)
List(vs) == Node("list", NoType, [i \in DOMAIN vs |-> Plain(vs[i])])
Struct(type, kids) == Node("struct", type, kids)
Map(kids) == Node("map", RawMap, kids)
Field(word, v) == Kid(Spelled(word, "camel"), TRUE, v)
Private(v)     == Kid(Spelled("note", "camel"), FALSE, v)
Key(style, v)  == Kid(Spelled("accessToken", style), TRUE, v)

User == Struct("User", << Field("password", Leaf(1, 0)), Field("email", Leaf(2, 10)),
                          Field("note", Leaf(3, 3)), Private(Leaf(4, 4)) >>)
Tokens == Map(<< Key("camel", Leaf(5, 30)), Key("snake", Leaf(6, 4)),
                 Key("kebab", Leaf(7, 9)), Field("email", Pointer(Leaf(8, 6))) >>)
Holder(v) == Struct("Holder", <<Field("password", v), Private(Leaf(9, 2))>>)
Note(v)   == Struct("Note", <<Field("note", v), Private(Leaf(9, 2))>>)

SomeValues ==
  { User, Pointer(User), Tokens, Leaf(1, 5), Pointer(Pointer(User)),
    Holder(User), Holder(Pointer(Pointer(User))), Holder(Tokens), Holder(NilPointer),
    Note(Iface(User)), Note(Pointer(Pointer(Leaf(1, 2)))), Note(List(<<>>)),
    Note(Iface(Pointer(Tokens))), Note(Iface(NilPointer)),
    Note(Iface(TypeAsValue("User"))),
    List(<<Iface(Leaf(10, 1)), Pointer(Holder(List(<<User, Leaf(11, 7)>>)))>>),
    Map(<<Field("email", Holder(Tokens)), Field("note", Leaf(12, 8))>>) }

RECURSIVE Under(_), Height(_)
Under(v) == {v} \cup UNION {Under(u) : u \in KidsOf(v)}
Height(v) == IF KidsOf(v) = {} THEN 0 ELSE 1 + Max({Height(u) : u \in KidsOf(v)})
SomeNodes == {NilPointer} \cup UNION {Under(v) : v \in SomeValues}
SomeDepth == [v \in SomeNodes |-> Height(v)]

Of(type) == Struct(type, <<>>)
SomeFilters ==
  { NewFilter(NilPointer, NoName, "partial"),
    NewFilter(NilPointer, Spelled("note", "snake"), "full"),
    NewFilter(NilPointer, Spelled("email", "camel"), "full"),
    NewFilter(NilPointer, Spelled("accessToken", "kebab"), "full"),
    NewFilter(Of("User"), NoName, "partial"),
    NewFilter(Pointer(Of("User")), NoName, "full"),
    NewFilter(TypeAsValue("User"), NoName, "full"),
    NewFilter(Of("User"), Spelled("password", "camel"), "partial"),
    NewFilter(Of("Note"), Spelled("note", "camel"), "partial"),
    NewFilter(Map(<<>>), Spelled("accessToken", "kebab"), "partial"),
    NewFilter(Map(<<>>), Spelled("accessToken", "camel"), "full"),
    NewFilter(Map(<<>>), Spelled("email", "camel"), "full"),
    NewFilter(Map(<<>>), NoName, "full") }

=============================================================================
