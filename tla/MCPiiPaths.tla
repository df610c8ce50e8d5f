----------------------------- MODULE MCPiiPaths -----------------------------
(* Instances of PiiPaths for TLC: four documents and small JSON payloads.  *)
EXTENDS PiiPaths, TLC

Str(pii) == [kind |-> "string", pii |-> pii, props |-> <<>>, items |-> {}]
Obj(pii, props) == [kind |-> "object", pii |-> pii, props |-> props, items |-> {}]
Arr(items) == [kind |-> "array", pii |-> FALSE, props |-> <<>>, items |-> {items}]

a == Name("a")
b == Name("b")
c == Name("c")
a_b == a \o b                       \* the property name "a.b"

\* Strings, marked and not.
Leaf == "pii" :> Str(TRUE) @@ "open" :> Str(FALSE)

\* Inner is reached by reference, from an object and from an array; one
\* reference dangles and one is chained.
Refs ==
  [components |-> [Outer |-> Item("outer"), Inner |-> Item("inner"),
                   Chained |-> Ref("Inner"), Other |-> Item("other")],
   schemas |->
     Leaf @@ "outer" :> Obj(FALSE, a :> Item("pii") @@ b :> Ref("Inner") @@ c :> Item("inners"))
     @@ "inners" :> Arr(Ref("Inner"))
     @@ "inner" :> Obj(TRUE, c :> Item("list"))
     @@ "list" :> Arr(Item("pii"))
     @@ "other" :> Obj(FALSE, b :> Ref("Nowhere") @@ c :> Ref("Chained"))]

\* A name the path language has no words for, beside a plain one.
Odd ==
  [components |-> [Outer |-> Item("outer")],
   schemas |-> Leaf @@ "outer" :> Obj(FALSE, a_b :> Item("pii") @@ c :> Item("pii"))]

\* Arrays it has no words for: of arrays, and at the root.
Lists ==
  [components |-> [Outer |-> Item("outer"), List |-> Item("list")],
   schemas |->
     Leaf @@ "outer" :> Obj(FALSE, b :> Item("lists") @@ c :> Item("list"))
     @@ "lists" :> Arr(Item("list")) @@ "list" :> Arr(Item("pii"))]

\* The name a is marked inside b, and not at the root.
Nested ==
  [components |-> [Outer |-> Item("outer")],
   schemas |->
     Leaf @@ "outer" :> Obj(FALSE, a :> Item("open") @@ b :> Item("inner"))
     @@ "inner" :> Obj(FALSE, a :> Item("pii"))]

MCDocs == {"refs", "odd", "lists", "nested"}
MCApi == [refs |-> Refs, odd |-> Odd, lists |-> Lists, nested |-> Nested]

\* Hops: into a key, and on to the i-th item, and to its j-th.
K(n) == [key |-> n, items |-> <<>>]
I(n, i) == [key |-> n, items |-> <<i>>]
II(n, i, j) == [key |-> n, items |-> <<i, j>>]

\* The leaves of a payload for each document, and of a JSON array.
Shapes ==
  {{<<K(a)>>, <<K(b), K(a)>>, <<K(b), I(c, 1)>>, <<I(c, 1), I(c, 1)>>, <<I(c, 2)>>},
   {<<K(a_b)>>, <<K(a), K(b)>>, <<II(b, 1, 1)>>, <<K(c)>>},
   {<<I(NoKey, 1)>>, <<I(NoKey, 2)>>}}

\* All leaves are texts but one, which may look encrypted or be no string.
MCPayloads ==
  UNION {{[x \in S |-> Plain(IF x = y THEN v ELSE "text")] : y \in S, v \in Bases} : S \in Shapes}
=============================================================================
