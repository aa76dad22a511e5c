---- MODULE IksTree ----
(***************************************************************************)
(* ec/jabber/iks.c: the trees of iksemel.  A node is a struct on the       *)
(* object stack of its tree and is never freed alone, so the heap is a     *)
(* sequence of nodes; 0 is NULL.  Attributes are nodes of their own, in a  *)
(* list of their tag.  One thread works on the trees: an action is a call. *)
(*                                                                         *)
(* The callers are external and keep to what the functions expect: tags    *)
(* where a tag is read, neighbours only of a node that is in a tree, and   *)
(* grafts only of a tree that was never part of another.  An allocation    *)
(* does not fail.                                                          *)
(***************************************************************************)
EXTENDS Integers, Sequences, SequencesExt, FiniteSetsExt, TLC

CONSTANTS
    Names,                  \* of tags, sequences of characters, by the number of the node
    Texts,                  \* not empty, sequences of characters
    Attribs,                \* attributes, each <<name, value>>
    Attributed,             \* bound: the nodes that may get them
    MaxNodes,               \* bound: nodes made, without a last copy
    MaxTrees,               \* bound: trees at a time, without a last copy
    MaxText                 \* bound: length of a text that still grows

TreeAssumption == MaxNodes \in Nat /\ MaxText \in Nat /\ MaxTrees \in Nat
                  /\ Len(Names) = MaxNodes

VARIABLE heap

Null == 0

Types == {"IKS_TAG", "IKS_ATTRIBUTE", "IKS_CDATA"}

\* The three structs in one: name is the name of a tag or of an attribute,
\* cdata the text of a piece of text or the value of an attribute.
Blank == [type |-> "IKS_TAG", next |-> Null, prev |-> Null, parent |-> Null,
          children |-> Null, last_child |-> Null,
          attribs |-> Null, last_attrib |-> Null, name |-> <<>>, cdata |-> <<>>]

---------------------------------------------------------------------------
(* Making and unmaking; h is a heap, and the result the heap afterwards.   *)

iks_new_within(h, name) == Append(h, [Blank EXCEPT !.name = name])

New(h) == Len(h) + 1

\* A new node that holds a text.
NewText(h, data) == Append(h, [Blank EXCEPT !.type = "IKS_CDATA", !.cdata = data])

WithText(h, y, data) ==
    [n \in DOMAIN h |-> IF n = y THEN [h[n] EXCEPT !.cdata = data] ELSE h[n]]

\* y becomes the last of the list of x that begins at the field first.
AtEnd(h, x, first, last, y) ==
    LET l == h[x][last]
    IN  [n \in DOMAIN h |->
           IF n = x THEN [h[n] EXCEPT ![first] = IF @ = Null THEN y ELSE @, ![last] = y]
           ELSE IF n = l THEN [h[n] EXCEPT !.next = y]
           ELSE IF n = y THEN [h[n] EXCEPT !.parent = x, !.prev = IF l = Null THEN @ ELSE l]
           ELSE h[n]]

iks_insert_node(h, x, y) == AtEnd(h, x, "children", "last_child", y)

iks_insert(h, x, name) ==
    AtEnd(iks_new_within(h, name), x, "children", "last_child", New(h))

iks_insert_cdata(h, x, data) ==
    LET y == h[x].last_child
    IN  IF y # Null /\ h[y].type = "IKS_CDATA"
        THEN WithText(h, y, h[y].cdata \o data)
        ELSE AtEnd(NewText(h, data), x, "children", "last_child", New(h))

\* The list from the node y on, along the field next or prev.
RECURSIVE From(_, _, _)
From(h, y, way) == IF y = Null THEN <<>> ELSE <<y>> \o From(h, h[y][way], way)

\* The first node of a list, or NULL.
FirstOf(list) == IF list = <<>> THEN Null ELSE Head(list)

AttribOf(h, x, name) == 
    FirstOf(SelectSeq(From(h, h[x].attribs, "next"), LAMBDA y : h[y].name = name))

\* Slip: a node that leaves its list at the end leaves last behind.
TakenOut_KeepsLast(h, x, first, last, y) ==
    LET e == h[y]
    IN  [n \in DOMAIN h |->
           IF n = x THEN [h[n] EXCEPT ![first] = IF @ = y THEN e.next ELSE @]
           ELSE IF n = e.prev THEN [h[n] EXCEPT !.next = e.next]
           ELSE IF n = e.next THEN [h[n] EXCEPT !.prev = e.prev]
           ELSE h[n]]

\* y leaves the list of x that begins at first; its own pointers stay.
TakenOut(h, x, first, last, y) ==
    LET e == h[y]
    IN  [n \in DOMAIN h |->
           IF n = x THEN [h[n] EXCEPT ![first] = IF @ = y THEN e.next ELSE @,
                                      ![last] = IF @ = y THEN e.prev ELSE @]
           ELSE IF n = e.prev THEN [h[n] EXCEPT !.next = e.next]
           ELSE IF n = e.next THEN [h[n] EXCEPT !.prev = e.prev]
           ELSE h[n]]

iks_insert_attrib(h, x, name, value) ==
    LET y == AttribOf(h, x, name)
        a == [Blank EXCEPT !.type = "IKS_ATTRIBUTE", !.name = name, !.cdata = value]
    IN  IF y # Null THEN WithText(h, y, value)
        ELSE AtEnd(Append(h, a), x, "attribs", "last_attrib", New(h))

\* iks_insert_attrib with a value of NULL.
NoAttrib(h, x, name) ==
    LET y == AttribOf(h, x, name)
    IN  IF y = Null THEN h ELSE TakenOut(h, x, "attribs", "last_attrib", y)

\* The last node of h comes next to x: towards the field ahead, whose end is
\* the field end of their parent.
Beside(h, x, ahead, back, end) ==
    LET z == h[x][ahead]
        y == Len(h)
    IN  [n \in DOMAIN h |->
           IF n = z THEN [h[n] EXCEPT ![back] = y]
           ELSE IF n = x THEN [h[n] EXCEPT ![ahead] = y]
           ELSE IF n = y THEN [h[n] EXCEPT !.parent = h[x].parent, ![ahead] = z, ![back] = x]
           ELSE IF n = h[x].parent /\ z = Null THEN [h[n] EXCEPT ![end] = y]
           ELSE h[n]]

After(h, x)  == Beside(h, x, "next", "prev", "last_child")
Before(h, x) == Beside(h, x, "prev", "next", "children")

iks_append(h, x, name)        == After(iks_new_within(h, name), x)
iks_prepend(h, x, name)       == Before(iks_new_within(h, name), x)
iks_append_cdata(h, x, data)  == After(NewText(h, data), x)
iks_prepend_cdata(h, x, data) == Before(NewText(h, data), x)

iks_hide(h, x) == TakenOut(h, h[x].parent, "children", "last_child", x)

---------------------------------------------------------------------------
(* Walking and finding.                                                    *)

IsTag(h, x) == h[x].type = "IKS_TAG"

Children(h, x) == From(h, h[x].children, "next")

\* iks_next_tag and iks_prev_tag, way is next or prev.
TagAlong(h, x, way) == FirstOf(SelectSeq(From(h, h[x][way], way), LAMBDA y : IsTag(h, y)))

iks_next_tag(h, x) == TagAlong(h, x, "next")
iks_prev_tag(h, x) == TagAlong(h, x, "prev")

iks_first_tag(h, x) == FirstOf(SelectSeq(Children(h, x), LAMBDA y : IsTag(h, y)))

RECURSIVE iks_root(_, _)
iks_root(h, x) == IF h[x].parent = Null THEN x ELSE iks_root(h, h[x].parent)

iks_find(h, x, name) ==
    FirstOf(SelectSeq(Children(h, x), LAMBDA y : IsTag(h, y) /\ h[y].name = name))

\* NULL is the empty text, which no node holds.
iks_find_cdata(h, x, name) ==
    LET y == iks_find(h, x, name)
        t == IF y = Null THEN Null ELSE h[y].children
    IN  IF t = Null \/ IsTag(h, t) THEN <<>> ELSE h[t].cdata

\* An absent attribute and an empty one are told apart by the sequence around it.
iks_find_attrib(h, x, name) ==
    LET y == AttribOf(h, x, name) IN IF y = Null THEN <<>> ELSE <<h[y].cdata>>

\* Without a tagname any tag will do.
iks_find_with_attrib(h, x, tagnames, attrname, value) ==
    FirstOf(SelectSeq(Children(h, x), LAMBDA y :
        IsTag(h, y) /\ h[y].name \in tagnames /\ iks_find_attrib(h, y, attrname) = <<value>>))

---------------------------------------------------------------------------
(* Writing: iks_string walks the tree twice, once to count and once to     *)
(* write; neither walk looks at the result of the other.                   *)

entity == ("&" :> <<"&", "a", "m", "p", ";">>) @@ ("'" :> <<"&", "a", "p", "o", "s", ";">>)
          @@ ("\"" :> <<"&", "q", "u", "o", "t", ";">>)
          @@ ("<" :> <<"&", "l", "t", ";">>) @@ (">" :> <<"&", "g", "t", ";">>)

SumOf(sizes) == FoldLeft(LAMBDA n, size : n + size, 0, sizes)

\* Slip: a quotation mark is counted as one of the shorter entities.
escape_size_Quote(s) ==
    LET size(c) == CASE c \in {"&", "\""} -> 5 [] c = "'" -> 6 [] c \in {"<", ">"} -> 4
                     [] OTHER -> 1
    IN  SumOf([i \in DOMAIN s |-> size(s[i])])

escape_size(s) ==
    LET size(c) == CASE c = "&" -> 5 [] c \in {"'", "\""} -> 6 [] c \in {"<", ">"} -> 4
                     [] OTHER -> 1
    IN  SumOf([i \in DOMAIN s |-> size(s[i])])

escape(s) ==
    FlattenSeq([i \in DOMAIN s |->
        IF s[i] \in DOMAIN entity THEN entity[s[i]] ELSE <<s[i]>>])

\* The size of the allocation without its last byte; dir is 1 on the way up.
RECURSIVE Sized(_, _, _, _, _)
Sized(h, y, level, dir, size) ==
    LET z     == h[y].next
        name  == Len(h[y].name)
        down  == IsTag(h, y) /\ h[y].children # Null
        heads == From(h, h[y].attribs, "next")
        head  == SumOf([i \in DOMAIN heads |->
                        4 + Len(h[heads[i]].name) + escape_size(h[heads[i]].cdata)])
        now   == size + (IF dir = 1 THEN 0
                         ELSE IF ~IsTag(h, y) THEN escape_size(h[y].cdata)
                         ELSE 1 + name + head + (IF down THEN 1 ELSE 2))
        up    == h[y].parent
    IN  IF dir = 0 /\ down THEN Sized(h, h[y].children, level + 1, 0, now)
        ELSE IF z # Null
        THEN IF level = 0 THEN now + (IF down THEN 3 + name ELSE 0)
             ELSE Sized(h, z, level, 0, now)
        ELSE IF level = 0 THEN now
        ELSE IF level = 1 THEN now + 3 + Len(h[up].name)
        ELSE Sized(h, up, level - 1, 1, now + 3 + Len(h[up].name))

Closing(h, x) == <<"<", "/">> \o h[x].name \o <<">">>

RECURSIVE Printed(_, _, _, _, _)
Printed(h, x, level, dir, t) ==
    LET z    == h[x].next
        down == IsTag(h, x) /\ h[x].children # Null
        list == From(h, h[x].attribs, "next")
        head == FlattenSeq([i \in DOMAIN list |->
                    <<" ">> \o h[list[i]].name \o <<"=", "'">> \o escape(h[list[i]].cdata)
                    \o <<"'">>])
        now  == t \o (IF dir = 1 THEN <<>>
                      ELSE IF ~IsTag(h, x) THEN escape(h[x].cdata)
                      ELSE <<"<">> \o h[x].name \o head
                           \o (IF down THEN <<">">> ELSE <<"/", ">">>))
        up   == h[x].parent
    IN  IF dir = 0 /\ down THEN Printed(h, h[x].children, level + 1, 0, now)
        ELSE IF z # Null
        THEN IF level = 0 THEN now \o (IF down THEN Closing(h, x) ELSE <<>>)
             ELSE Printed(h, z, level, 0, now)
        ELSE IF level = 0 THEN now
        ELSE IF level = 1 THEN now \o Closing(h, up)
        ELSE Printed(h, up, level - 1, 1, now \o Closing(h, up))

\* The string and the bytes allocated for it.
iks_string(h, x) ==
    IF ~IsTag(h, x) THEN [ret |-> h[x].cdata, size |-> Len(h[x].cdata)]
    ELSE [ret |-> Printed(h, x, 0, 0, <<>>), size |-> Sized(h, x, 0, 0, 0)]

---------------------------------------------------------------------------
(* Copying.                                                                *)

\* Slip: after a tag without children the copy goes on inside it.
CopiedTag_StaysInside(h, g, cur, x) ==
    LET new == IF cur = Null THEN iks_new_within(g, h[x].name) ELSE iks_insert(g, cur, h[x].name)
        all == FoldLeft(LAMBDA k, a : iks_insert_attrib(k, New(g), h[a].name, h[a].cdata),
                        new, From(h, h[x].attribs, "next"))
    IN  [heap |-> all, cur |-> New(g)]

\* The tag x of h is copied into g, under cur unless it is the first one; cur is
\* the place to go on at, the copy itself only if x has children.
CopiedTag(h, g, cur, x) ==
    LET new == IF cur = Null THEN iks_new_within(g, h[x].name) ELSE iks_insert(g, cur, h[x].name)
        all == FoldLeft(LAMBDA k, a : iks_insert_attrib(k, New(g), h[a].name, h[a].cdata),
                        new, From(h, h[x].attribs, "next"))
    IN  [heap |-> all, cur |-> IF h[x].children # Null THEN New(g) ELSE all[New(g)].parent]

RECURSIVE Copied(_, _, _, _, _, _)
Copied(h, g, cur, x, level, dir) ==
    LET tag == IsTag(h, x)
        c   == IF dir = 1 THEN [heap |-> g, cur |-> cur]
               ELSE IF tag THEN CopiedTag(h, g, cur, x)
               ELSE [heap |-> iks_insert_cdata(g, cur, h[x].cdata), cur |-> cur]
    IN  IF dir = 0 /\ tag /\ h[x].children # Null
        THEN Copied(h, c.heap, c.cur, h[x].children, level + 1, 0)
        ELSE IF h[x].next # Null
        THEN IF level = 0 THEN c.heap ELSE Copied(h, c.heap, c.cur, h[x].next, level, 0)
        ELSE IF level < 2 THEN c.heap
        ELSE Copied(h, c.heap, c.heap[c.cur].parent, h[x].parent, level - 1, 1)

\* The first tag that is copied becomes the new tree.
iks_copy_within(h, x) == Copied(h, h, Null, x, 0, 0)

---------------------------------------------------------------------------
(* The callers.                                                            *)

Tags  == {x \in DOMAIN heap : IsTag(heap, x)}
Roots == {x \in Tags : heap[x].parent = Null}

RECURSIVE Below(_)
Below(xs) == IF xs = {} THEN {}
             ELSE xs \union Below(UNION {ToSet(Children(heap, x)) : x \in xs \intersect Tags})

\* The nodes of the trees; a hidden one no longer belongs to them.
Linked == Below(Roots)

Becomes(h) == Len(h) <= MaxNodes /\ heap' = h

TreeInit == heap = <<>>

NewName == Names[New(heap)]

NewTree ==
    /\ Len(heap) < MaxNodes /\ Cardinality(Roots) < MaxTrees
    /\ Becomes(iks_new_within(heap, NewName))

Insert == \E x \in Linked \intersect Tags :
    \/ Len(heap) < MaxNodes /\ Becomes(iks_insert(heap, x, NewName))
    \/ \E t \in Texts :
          /\ \A y \in {heap[x].last_child} \ {Null} : Len(heap[y].cdata) < MaxText
          /\ Becomes(iks_insert_cdata(heap, x, t))

Attribute == \E x \in Linked \intersect Tags \intersect Attributed, a \in Attribs :
    Becomes(iks_insert_attrib(heap, x, a[1], a[2])) \/ Becomes(NoAttrib(heap, x, a[1]))

Neighbour == \E x \in Linked \ Roots :
    \/ /\ Len(heap) < MaxNodes
       /\ Becomes(iks_append(heap, x, NewName)) \/ Becomes(iks_prepend(heap, x, NewName))
    \/ \E t \in Texts : Becomes(iks_append_cdata(heap, x, t)) \/ Becomes(iks_prepend_cdata(heap, x, t))

Graft == \E y \in Roots : \E x \in (Linked \intersect Tags) \ Below({y}) :
    Becomes(iks_insert_node(heap, x, y))

Hide == \E x \in Linked \ Roots : Becomes(iks_hide(heap, x))

\* The copy comes on top of MaxNodes, and ends the behaviour if it exceeds them.
Copy == \E x \in Linked \intersect Tags :
    Len(heap) <= MaxNodes /\ heap' = iks_copy_within(heap, x)

TreeNext ==
    NewTree \/ Insert \/ Attribute \/ Neighbour \/ Graft \/ Hide \/ Copy

TreeSpec == TreeInit /\ [][TreeNext]_heap

---------------------------------------------------------------------------
(* Properties.                                                             *)

\* The ranges of the fields.
TypeOK ==
    /\ Len(heap) <= 2 * MaxNodes
    /\ \A n \in DOMAIN heap :
          /\ heap[n].type \in Types
          /\ \A f \in {"next", "prev", "parent", "children", "last_child", "attribs", "last_attrib"} :
                heap[n][f] \in Null .. Len(heap) /\ heap[n][f] # n

\* The list of x that begins at first is the same from both ends, and its nodes
\* know x.
ListSound(x, first, last) ==
    LET list == From(heap, heap[x][first], "next")
    IN  /\ list = Reverse(From(heap, heap[x][last], "prev"))
        /\ \A i \in DOMAIN list : heap[list[i]].parent = x

\* Insertions at either end and in between, removals, grafts and copies leave
\* every list of every tree whole in both directions, with no attribute twice
\* (iks_insert_attrib), whatever was hidden before.
TreesSound ==
    /\ \A x \in Linked \intersect Tags :
          /\ ListSound(x, "children", "last_child")
          /\ ListSound(x, "attribs", "last_attrib")
          /\ \A i, j \in ToSet(From(heap, heap[x].attribs, "next")) :
                heap[i].name = heap[j].name => i = j
    /\ \A x \in Roots : heap[x].next = Null /\ heap[x].prev = Null

\* The document the heap stands for: the nodes but the attributes, in the
\* order they were made.
Docs == SelectSeq([n \in DOMAIN heap |-> n], LAMBDA n : heap[n].type # "IKS_ATTRIBUTE")

Number(n) == Cardinality({m \in 1 .. n : heap[m].type # "IKS_ATTRIBUTE"})

AttributesOf(n) ==
    LET list == From(heap, heap[n].attribs, "next")
    IN  [i \in DOMAIN list |-> <<heap[list[i]].name, heap[list[i]].cdata>>]

KidsOf(n) ==
    LET list == IF IsTag(heap, n) THEN Children(heap, n) ELSE <<>>
    IN  [i \in DOMAIN list |-> Number(list[i])]

NodeOf(n) == [type |-> heap[n].type, word |-> heap[n].name \o heap[n].cdata,
              atts |-> AttributesOf(n), kids |-> KidsOf(n)]

\* A sequence as it is written, not a function that TLC works out at each use.
Document == LET docs == Docs IN <<>> \o [i \in DOMAIN docs |-> NodeOf(docs[i])]

Tree == INSTANCE XmlTree WITH tree <- Document

\* Each call does to the document one thing: a node comes at one place, or
\* goes, an attribute or a text changes, or a copy appears that reads the same.
TreeStep == Tree!Next

StepsAsTree == [][TreeStep]_heap

\* iks_string writes the document, of the whole tree or of a part with
\* neighbours, into exactly the bytes that its first walk counted.
StringFits ==
    \A t \in {Document} : \A x \in Linked \intersect Tags :
        LET s == iks_string(heap, x)
        IN  /\ s.ret = Tree!Written(t, Number(x))
            /\ Len(s.ret) = s.size

\* The walks and searches see the tags among the children, in their order from
\* either side, and stop at the first that fits.
WalksSeeTheTags ==
    \A x \in Linked \intersect Tags :
        LET kids == SelectSeq(Children(heap, x), LAMBDA y : IsTag(heap, y))
            at(i) == IF i \in DOMAIN kids THEN kids[i] ELSE Null
        IN  /\ iks_first_tag(heap, x) = at(1)
            /\ \A i \in DOMAIN kids :
                  /\ iks_next_tag(heap, kids[i]) = at(i + 1)
                  /\ iks_prev_tag(heap, kids[i]) = at(i - 1)
                  /\ iks_root(heap, kids[i]) \in Roots
                  /\ iks_find(heap, x, heap[kids[i]].name) \in {kids[j] : j \in 1 .. i}
                  /\ \A a \in Attribs : iks_find_attrib(heap, kids[i], a[1]) = <<a[2]>> =>
                        iks_find_with_attrib(heap, x, ToSet(Names), a[1], a[2])
                            \in {kids[j] : j \in 1 .. i}
====
