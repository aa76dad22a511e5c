---- MODULE XmlTree ----
(***************************************************************************)
(* What a tree of iksemel promises: nodes, each a tag with its attributes  *)
(* and its children in order, or a piece of text.  IksTree implements it   *)
(* with the pointers of ec/jabber/iks.c.  Nodes are numbered as they are   *)
(* made; a node that was taken out of its tree keeps its number.           *)
(***************************************************************************)
EXTENDS Naturals, Sequences, SequencesExt

VARIABLE tree               \* of each node, [type, word, atts, kids]: a tag and its name or
                            \* text, its attributes, each <<name, value>>, and its children

\* Below, t is the tree before a step and u the tree after it.

IsText(n) == n.type = "IKS_CDATA"

\* A new node: a tree of its own, or at any place among the children of x.
NewNode(t, u) ==
    LET z == Len(t) + 1
    IN  /\ Len(u) = z /\ u[z].atts = <<>> /\ u[z].kids = <<>>
        /\ \/ u = Append(t, u[z])
           \/ \E x \in DOMAIN t : \E i \in 1 .. Len(t[x].kids) + 1 :
                 u = Append([t EXCEPT ![x].kids = InsertAt(@, i, z)], u[z])

\* The text at the end of x grows.
MoreText(t, u) ==
    \E x \in DOMAIN t : t[x].kids # <<>> /\
        LET n == Last(t[x].kids)
        IN  /\ IsText(t[n])
            /\ u = [t EXCEPT ![n].word = u[n].word]
            /\ IsPrefix(t[n].word, u[n].word)

\* An attribute is set, at its place or at the end, or taken away.
SetAttribute(t, u) ==
    \E x \in DOMAIN t :
        LET old == t[x].atts
            new == u[x].atts
        IN  /\ u = [t EXCEPT ![x].atts = new]
            /\ \/ \E i \in DOMAIN old :
                     \/ Len(new) = Len(old) /\ new = [old EXCEPT ![i] = <<@[1], new[i][2]>>]
                     \/ new = RemoveAt(old, i)
               \/ /\ Len(new) = Len(old) + 1 /\ new = Append(old, Last(new))
                  /\ \A i \in DOMAIN old : old[i][1] # Last(new)[1]

\* A tree becomes the last child of a tag, or a child is taken out.
Graft(t, u) ==
    \E x, y \in DOMAIN t : u = [t EXCEPT ![x].kids = Append(@, y)]

RemoveChild(t, u) ==
    \E x \in DOMAIN t : \E i \in DOMAIN t[x].kids : u = [t EXCEPT ![x].kids = RemoveAt(@, i)]

---------------------------------------------------------------------------
(* How a tree is written.                                                  *)

Entity(c) ==
    CASE c = "&"  -> <<"&", "a", "m", "p", ";">>
      [] c = "'"  -> <<"&", "a", "p", "o", "s", ";">>
      [] c = "\"" -> <<"&", "q", "u", "o", "t", ";">>
      [] c = "<"  -> <<"&", "l", "t", ";">>
      [] c = ">"  -> <<"&", "g", "t", ";">>
      [] OTHER    -> <<c>>

Escaped(s) == FlattenSeq([i \in DOMAIN s |-> Entity(s[i])])

Attributes(a) == FlattenSeq([i \in DOMAIN a |->
    <<" ">> \o a[i][1] \o <<"=", "'">> \o Escaped(a[i][2]) \o <<"'">>])

RECURSIVE Written(_, _)
Written(t, x) ==
    LET n == t[x]
    IN  IF IsText(n) THEN Escaped(n.word)
        ELSE <<"<">> \o n.word \o Attributes(n.atts)
             \o (IF n.kids = <<>> THEN <<"/", ">">>
                 ELSE <<">">> \o FlattenSeq([i \in DOMAIN n.kids |-> Written(t, n.kids[i])])
                      \o <<"<", "/">> \o n.word \o <<">">>)

\* The copy is a new tree that reads the same, of nodes of its own.
Copy(t, u) ==
    LET r == Len(t) + 1
    IN  /\ r \in DOMAIN u
        /\ SubSeq(u, 1, Len(t)) = t
        /\ \A n \in r .. Len(u) : \A i \in DOMAIN u[n].kids : u[n].kids[i] > n
        /\ \E text \in {Written(u, r)} : \E x \in DOMAIN t : text = Written(t, x)

\* There are new nodes, or the old ones changed.
Step(t, u) ==
    \/ Len(u) > Len(t) /\ (NewNode(t, u) \/ Copy(t, u))
    \/ Len(u) = Len(t) /\ (MoreText(t, u) \/ SetAttribute(t, u) \/ Graft(t, u) \/ RemoveChild(t, u))

Init == tree = <<>>

\* A step or none, on a tree that TLC works out once before and once after.
Next == \E t \in {tree}, u \in {tree'} : u = t \/ Step(t, u)

Spec == Init /\ [][Next]_tree
====
