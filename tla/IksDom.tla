---- MODULE IksDom ----
(***************************************************************************)
(* ec/jabber/dom.c: the hooks that build a tree of what the parser         *)
(* reports.  The parser is external here (SaxParser is its model): it      *)
(* reports tags that need not match, and pieces of text between them.      *)
(* After IKS_BADXML it reports nothing more.                               *)
(***************************************************************************)
EXTENDS IksTree

VARIABLES
    current,                \* data->current, the tag that is open
    iksptr,                 \* the root that was handed over
    result,                 \* what the last hook returned
    pieces                  \* history: what was reported of the last root, each tag
                            \* in the form with which iks_string would write it

domVars == <<heap, current, iksptr, result, pieces>>

\* iks_dom_new.
DomInit ==
    /\ heap = <<>> /\ current = Null /\ iksptr = Null /\ result = "IKS_OK" /\ pieces = <<>>

Tag(name, a, end) ==
    <<"<">> \o name
        \o (IF a = <<>> THEN <<>> ELSE <<" ">> \o a[1] \o <<"=", "'">> \o escape(a[2]) \o <<"'">>)
        \o end

ClosingTag(name) == <<"<", "/">> \o name \o <<">">>

\* Slip: a second tag becomes a root of its own.
Opened_Root(name, a) ==
    LET x == New(heap)
        h == iks_new_within(heap, name)
    IN  IF a = <<>> THEN h ELSE iks_insert_attrib(h, x, a[1], a[2])

\* The new tag, under the current one or as a root; a is an attribute or none.
Opened(name, a) ==
    LET x == New(heap)
        h == IF current = Null THEN iks_new_within(heap, name) ELSE iks_insert(heap, current, name)
    IN  IF a = <<>> THEN h ELSE iks_insert_attrib(h, x, a[1], a[2])

\* The tag x is closed: its parent is the current one again, or it is the root.
Closed(h, x) ==
    /\ result' = "IKS_OK"
    /\ current' = h[x].parent
    /\ iksptr' = IF h[x].parent = Null THEN x ELSE iksptr

tagHookOpen(name, a) ==
    /\ heap' = Opened(name, a)
    /\ current' = New(heap) /\ result' = "IKS_OK"
    /\ pieces' = Append(IF current = Null THEN <<>> ELSE pieces, Tag(name, a, <<">">>))
    /\ UNCHANGED iksptr

tagHookSingle(name, a) ==
    /\ heap' = Opened(name, a)
    /\ Closed(heap', New(heap))
    /\ pieces' = Append(IF current = Null THEN <<>> ELSE pieces, Tag(name, a, <<"/", ">">>))

\* A tag that is closed without anything in it is written as a single one.
WithClosing(name) ==
    LET l == Last(pieces)
    IN  IF l[1] = "<" /\ l[2] # "/" /\ l[Len(l) - 1] # "/" /\ heap[current].children = Null
        THEN [pieces EXCEPT ![Len(pieces)] = Front(l) \o <<"/", ">">>]
        ELSE Append(pieces, ClosingTag(name))

tagHookClose(name) ==
    IF current # Null /\ heap[current].name = name
    THEN Closed(heap, current) /\ pieces' = WithClosing(name) /\ UNCHANGED heap
    ELSE result' = "IKS_BADXML" /\ UNCHANGED <<heap, current, iksptr, pieces>>

cdataHook(data) ==
    /\ heap' = IF current = Null THEN heap ELSE iks_insert_cdata(heap, current, data)
    /\ pieces' = IF current = Null THEN pieces ELSE Append(pieces, escape(data))
    /\ result' = "IKS_OK"
    /\ UNCHANGED <<current, iksptr>>

\* The stack of the tree that is being built is deleted; here it stays in the
\* heap, where nothing points to it any more.
deleteHook ==
    /\ current' = Null /\ pieces' = <<>>
    /\ UNCHANGED <<heap, iksptr, result>>

Report ==
    /\ result = "IKS_OK"
    /\ \/ \E n \in ToSet(Names), a \in {<<>>} \union Attribs :
             Len(heap) + 1 + Len(SelectSeq(<<a>>, LAMBDA b : b # <<>>)) <= MaxNodes
                 /\ (tagHookOpen(n, a) \/ tagHookSingle(n, a))
       \/ \E n \in ToSet(Names) : tagHookClose(n)
       \/ \E t \in Texts :
             /\ Len(heap) < MaxNodes
             /\ \A y \in {current} \ {Null} : \A l \in {heap[y].last_child} \ {Null} :
                    Len(heap[l].cdata) < MaxText
             /\ cdataHook(t)

DomNext == Report \/ deleteHook

DomSpec == DomInit /\ [][DomNext]_domVars

---------------------------------------------------------------------------
(* Properties.                                                             *)

\* The root that tagHook hands over is the document that was reported: every
\* tag inside the one that was open, with its attributes and all of its text,
\* however the parser cut it.
HandsOverTheDocument ==
    iksptr # Null /\ current = Null /\ pieces # <<>> /\ result = "IKS_OK" =>
        iks_string(heap, iksptr).ret = FlattenSeq(pieces)
====
