---- MODULE SaxParser ----
(***************************************************************************)
(* ec/jabber/sax.c: iksemel's parser, which reads the stream in whatever   *)
(* segments the network delivers and calls a hook for each tag and each    *)
(* piece of character data.  One action is one turn of the loop of         *)
(* sax_core, in one of its contexts; a call of iks_parse ends after any    *)
(* byte.                                                                   *)
(*                                                                         *)
(* The other side is external: a server that writes the items of a         *)
(* document, each in one of the ways XML allows.  What the hooks hear must *)
(* be what the server said, wherever the segments end.                     *)
(*                                                                         *)
(* A byte is a string: an ASCII character, "lead", the first byte of a     *)
(* character of two bytes, or "cont", the second one.  After IKS_BADXML    *)
(* the model stops.                                                        *)
(***************************************************************************)
EXTENDS Naturals, Sequences, SequencesExt, FiniteSetsExt

CONSTANTS
    Items,                  \* what the server may write
    EntityMax,              \* the length of prs->entity without its end
    MaxItems                \* bound: items in the document

SaxAssumption == EntityMax \in Nat \ {0} /\ MaxItems \in Nat

VARIABLES
    prs,                    \* struct iksparser_struct
    loc,                    \* the locals of sax_core: the bytes of the segment
                            \* read so far, old and stack_old (0 for -1)
    again,                  \* re: the byte is looked at once more
    bad,                    \* IKS_BADXML was returned
    input,                  \* bytes under way
    heard,                  \* history: what the hooks were called with
    said,                   \* history: what the server said
    items,                  \* items written so far
    malformed,              \* history: one of them was not XML
    split                   \* history: a segment ended inside a character of a word

env  == <<said, items, malformed>>
vars == <<prs, loc, again, bad, input, heard, env, split>>

End == "end"                \* the zero at the end of a string on the stack

Contexts == {"C_CDATA", "C_TAG_START", "C_TAG", "C_TAG_END", "C_ATTRIBUTE",
    "C_ATTRIBUTE_1", "C_ATTRIBUTE_2", "C_VALUE", "C_VALUE_APOS", "C_VALUE_QUOT",
    "C_WHITESPACE", "C_ENTITY", "C_COMMENT", "C_COMMENT_1", "C_COMMENT_2",
    "C_COMMENT_3", "C_MARKUP", "C_MARKUP_1", "C_SECT", "C_SECT_CDATA",
    "C_SECT_CDATA_1", "C_SECT_CDATA_2", "C_SECT_CDATA_3", "C_SECT_CDATA_4",
    "C_SECT_CDATA_C", "C_SECT_CDATA_E", "C_SECT_CDATA_E2", "C_PI"}

\* The contexts in which bytes belong to a word on the stack.
Words == {"C_TAG", "C_ATTRIBUTE_1", "C_VALUE_APOS", "C_VALUE_QUOT"}

---------------------------------------------------------------------------
(* What the server says, and how it is written.                            *)

Say(c) == [text |-> c]

\* The end of a piece of character data is not heard, so it is not said.
Text(s) == [i \in DOMAIN s |-> Say(s[i])]

EntityName(c) ==
    CASE c = "&" -> <<"a", "m", "p">>
      [] c = "<" -> <<"l", "t">>
      [] c = ">" -> <<"g", "t">>
      [] c = "'" -> <<"a", "p", "o", "s">>
      [] c = "\"" -> <<"q", "u", "o", "t">>

Escaped(s) ==
    FlattenSeq([i \in DOMAIN s |->
        IF s[i] \in {"&", "<", ">", "'", "\""} THEN <<"&">> \o EntityName(s[i]) \o <<";">>
        ELSE <<s[i]>>])

\* item.space: white space wherever it is optional.
Written(item) ==
    LET sp == IF item.space THEN <<" ">> ELSE <<>>
        att(a) == <<" ">> \o sp \o a.name \o sp \o <<"=">> \o sp
                      \o <<a.quote>> \o a.value \o <<a.quote>>
        atts == FlattenSeq([i \in DOMAIN item.atts |-> att(item.atts[i])])
    IN  CASE item.kind = "open"    -> <<"<">> \o item.body \o atts \o sp \o <<">">>
          [] item.kind = "single"  -> <<"<">> \o item.body \o atts \o sp \o <<"/", ">">>
          [] item.kind = "close"   -> <<"<", "/">> \o item.body \o sp \o <<">">>
          [] item.kind = "text"    -> Escaped(item.body)
          [] item.kind = "section" -> <<"<", "!", "[", "C", "D", "A", "T", "A", "[">>
                                          \o item.body \o <<"]", "]", ">">>
          [] item.kind = "comment" -> <<"<", "!", "-", "-">> \o item.body \o <<"-", "-", ">">>
          [] item.kind = "pi"      -> <<"<", "?">> \o item.body \o <<"?", ">">>
          [] item.kind = "markup"  -> <<"<", "!">> \o item.body \o <<">">>
          [] OTHER                 -> item.body

Meant(item) ==
    CASE item.kind \in {"open", "single", "close"} ->
            <<[tag |-> item.kind, name |-> item.body,
               atts |-> [i \in DOMAIN item.atts |-> <<item.atts[i].name, item.atts[i].value>>]]>>
      [] item.kind \in {"text", "section"} -> Text(item.body)
      [] OTHER -> <<>>

Write ==
    /\ input = <<>> /\ items < MaxItems /\ ~malformed /\ ~bad
    /\ items' = items + 1
    /\ \E item \in Items :
          /\ input' = Written(item)
          /\ said' = said \o Meant(item)
          /\ malformed' = (item.kind = "malformed")
    /\ UNCHANGED <<prs, loc, again, bad, heard, split>>

---------------------------------------------------------------------------
(* The parser.                                                             *)

\* iks_sax_extend.
Init ==
    /\ prs = [context |-> "C_CDATA", oldcontext |-> "C_CDATA", tagtype |-> "open",
              uni |-> 0, entity |-> <<>>, stack |-> <<>>, tag_name |-> 0,
              att |-> 0, atts |-> <<>>]
    /\ loc = [buf |-> <<>>, old |-> 1, stack_old |-> 0]
    /\ again = FALSE /\ bad = FALSE
    /\ input = <<>> /\ heard = <<>> /\ said = <<>>
    /\ items = 0 /\ malformed = FALSE /\ split = FALSE

c   == Head(input)
pos == Len(loc.buf) + 1

\* What an action does with the byte: take it, look at it again, or give up.
Take(p, l, h) ==
    /\ prs' = p
    /\ loc' = [l EXCEPT !.buf = Append(@, c)]
    /\ heard' = heard \o h
    /\ input' = Tail(input) /\ again' = FALSE
    /\ UNCHANGED <<bad, env, split>>

Again(p) ==
    /\ prs' = p /\ again' = TRUE
    /\ UNCHANGED <<loc, bad, input, heard, env, split>>

Refuse ==
    /\ bad' = TRUE
    /\ UNCHANGED <<prs, loc, again, input, heard, env, split>>

In(context)  == [prs EXCEPT !.context = context]
Go(context)  == Take(In(context), loc, <<>>)
Stay         == Take(prs, loc, <<>>)

\* The character data from old on.
Pending == SubSeq(loc.buf, loc.old, Len(loc.buf))

Restart(l) == [l EXCEPT !.old = pos + 1]    \* old = pos + 1

\* STACK_PUSH of the word since stack_old, and of its end.
Pushed == IF loc.stack_old = 0 THEN prs.stack
          ELSE prs.stack \o SubSeq(loc.buf, loc.stack_old, Len(loc.buf))
PushEnd(p)  == [p EXCEPT !.stack = Append(Pushed, End)]
NoWord      == [loc EXCEPT !.stack_old = 0]
WordGoesOn  == IF loc.stack_old = 0 THEN [loc EXCEPT !.stack_old = pos] ELSE loc

\* The string on the stack that begins at i.
Str(i) ==
    SubSeq(prs.stack, i, Min({k \in i .. Len(prs.stack) : prs.stack[k] = End}) - 1)

At(context) ==
    /\ ~bad /\ input # <<>>
    /\ prs.uni = 0 /\ c \notin {"lead", "cont"}
    /\ prs.context = context

\* Slip: a segment that ends in a word leaves it where it is.
iks_parse_ends_NoPush ==
    /\ ~bad /\ ~again /\ loc.buf # <<>>
    /\ UNCHANGED prs
    /\ heard' = IF prs.context \in {"C_CDATA", "C_SECT_CDATA_C"} THEN heard \o Text(Pending)
                ELSE heard
    /\ loc' = [buf |-> <<>>, old |-> 1, stack_old |-> 0]
    /\ split' = (split \/ (prs.uni # 0 /\ prs.context \in Words))
    /\ UNCHANGED <<again, bad, input, env>>

\* Slip: the next segment's word is taken to begin where the last one's did.
iks_parse_ends_StaleWord ==
    /\ ~bad /\ ~again /\ loc.buf # <<>>
    /\ prs' = [prs EXCEPT !.stack = Pushed]
    /\ heard' = IF prs.context \in {"C_CDATA", "C_SECT_CDATA_C"} THEN heard \o Text(Pending)
                ELSE heard
    /\ loc' = [loc EXCEPT !.buf = <<>>, !.old = 1]
    /\ split' = (split \/ (prs.uni # 0 /\ prs.context \in Words))
    /\ UNCHANGED <<again, bad, input, env>>

\* The end of sax_core, and the beginning of the next call.
iks_parse_ends ==
    /\ ~bad /\ ~again /\ loc.buf # <<>>
    /\ prs' = [prs EXCEPT !.stack = Pushed]
    /\ heard' = IF prs.context \in {"C_CDATA", "C_SECT_CDATA_C"} THEN heard \o Text(Pending)
                ELSE heard
    /\ loc' = [buf |-> <<>>, old |-> 1, stack_old |-> 0]
    /\ split' = (split \/ (prs.uni # 0 /\ prs.context \in Words))
    /\ UNCHANGED <<again, bad, input, env>>

\* Characters of two bytes: no context looks at them.
Utf8 ==
    /\ ~bad /\ input # <<>>
    /\ \/ prs.uni = 1 /\ c = "cont" /\ Take([prs EXCEPT !.uni = 0], loc, <<>>)
       \/ /\ prs.uni = 0 /\ c = "lead"
          /\ Take([prs EXCEPT !.uni = 1],
                  IF prs.context \in Words THEN WordGoesOn ELSE loc, <<>>)
       \/ (prs.uni = 1) # (c = "cont") /\ Refuse

C_CDATA ==
    /\ At("C_CDATA")
    /\ \/ /\ c = "&"
          /\ Take([prs EXCEPT !.context = "C_ENTITY", !.entity = <<>>], loc, Text(Pending))
       \/ /\ c = "<"
          /\ Take([prs EXCEPT !.context = "C_TAG_START", !.tag_name = Len(prs.stack) + 1],
                  loc, Text(Pending))
       \/ c \notin {"&", "<"} /\ Stay

C_TAG_START ==
    /\ At("C_TAG_START")
    /\ \/ c = "/" /\ Take([prs EXCEPT !.context = "C_TAG", !.tagtype = "close"], loc, <<>>)
       \/ c = "?" /\ Go("C_PI")
       \/ c = "!" /\ Go("C_MARKUP")
       \/ /\ c \notin {"/", "?", "!"}
          /\ Take([prs EXCEPT !.context = "C_TAG", !.tagtype = "open"],
                  [loc EXCEPT !.stack_old = pos], <<>>)

C_TAG ==
    /\ At("C_TAG")
    /\ \/ /\ c = " "
          /\ Take(PushEnd([prs EXCEPT !.context = "C_WHITESPACE",
                      !.oldcontext = IF prs.tagtype = "close" THEN "C_TAG_END"
                                     ELSE "C_ATTRIBUTE"]), NoWord, <<>>)
       \/ c = "/" /\ prs.tagtype = "close" /\ Refuse
       \/ /\ c = "/" /\ prs.tagtype # "close"
          /\ Take(PushEnd([prs EXCEPT !.context = "C_TAG_END", !.tagtype = "single"]),
                  NoWord, <<>>)
       \/ /\ c = ">"
          /\ prs' = PushEnd(In("C_TAG_END")) /\ loc' = NoWord /\ again' = TRUE
          /\ UNCHANGED <<bad, input, heard, env, split>>
       \/ c \notin {" ", "/", ">"} /\ Take(prs, WordGoesOn, <<>>)

C_TAG_END ==
    /\ At("C_TAG_END")
    /\ \/ c # ">" /\ Refuse
       \/ /\ c = ">"
          /\ Take([prs EXCEPT !.context = "C_CDATA", !.stack = <<>>, !.atts = <<>>],
                  Restart(NoWord),
                  <<[tag |-> prs.tagtype, name |-> Str(prs.tag_name),
                     atts |-> [i \in DOMAIN prs.atts |->
                                 <<Str(prs.atts[i][1]), Str(prs.atts[i][2])>>]]>>)

C_ATTRIBUTE ==
    /\ At("C_ATTRIBUTE")
    /\ \/ c = "/" /\ Take([prs EXCEPT !.context = "C_TAG_END", !.tagtype = "single"], loc, <<>>)
       \/ c = ">" /\ Again(In("C_TAG_END"))
       \/ /\ c \notin {"/", ">"}
          /\ Take([prs EXCEPT !.context = "C_ATTRIBUTE_1", !.att = Len(prs.stack) + 1],
                  [loc EXCEPT !.stack_old = pos], <<>>)

C_ATTRIBUTE_1 ==
    /\ At("C_ATTRIBUTE_1")
    /\ \/ c = "=" /\ Take(PushEnd(In("C_VALUE")), NoWord, <<>>)
       \/ /\ c = " "
          /\ Take(PushEnd([prs EXCEPT !.context = "C_WHITESPACE",
                                      !.oldcontext = "C_ATTRIBUTE_1"]), NoWord, <<>>)
       \/ c \notin {"=", " "} /\ Take(prs, WordGoesOn, <<>>)

\* The list of attributes is closed with NULL.
C_ATTRIBUTE_2 ==
    /\ At("C_ATTRIBUTE_2")
    /\ \/ c = "/" /\ Take([prs EXCEPT !.context = "C_TAG_END", !.tagtype = "single"], loc, <<>>)
       \/ c = ">" /\ Again(In("C_TAG_END"))
       \/ c \notin {"/", ">"} /\ Again(In("C_ATTRIBUTE"))

\* The address of the value is stored in any case, at the next attribute.
C_VALUE ==
    /\ At("C_VALUE")
    /\ LET p(context) == [prs EXCEPT !.context = context,
                             !.atts = Append(@, <<prs.att, Len(prs.stack) + 1>>)]
       IN  \/ c = " " /\ Stay
           \/ c = "'" /\ Take(p("C_VALUE_APOS"), loc, <<>>)
           \/ c = "\"" /\ Take(p("C_VALUE_QUOT"), loc, <<>>)
           \/ c \notin {" ", "'", "\""} /\ Refuse

\* C_VALUE_APOS and C_VALUE_QUOT.  The closing quote itself begins a word that
\* nobody reads.
Value(context, quote) ==
    /\ At(context)
    /\ \/ /\ c = quote
          /\ Take(PushEnd([prs EXCEPT !.context = "C_WHITESPACE",
                                      !.oldcontext = "C_ATTRIBUTE_2"]),
                  [loc EXCEPT !.stack_old = pos], <<>>)
       \/ c # quote /\ Take(prs, WordGoesOn, <<>>)

C_WHITESPACE ==
    /\ At("C_WHITESPACE")
    /\ \/ c = " " /\ Stay
       \/ c # " " /\ Again(In(prs.oldcontext))

\* The character of an entity; one that is not known is a question mark.
Entity(name) ==
    LET known == {x \in {"&", "<", ">", "'", "\""} : EntityName(x) = name}
    IN  IF known = {} THEN "?" ELSE CHOOSE x \in known : TRUE

C_ENTITY ==
    /\ At("C_ENTITY")
    /\ \/ c = ";" /\ Take(In("C_CDATA"), Restart(loc), <<Say(Entity(prs.entity))>>)
       \/ /\ c # ";" /\ Len(prs.entity) < EntityMax
          /\ Take([prs EXCEPT !.entity = Append(@, c)], loc, <<>>)
       \/ c # ";" /\ Len(prs.entity) >= EntityMax /\ Refuse

\* The four contexts of a comment.
Comment ==
    \/ At("C_COMMENT") /\ IF c = "-" THEN Go("C_COMMENT_1") ELSE Refuse
    \/ At("C_COMMENT_1") /\ IF c = "-" THEN Go("C_COMMENT_2") ELSE Stay
    \/ At("C_COMMENT_2") /\ Go(IF c = "-" THEN "C_COMMENT_3" ELSE "C_COMMENT_1")
    \/ /\ At("C_COMMENT_3")
       /\ IF c = ">" THEN Take(In("C_CDATA"), Restart(loc), <<>>) ELSE Refuse

\* C_MARKUP falls through to C_MARKUP_1.
Markup ==
    \/ At("C_MARKUP") /\ c = "[" /\ Go("C_SECT")
    \/ At("C_MARKUP") /\ c = "-" /\ Go("C_COMMENT")
    \/ /\ At("C_MARKUP_1") \/ (At("C_MARKUP") /\ c \notin {"[", "-"})
       /\ IF c = ">" THEN Take(In("C_CDATA"), Restart(loc), <<>>) ELSE Go("C_MARKUP_1")

\* "[CDATA[", letter by letter.
SectionStart ==
    \E s \in {<<"C_SECT", "C", "C_SECT_CDATA">>, <<"C_SECT_CDATA", "D", "C_SECT_CDATA_1">>,
              <<"C_SECT_CDATA_1", "A", "C_SECT_CDATA_2">>,
              <<"C_SECT_CDATA_2", "T", "C_SECT_CDATA_3">>,
              <<"C_SECT_CDATA_3", "A", "C_SECT_CDATA_4">>,
              <<"C_SECT_CDATA_4", "[", "C_SECT_CDATA_C">>} :
        /\ At(s[1])
        /\ IF c = s[2] THEN Take(In(s[3]), Restart(loc), <<>>) ELSE Refuse

\* The inside of a section, and brackets that may end it.
Section ==
    \/ /\ At("C_SECT_CDATA_C")
       /\ IF c = "]" THEN Take(In("C_SECT_CDATA_E"), loc, Text(Pending)) ELSE Stay
    \/ /\ At("C_SECT_CDATA_E")
       /\ IF c = "]" THEN Go("C_SECT_CDATA_E2")
          ELSE Take(In("C_SECT_CDATA_C"), [loc EXCEPT !.old = pos], <<Say("]")>>)
    \/ /\ At("C_SECT_CDATA_E2")
       /\ \/ c = ">" /\ Take(In("C_CDATA"), Restart(loc), <<>>)
          \/ c = "]" /\ Take(prs, [loc EXCEPT !.old = pos], <<Say("]")>>)
          \/ /\ c \notin {">", "]"}
             /\ Take(In("C_SECT_CDATA_C"), [loc EXCEPT !.old = pos], <<Say("]"), Say("]")>>)

C_PI ==
    /\ At("C_PI")
    /\ Take(IF c = ">" THEN In("C_CDATA") ELSE prs, Restart(loc), <<>>)

Next ==
    \/ Write \/ iks_parse_ends \/ Utf8
    \/ C_CDATA \/ C_TAG_START \/ C_TAG \/ C_TAG_END
    \/ C_ATTRIBUTE \/ C_ATTRIBUTE_1 \/ C_ATTRIBUTE_2
    \/ C_VALUE \/ Value("C_VALUE_APOS", "'") \/ Value("C_VALUE_QUOT", "\"")
    \/ C_WHITESPACE \/ C_ENTITY \/ Comment \/ Markup \/ SectionStart \/ Section \/ C_PI

Spec == Init /\ [][Next]_vars

---------------------------------------------------------------------------
(* Properties.                                                             *)

\* The ranges of the variables: old and stack_old point into the segment, or
\* just behind it, and the pointers of the tag into the stack.
TypeOK ==
    /\ prs.context \in Contexts /\ prs.oldcontext \in Contexts
    /\ prs.tagtype \in {"open", "close", "single"} /\ prs.uni \in 0 .. 1
    /\ Len(prs.entity) <= EntityMax
    /\ loc.old \in 1 .. Len(loc.buf) + 1 /\ loc.stack_old \in 0 .. Len(loc.buf)
    /\ prs.context \in Words \union {"C_VALUE", "C_TAG_END"} =>
          prs.tag_name \in 1 .. Len(prs.stack) + 1
    /\ \A i \in DOMAIN prs.atts : \A k \in 1 .. 2 : prs.atts[i][k] \in 1 .. Len(prs.stack) + 1
    /\ again \in BOOLEAN /\ bad \in BOOLEAN /\ split \in BOOLEAN
    /\ items \in 0 .. MaxItems /\ malformed \in BOOLEAN

\* What the hooks hear, with what the next end of a segment delivers, is what
\* the server said, in whatever segments it came: words and data that were cut
\* are put together again, none is lost and none is heard twice.  It need not
\* be when a segment ends inside a character of a word: the rest of that
\* character is dropped.
HearsTheDocument ==
    (input = <<>> /\ ~malformed /\ ~split) =>
        heard \o (IF prs.context = "C_CDATA" THEN Text(Pending) ELSE <<>>) = said

\* A segment that ends wherever it likes never makes a document malformed.
AcceptsTheDocument == bad => malformed
====
