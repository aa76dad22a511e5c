---- MODULE MCSaxItems ----
(* What the server writes in the TLC instance of SaxParser: items that lead *)
(* through every context.                                                   *)
EXTENDS Sequences

XmlItem(kind, body, atts, space) ==
    [kind |-> kind, body |-> body, atts |-> atts, space |-> space]

Att(name, quote, value) == [name |-> name, quote |-> quote, value |-> value]

IdAtt == Att(<<"i", "d">>, "'", <<"x", "\"", ">">>)
ToAtt == Att(<<"t", "o">>, "\"", <<"lead", "cont", "/", "=">>)
NoAtt == Att(<<"n">>, "'", <<>>)

GoodItems ==
    {XmlItem("open", <<"a", "b">>, <<>>, FALSE), XmlItem("open", <<"a">>, <<>>, TRUE),
     XmlItem("open", <<"a">>, <<IdAtt>>, FALSE), XmlItem("open", <<"a">>, <<ToAtt, NoAtt>>, TRUE),
     XmlItem("single", <<"b">>, <<>>, FALSE), XmlItem("single", <<"b">>, <<>>, TRUE),
     XmlItem("single", <<"b">>, <<NoAtt, ToAtt>>, FALSE), XmlItem("single", <<"b">>, <<IdAtt>>, TRUE),
     XmlItem("close", <<"a">>, <<>>, FALSE), XmlItem("close", <<"a">>, <<>>, TRUE),
     XmlItem("text", <<"x", "&", "y">>, <<>>, FALSE),
     XmlItem("text", <<"<", "'", "lead", "cont">>, <<>>, FALSE),
     XmlItem("section", <<"x", "]", "y", "]", "]", "<", "]">>, <<>>, FALSE),
     XmlItem("comment", <<"x", "-", "y">>, <<>>, FALSE),
     XmlItem("pi", <<"x", "=">>, <<>>, FALSE),
     XmlItem("markup", <<"D", " ", "x">>, <<>>, FALSE), XmlItem("markup", <<>>, <<>>, FALSE)}

BadItem(body) == XmlItem("malformed", body, <<>>, FALSE)

BadItems ==
    {BadItem(<<"<", "/", "a", "/", ">">>), BadItem(<<"<", "a", "/", "b">>),
     BadItem(<<"<", "a", " ", "b", "=", "x">>), BadItem(<<"&", "u", "n", "k", ";">>),
     BadItem(<<"&", "u", "n", "k", "n", "o", "w", "n", "s", ";">>),
     BadItem(<<"<", "!", "-", "x">>), BadItem(<<"<", "!", "-", "-", "-", "-", "x">>),
     BadItem(<<"<", "!", "[", "x">>), BadItem(<<"cont">>), BadItem(<<"lead", "x">>)}

AllItems == GoodItems \union BadItems
====
