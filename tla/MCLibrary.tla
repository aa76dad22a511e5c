---- MODULE MCLibrary ----
(***************************************************************************)
(* TLC instance of what the firmware is built on: the calendar             *)
(* (CalendarTime), the filter of packets (IksFilter), the trees (IksTree), *)
(* the hooks that build them (IksDom) and the object stack that holds them *)
(* (IksStack).  A behaviour walks one of them, the part, while the         *)
(* variables of the others rest.                                           *)
(***************************************************************************)
EXTENDS CalendarTime, IksFilter, IksStack

CONSTANTS MaxNodes, MaxTrees, MaxText

VARIABLES
    part,
    nodes, current, iksptr, result, pieces

---------------------------------------------------------------------------
(* Rules and packets that tell every test of the filter apart.             *)

Iq     == [NoRule EXCEPT !.type = "iq"]
IqAuth == [Iq EXCEPT !.subtype = "result", !.id = "auth"]
IqBind == [Iq EXCEPT !.subtype = "result", !.ns = "bind"]

Packet(subtype, id, ns) ==
    [type |-> "iq", subtype |-> subtype, id |-> id, ns |-> ns,
     from |-> "server", partial |-> "server"]

MCRules == {Iq, IqAuth, IqBind}

MCPackets == {Packet("result", "auth", None), Packet("result", "auth", "bind"),
              Packet("get", None, "ping"),
              [Packet("normal", "7", None) EXCEPT !.type = "message"]}

\* The filter only compares hooks.
Symmetric == Permutations(Hooks)

\* Names that alternate, and texts and values with every character that is
\* escaped.
MCNames   == [n \in 1 .. MaxNodes |-> IF n % 2 = 1 THEN <<"a">> ELSE <<"b", "c">>]
MCTexts   == {<<"x", "<", "&", ">">>}
MCAttribs == {<<<<"i">>, <<"'", "\"">>>>, <<<<"j">>, <<"y">>>>, <<<<"j">>, <<"<">>>>}

---------------------------------------------------------------------------

domRests == current = 0 /\ iksptr = 0 /\ result = 0 /\ pieces = 0

dom      == <<current, iksptr, result, pieces>>

Trees    == INSTANCE IksTree WITH heap <- nodes, Names <- MCNames, Texts <- MCTexts,
                                  Attribs <- MCAttribs, Attributed <- {1}
Dom      == INSTANCE IksDom WITH heap <- nodes, Names <- MCNames, Texts <- MCTexts,
                                 Attribs <- MCAttribs, Attributed <- {}

ASSUME Trees!TreeAssumption

\* The calendar, the filter and the stack rest where they start.
Init ==
    /\ CalInit /\ FilterInit /\ StackInit
    /\ \/ part \in {"calendar", "filter", "stack"} /\ nodes = <<>> /\ domRests
       \/ part = "tree" /\ Trees!TreeInit /\ domRests
       \/ part = "dom" /\ Dom!DomInit

Next ==
    \/ part = "calendar" /\ CalNext /\ UNCHANGED <<part, filterVars, nodes, dom, stackVars>>
    \/ part = "filter" /\ FilterNext /\ UNCHANGED <<part, calVars, nodes, dom, stackVars>>
    \/ part = "tree" /\ Trees!TreeNext /\ UNCHANGED <<part, calVars, filterVars, dom, stackVars>>
    \/ part = "dom" /\ Dom!DomNext /\ UNCHANGED <<part, calVars, filterVars, stackVars>>
    \/ part = "stack" /\ StackNext /\ UNCHANGED <<part, calVars, filterVars, nodes, dom>>

vars == <<part, calVars, filterVars, nodes, dom, stackVars>>

Spec == Init /\ [][Next]_vars

---------------------------------------------------------------------------
\* The properties of the parts, stated in their modules; RoundTrip, ListSound,
\* AskedByScore and BlocksKeepTheirBytes are those of the modules it extends.

TypeOK == /\ CalTypeOK /\ FilterTypeOK /\ StackTypeOK
          /\ part \in {"tree", "dom"} => Trees!TypeOK

TreesHoldTheDocument ==
    CASE part = "tree" -> Trees!TreesSound /\ Trees!StringFits /\ Trees!WalksSeeTheTags
      [] part = "dom"  -> Trees!TreesSound /\ Dom!HandsOverTheDocument
      [] OTHER -> TRUE

StepsAsTree == [][part = "tree" => Trees!TreeStep]_vars
====
