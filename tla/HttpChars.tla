---- MODULE HttpChars ----
(***************************************************************************)
(* The characters of ec/http/http_parser.c, and its machine for URLs,      *)
(* which http_parser_execute and http_parser_parse_url share.  A character *)
(* is a string of length one.  The build is the strict one                 *)
(* (HTTP_PARSER_STRICT); the backquote and bytes above 127 are left out.   *)
(***************************************************************************)
EXTENDS Integers, Sequences

---------------------------------------------------------------------------
(* Characters.                                                             *)

Chars(s)     == [i \in 1 .. Len(s) |-> SubSeq(s, i, i)]
CharSet(s)   == {SubSeq(s, i, i) : i \in 1 .. Len(s)}
CharAt(s, i) == IF i < Len(s) THEN SubSeq(s, i + 1, i + 1) ELSE "NUL"

Small    == CharSet("abcdefghijklmnopqrstuvwxyz")
Capital  == CharSet("ABCDEFGHIJKLMNOPQRSTUVWXYZ")
Digits   == CharSet("0123456789")
IS_ALPHA == Small \union Capital
Marks    == CharSet("!\"#$%&'()*+,-./:;<=>?@[\\]^_{|}~")

\* c | 0x20, which also makes a bracket of a tab.
LOWER(ch) ==
    IF ch \in Capital
    THEN CHOOSE s \in Small : \E i \in 1 .. 26 :
            /\ s = CharAt("abcdefghijklmnopqrstuvwxyz", i - 1)
            /\ ch = CharAt("ABCDEFGHIJKLMNOPQRSTUVWXYZ", i - 1)
    ELSE IF ch = "\t" THEN ")" ELSE ch

\* The characters of names, and TOKEN, which makes them small.
tokens    == IS_ALPHA \union Digits \union CharSet("!#$%&'*+-.^_|~")
TOKEN(ch) == IF ch \in tokens THEN LOWER(ch) ELSE "NUL"

Number(digits, ch) == CHOOSE i \in 0 .. Len(digits) - 1 : CharAt(digits, i) = LOWER(ch)
Decimal(ch) == Number("0123456789", ch)
Hex         == Digits \union CharSet("abcdefABCDEF")
unhex(ch)   == Number("0123456789abcdef", ch)

IS_URL_CHAR      == (IS_ALPHA \union Digits \union Marks) \ {"#", "?"}
IS_USERINFO_CHAR == IS_ALPHA \union Digits \union CharSet("-_.!~*'()%;:&=+$,")
IS_HEADER_CHAR   == IS_ALPHA \union Digits \union Marks \union {"\r", "\n", "\t", " "}

---------------------------------------------------------------------------
(* URLs.                                                                   *)

parse_url_char(s, ch) ==
    CASE ch \in {" ", "\r", "\n", "\t", "\f"} -> "s_dead"
      [] s = "s_req_spaces_before_url" ->
            IF ch \in {"/", "*"} THEN "s_req_path"
            ELSE IF ch \in IS_ALPHA THEN "s_req_schema" ELSE "s_dead"
      [] s = "s_req_schema" ->
            IF ch \in IS_ALPHA THEN s
            ELSE IF ch = ":" THEN "s_req_schema_slash" ELSE "s_dead"
      [] s = "s_req_schema_slash" ->
            IF ch = "/" THEN "s_req_schema_slash_slash" ELSE "s_dead"
      [] s = "s_req_schema_slash_slash" ->
            IF ch = "/" THEN "s_req_server_start" ELSE "s_dead"
      [] s \in {"s_req_server_start", "s_req_server", "s_req_server_with_at"} ->
            IF ch = "/" THEN "s_req_path"
            ELSE IF ch = "?" THEN "s_req_query_string_start"
            ELSE IF ch = "@"
            THEN (IF s = "s_req_server_with_at" THEN "s_dead" ELSE "s_req_server_with_at")
            ELSE IF ch \in IS_USERINFO_CHAR \union {"[", "]"} THEN "s_req_server"
            ELSE "s_dead"
      [] s = "s_req_path" ->
            IF ch \in IS_URL_CHAR THEN s
            ELSE IF ch = "?" THEN "s_req_query_string_start"
            ELSE IF ch = "#" THEN "s_req_fragment_start" ELSE "s_dead"
      [] s \in {"s_req_query_string_start", "s_req_query_string"} ->
            IF ch \in IS_URL_CHAR \union {"?"} THEN "s_req_query_string"
            ELSE IF ch = "#" THEN "s_req_fragment_start" ELSE "s_dead"
      [] s = "s_req_fragment_start" ->
            IF ch \in IS_URL_CHAR \union {"?"} THEN "s_req_fragment"
            ELSE IF ch = "#" THEN s ELSE "s_dead"
      [] s = "s_req_fragment" ->
            IF ch \in IS_URL_CHAR \union {"?", "#"} THEN s ELSE "s_dead"
      [] OTHER -> "s_dead"

UrlStates == {"s_req_schema", "s_req_schema_slash", "s_req_schema_slash_slash",
    "s_req_server_start", "s_req_server", "s_req_server_with_at", "s_req_path",
    "s_req_query_string_start", "s_req_query_string", "s_req_fragment_start",
    "s_req_fragment"}
====
