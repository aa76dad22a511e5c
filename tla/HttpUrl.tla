---- MODULE HttpUrl ----
(***************************************************************************)
(* http_parser_parse_url of ec/http/http_parser.c: what a URL is made of.  *)
(* A field is the string that off and len delimit, and "" is a field that  *)
(* is not set.                                                             *)
(***************************************************************************)
EXTENDS HttpChars, SequencesExt

Fields == {"SCHEMA", "HOST", "PORT", "PATH", "QUERY", "FRAGMENT", "USERINFO"}

http_parser_url_init == [f \in Fields |-> ""]

Refused == [f \in Fields |-> "refused"]

IS_HOST_CHAR == IS_ALPHA \union Digits \union {".", "-"}
ZoneChars    == IS_ALPHA \union Digits \union {"%", ".", "-", "_", "~"}

---------------------------------------------------------------------------
(* The host, with what may stand before and behind it.                     *)

http_parse_host_char(s, ch) ==
    CASE s \in {"userinfo", "userinfo_start"} /\ ch = "@"           -> "host_start"
      [] s \in {"userinfo", "userinfo_start"} /\ ch \in IS_USERINFO_CHAR -> "userinfo"
      [] s = "host_start" /\ ch = "["                                -> "v6_start"
      [] s \in {"host_start", "host"} /\ ch \in IS_HOST_CHAR         -> "host"
      [] s \in {"host", "v6_end"} /\ ch = ":"                        -> "port_start"
      [] s \in {"v6", "v6_zone"} /\ ch = "]"                         -> "v6_end"
      [] s \in {"v6", "v6_start"} /\ ch \in Hex \union {":", "."}    -> "v6"
      [] s = "v6" /\ ch = "%"                                        -> "v6_zone_start"
      [] s \in {"v6_zone", "v6_zone_start"} /\ ch \in ZoneChars      -> "v6_zone"
      [] s \in {"port", "port_start"} /\ ch \in Digits               -> "port"
      [] OTHER                                                       -> "dead"

\* The field a character of each state belongs to.
HostField ==
    [host |-> "HOST", v6 |-> "HOST", v6_zone_start |-> "HOST", v6_zone |-> "HOST",
     port |-> "PORT", userinfo |-> "USERINFO"]

http_parse_host(u, found_at) ==
    LET Walk(r, ch) ==
            LET s == http_parse_host_char(r.s, ch)
            IN  [s |-> s, u |-> IF s \in DOMAIN HostField
                                THEN [r.u EXCEPT ![HostField[s]] = @ \o ch] ELSE r.u]
        end == FoldLeft(Walk, [s |-> IF found_at THEN "userinfo_start" ELSE "host_start",
                               u |-> [u EXCEPT !["HOST"] = ""]], Chars(u["HOST"]))
    IN  IF end.s \in {"host", "v6_end", "port"} THEN end.u ELSE Refused

---------------------------------------------------------------------------
(* The whole.                                                              *)

FieldOf ==
    [s_req_schema |-> "SCHEMA", s_req_server_with_at |-> "HOST", s_req_server |-> "HOST",
     s_req_path |-> "PATH", s_req_query_string |-> "QUERY", s_req_fragment |-> "FRAGMENT"]

\* strtoul, up to the first number that is not a port.
PortOf(digits) ==
    FoldLeft(LAMBDA n, ch : IF n > 65535 THEN n ELSE n * 10 + Decimal(ch), 0, Chars(digits))

\* Delimiters belong to no field.
http_parser_parse_url(buf, is_connect) ==
    LET Walk(r, ch) ==
            LET s == parse_url_char(r.s, ch)
            IN  [s |-> s, at |-> r.at \/ s = "s_req_server_with_at",
                 u |-> IF s \in DOMAIN FieldOf
                       THEN [r.u EXCEPT ![FieldOf[s]] = @ \o ch] ELSE r.u]
        end  == FoldLeft(Walk, [s |-> IF is_connect THEN "s_req_server_start"
                                      ELSE "s_req_spaces_before_url",
                                at |-> FALSE, u |-> http_parser_url_init], Chars(buf))
        u    == IF end.u["HOST"] = "" THEN end.u ELSE http_parse_host(end.u, end.at)
    IN  IF \/ end.s = "s_dead"
           \/ u["SCHEMA"] # "" /\ end.u["HOST"] = ""
           \/ u = Refused
           \/ is_connect /\ {f \in Fields : u[f] # ""} # {"HOST", "PORT"}
           \/ PortOf(u["PORT"]) > 65535
        THEN Refused ELSE u
====
