---- MODULE MCHttpMessages ----
(* What is written in the TLC instances of HttpParser, HttpClient and       *)
(* HttpServer: messages that lead through every state.                      *)
EXTENDS Integers, Sequences, TLC

Request ==
    [kind |-> "REQUEST", before |-> "", start |-> "GET", target |-> "/a", reason |-> "",
     major |-> 1, minor |-> 1, eol |-> "\r\n", headers |-> <<>>, tokens |-> {},
     body |-> "none", text |-> <<>>, chunk |-> "", trailer |-> <<>>]

Response ==
    [Request EXCEPT !.kind = "RESPONSE", !.start = "200", !.target = " OK", !.reason = "OK"]

Connection(m, meaning, value) ==
    [m EXCEPT !.headers = @ \o <<<<"Connection", value, " " \o value>>>>,
              !.tokens = @ \union meaning]

WithBody(m, kind, text) == [m EXCEPT !.body = kind, !.text = text]
Raw(kind, text) == [Request EXCEPT !.kind = kind, !.body = "malformed", !.target = text]

Methods == {"DELETE", "GET", "HEAD", "POST", "PUT", "OPTIONS", "TRACE", "COPY", "LOCK",
    "MKCOL", "MOVE", "PROPFIND", "PROPPATCH", "SEARCH", "UNLOCK", "BIND", "REBIND",
    "UNBIND", "ACL", "REPORT", "MKACTIVITY", "CHECKOUT", "MERGE", "M-SEARCH", "NOTIFY",
    "SUBSCRIBE", "UNSUBSCRIBE", "PATCH", "PURGE", "MKCALENDAR", "LINK", "UNLINK"}

EachMethod == {[Request EXCEPT !.start = m] : m \in Methods}
    \union {[Request EXCEPT !.start = "CONNECT", !.target = "h:80"]}

EachUrl == {[Request EXCEPT !.target = u] :
    u \in {"http://u@h:8/p?q#f", "a://h?q", "*", "/?#", "/p??x#?#", "x://[1]@h/"}}

X(value, written) == <<"x-a", value, written>>

WithHeaders ==
    {[Request EXCEPT !.headers = <<X("v", "v"), X("", "")>>],
     [Request EXCEPT !.headers = <<X("v w ", "\tv w "), X("", "")>>, !.eol = "\n"],
     [Response EXCEPT !.headers = <<X("a b", " a\r\n b"), X("c", "\r\n c")>>, !.start = "204"],
     [Response EXCEPT !.headers = <<<<"conn", "1", "1">>, <<"cox", "2", "2">>,
        <<"cx", "2", "2">>, <<"connections", "close", "close">>,
        <<"content-lengt", "9", "9">>, <<"proxy", "close", "close">>, <<"transfer-encoding", "gzip", "gzip">>,
        <<"transfer-encoding", "chunked, x", "chunked, x">>>>,
        !.text = <<>>, !.body = "length"]}

Kept ==
    {Connection([Request EXCEPT !.minor = 0], {"keep-alive"}, "Keep-Alive"),
     Connection(Request, {"close"}, "close"),
     Connection(Request, {"close"}, "te , Close"),
     Connection(Request, {"close"}, "keep-alive,closer,close ,x"),
     Connection([Response EXCEPT !.start = "204"], {}, "closed, kept"),
     Connection([Response EXCEPT !.start = "304", !.headers = <<<<"proxy-connection",
        "close", "close">>>>, !.tokens = {"close"}], {}, "upgrade"),
     [Request EXCEPT !.major = 0, !.minor = 9], [Request EXCEPT !.minor = 0]}

Upgrade(m) ==
    [Connection(m, {"upgrade"}, "Upgrade") EXCEPT
        !.headers = @ \o <<<<"Upgrade", "to", " to">>>>, !.tokens = @ \union {"to"}]

Bodies ==
    {WithBody(Response, "length", <<"twelve bytes">>), WithBody(Request, "length", <<"b">>),
     WithBody(Response, "length", <<>>), WithBody(Response, "toEnd", <<"b\r\nc">>),
     WithBody([Response EXCEPT !.target = "", !.reason = ""], "toEnd", <<>>),
     WithBody(Response, "chunked", <<"ab", "17 bytes in one..">>),
     [WithBody(Request, "chunked", <<"\r\n">>) EXCEPT
        !.chunk = ";x=y", !.trailer = <<X("t", " t")>>],
     [WithBody(Response, "chunked", <<>>) EXCEPT !.chunk = " "],
     Upgrade(Request), Upgrade(WithBody(Request, "length", <<"b">>)),
     [Response EXCEPT !.before = "\r\n", !.start = "100", !.target = "", !.reason = "",
                      !.eol = "\n"],
     [Request EXCEPT !.before = "\r\n", !.major = 12, !.minor = 34]}

Whole == EachMethod \union EachUrl \union WithHeaders \union Kept \union Bodies

Get(text) == Raw("REQUEST", "GET / HTTP/1.1\r\n" \o text)
Ok(text)  == Raw("RESPONSE", "HTTP/1.1 200 OK\r\n" \o text)

BadMessages ==
    {Raw("REQUEST", "X"), Raw("REQUEST", "GET \r\n"), Raw("REQUEST", "GEt"), Raw("REQUEST", "POX"), Raw("REQUEST", "GET ^"),
     Raw("REQUEST", "HX"), Raw("REQUEST", "GET  \f"), Raw("REQUEST", "GET a: "),
     Raw("REQUEST", "GET a:/ "), Raw("REQUEST", "GET a:// "), Raw("REQUEST", "GET a://x@@"),
     Raw("REQUEST", "GET a://\""), Raw("REQUEST", "GET /?\f"), Raw("REQUEST", "GET /#\f"),
     Raw("REQUEST", "GET /#a\f"), Raw("REQUEST", "GET / X"), Raw("REQUEST", "GET / HTTP/0"),
     Raw("REQUEST", "GET / HTTP/x"), Raw("REQUEST", "GET / HTTP/1000"),
     Raw("REQUEST", "GET / HTTP/1.x"), Raw("REQUEST", "GET / HTTP/1.1 "),
     Raw("REQUEST", "GET / HTTP/1.1000"), Raw("REQUEST", "GET / HTTP/1.1\rx"),
     Raw("RESPONSE", "X"), Raw("RESPONSE", "HTX"), Raw("RESPONSE", "HTTP/1.1x"),
     Raw("RESPONSE", "HTTP/1.1 x"), Raw("RESPONSE", "HTTP/1.1 2x"),
     Raw("RESPONSE", "HTTP/1.1 1000"), Raw("RESPONSE", "HTTP/1.1 200 \rx"),
     Get(":"), Get("a b:"), Get("a:b\rx"), Get("a:\rx"), Get("a:b\f"), Get("\rx"),
     Get("transfer-encoding:chunked\f"), Get("connection: x\f"),
     Get("content-length:x"), Get("content-length:1x"), Get("content-length:9999"),
     Get("content-length:1024\r\n\r\n"), Ok("content-length:1\r\nContent-Length:1"),
     Ok("content-length:1\r\n 2"),
     Ok("content-length:1\r\ntransfer-encoding:chunked\r\n\r\n"),
     Ok("transfer-encoding:chunked\r\n\r\nx"), Ok("transfer-encoding:chunked\r\n\r\n1x"),
     Ok("transfer-encoding:chunked\r\n\r\n400\r"), Ok("transfer-encoding:chunked\r\n\r\n0\rx"),
     Ok("transfer-encoding:chunked\r\n\r\n1\r\nax"),
     Ok("transfer-encoding:chunked\r\n\r\n1\r\na\rx")}

Unchecked == {[Ok("a: b\f\r\n\r\n") EXCEPT !.body = "unchecked"]}

\* What the device asks for, and what the server at the other end must read:
\* the parts of a URL, and the message that is meant.
Parts(schema, host, port, path) ==
    [f \in {"SCHEMA", "HOST", "PORT", "PATH", "QUERY", "FRAGMENT", "USERINFO"} |->
        CASE f = "SCHEMA" -> schema [] f = "HOST" -> host [] f = "PORT" -> port
          [] f = "PATH" -> path [] OTHER -> ""]

Asked(url, parts, type, body) ==
    LET host == parts["HOST"] \o IF parts["PORT"] = "" THEN "" ELSE ":" \o parts["PORT"]
    IN  [kind |-> "request", url |-> url, parts |-> parts, type |-> type, body |-> body,
         means |-> [Request EXCEPT
            !.start = IF type = 0 THEN "GET" ELSE "POST",
            !.target = parts["PATH"],
            !.headers = <<<<"Host", host, " " \o host>>>>
                \o (IF body = "" THEN <<>>
                    ELSE <<<<"Content-Length", ToString(Len(body)), " " \o ToString(Len(body))>>>>)
                \o <<<<"Connection", "Closed", " Closed">>>>,
            !.text = IF body = "" THEN <<>> ELSE <<body>>]]

NoRequest == [kind |-> "none"]

NoUrl(url) ==
    [kind |-> "request", url |-> url, parts |-> [f \in DOMAIN Parts("", "", "", "") |-> "refused"],
     type |-> 0, body |-> "", means |-> NoRequest]

Site == Parts("http", "a.cn", "", "/reg")

AllAsked ==
    {Asked("http://a.cn/reg", Site, 0, "a=1&b=2"), Asked("http://a.cn/reg", Site, 1, ""),
     Asked("http://a.cn:8080/", Parts("http", "a.cn", "8080", "/"), 0, "eyJ9"),
     Asked("https://u:p@1.2.3.4:65535/x?q=a@b#f",
           [Parts("https", "1.2.3.4", "65535", "/x") EXCEPT
                !["USERINFO"] = "u:p", !["QUERY"] = "q=a@b", !["FRAGMENT"] = "f"], 0, "b"),
     Asked("a://[1::f%25e0]:9/??#f",
           [Parts("a", "1::f%25e0", "9", "/") EXCEPT !["QUERY"] = "?", !["FRAGMENT"] = "f"], 1, "b"),
     Asked("a://[::1]/", Parts("a", "::1", "", "/"), 0, ""),
     Asked("a://xy/", Parts("a", "xy", "", "/"), 0, ""),
     Asked("/only", Parts("", "", "", "/only"), 0, "")}

Pathless ==
    {[Asked("http://a.cn", Parts("http", "a.cn", "", ""), 0, "") EXCEPT !.means = NoRequest]}

NoUrls ==
    {NoUrl(url) : url \in {"http:/a.cn/", "http:///x", "http://a:99999/", "http://a:65536/",
        "http://u@/", "http://a@b@c/", "http://a@@b/", "http://a:/", "http://:80/",
        "http://[1/", "http://[g]/", "http://[1%]/", "http://[]/", "http://a b/", "a.cn/x",
        "http://a_b/", "http://a:8x/", "http://u:@"}}

RequestsOfDevice == AllAsked \union Pathless \union NoUrls

MCResponses ==
    {m \in Bodies : m.kind = "RESPONSE" /\ m.before = ""} \union
    {WithBody(Response, "length", <<"{\"a\":1}">>), [Response EXCEPT !.start = "204"]}

\* What the configuration server is asked.
Ask(text) == [Request EXCEPT !.start = "POST", !.body = "length", !.text = <<text>>]

MCAsked == {Ask("eyJ9"), Ask(""), [Request EXCEPT !.headers = <<X("v", "v")>>],
            WithBody(Request, "chunked", <<"ab">>), Upgrade(Request),
            Raw("REQUEST", "GET / HTP"), Raw("REQUEST", "POST / HTTP/1.1\r\nContent-Length: 2x")}

MCMessages  == Whole \union BadMessages \union Unchecked \union {r.means : r \in AllAsked}
MCFollowers == {Request, [Response EXCEPT !.start = "204"], WithBody(Response, "length", <<"b">>),
                WithBody(Request, "chunked", <<"b">>), Connection(Request, {"close"}, "close")}
====
