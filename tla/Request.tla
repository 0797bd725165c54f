-------------------------------- MODULE Request --------------------------------
(***************************************************************************)
(* The request of the benchmark: parseUrl() and defaultRequest() as        *)
(* operators.  A URL is [http, rest]: whether it starts with "http://", and *)
(* the characters after that (or all of them).  Only ":", "/" and digits   *)
(* mean anything to the code.                                              *)
(***************************************************************************)
EXTENDS Naturals, SequencesExt

CONSTANTS
    PortModulus,    \* htons() keeps a port modulo this: 65536
    Characters      \* the characters of a URL

ASSUME RequestAssumption ==
    /\ PortModulus \in Nat \ {0}
    /\ "/" \in Characters

Digits == <<"0", "1", "2", "3", "4", "5", "6", "7", "8", "9">>
Digit == [c \in ToSet(Digits) |-> CHOOSE d \in 0 .. 9 : Digits[d + 1] = c]

DefaultPort == 80

\* find(): the first position of a character, or the one behind the end.
Find(text, c) ==
    LET found == { k \in DOMAIN text : text[k] = c }
    IN  IF found = {} THEN Len(text) + 1 ELSE Min(found)

Before(text, k) == SubSeq(text, 1, k - 1)
After(text, k) == SubSeq(text, k + 1, Len(text))
From(text, k) == SubSeq(text, k, Len(text))

\* The decimal number a sequence of digits stands for.
Numeral(digits) ==
    LET read[n \in 0 .. Len(digits)] ==
            IF n = 0 THEN 0 ELSE 10 * read[n - 1] + Digit[digits[n]]
    IN  read[Len(digits)]

\* atoi(): the number in front of the first character that is no digit.
Atoi(text) ==
    LET others == { k \in DOMAIN text : text[k] \notin DOMAIN Digit }
    IN  Numeral(IF others = {} THEN text ELSE Before(text, Min(others)))

\* Everything between "http://" and the path.
Authority(url) == Before(url.rest, Find(url.rest, "/"))

HostOf(url) == Before(Authority(url), Find(Authority(url), ":"))

\* Mutant: the "/" that ends the host is not kept in the path.
PathWithoutSlash(url) ==
    IF Contains(url.rest, "/") THEN After(url.rest, Find(url.rest, "/")) ELSE <<"/">>

PathOf(url) ==
    IF Contains(url.rest, "/") THEN From(url.rest, Find(url.rest, "/")) ELSE <<"/">>

\* port_ as int, before htons().
PortOf(url) ==
    IF Contains(Authority(url), ":")
    THEN Atoi(After(Authority(url), Find(Authority(url), ":")))
    ELSE DefaultPort

\* sin_port, in the order of the host.
SinPort(url) == PortOf(url) % PortModulus

\* getServerAddr(), with the host for the address it resolves to.
ServerAddr(url) == [host |-> HostOf(url), port |-> SinPort(url)]

\* defaultRequest(), in a build without assertions.
DefaultRequest(url, method, version) ==
    [method |-> method, path |-> PathOf(url), version |-> version,
     host |-> HostOf(url)]

-------------------------------------------------------------------------------
(* What a URL means.                                                       *)

\* host [":" digits] [path], where a path starts with "/".
IsHost(text) == \A k \in DOMAIN text : text[k] \notin {":", "/"}
IsPort(text) ==
    text # <<>> => /\ text[1] = ":" /\ Len(text) > 1
                   /\ \A k \in 2 .. Len(text) : text[k] \in DOMAIN Digit
IsPath(text) == text # <<>> => text[1] = "/"

PortMeant(text) == IF text = <<>> THEN DefaultPort ELSE Numeral(Tail(text))
PathMeant(text) == IF text = <<>> THEN <<"/">> ELSE text

\* INT_MAX: atoi() is undefined for larger numbers.
MaxInt == 2147483647

\* For every way to cut the URL into a host, a port and a path, the address and
\* the request are made of these parts; of a port out of range the address has
\* the low 16 bits, and nothing else of the URL is affected.
UnderstoodAs(url, addr, req) ==
    \A j \in 0 .. Len(url.rest) : \A k \in j .. Len(url.rest) :
        LET host == SubSeq(url.rest, 1, j)
            port == SubSeq(url.rest, j + 1, k)
            path == SubSeq(url.rest, k + 1, Len(url.rest))
        IN  IsHost(host) /\ IsPort(port) /\ IsPath(path)
              /\ PortMeant(port) <= MaxInt =>
                /\ addr = [host |-> host, port |-> PortMeant(port) % PortModulus]
                /\ req.host = host
                /\ req.path = PathMeant(path)
===============================================================================
