--------------------------------- MODULE Main ----------------------------------
(***************************************************************************)
(* main(): the command line (CommandLine), the request it asks for         *)
(* (Request), and the benchmark whose result is reported (Http).  What the *)
(* benchmark does in between is the subject of module Client.              *)
(*                                                                         *)
(* main() does not look at what parse() returns: it goes on with the       *)
(* options set so far.  An exception of parse() or get() ends the program. *)
(***************************************************************************)
EXTENDS CommandLine, Request, Http

VARIABLES
    mainPc,     \* where main() is
    request,    \* request_, or NoValue before it is made
    serverAddr  \* serverAddr_, or NoValue

vars == <<parserVars, httpVars, mainPc, request, serverAddr>>

\* Values as module Request takes them, requests and addresses.
Urls == [http : BOOLEAN, rest : Seq(Characters)]
Requests == [method : Arguments, path : Seq(Characters), version : Arguments,
             host : Seq(Characters)]
Addresses == [host : Seq(Characters), port : 0 .. PortModulus - 1]

ASSUME MainAssumption ==
    /\ {"url", "method", "version"} \subseteq Options
    /\ Default["url"] = NoValue
    /\ Default["method"] # NoValue /\ Default["version"] # NoValue
    /\ Arguments \subseteq Urls
    /\ NoValue \notin Requests \cup Addresses

TypeOK ==
    /\ ParserTypeOK
    /\ HttpTypeOK
    /\ mainPc \in {"parse", "getOptions", "benchmark", "returned",
                   "terminated", "aborted"}
    /\ request \in Requests \cup {NoValue}
    /\ serverAddr \in Addresses \cup {NoValue}
    /\ mainPc \in {"benchmark", "returned"} <=> request # NoValue
    /\ request = NoValue <=> serverAddr = NoValue
    /\ stage # "loop" => request # NoValue
    /\ mainPc = "returned" <=> stage = "shown"

Init ==
    /\ ParserInit
    /\ HttpInit
    /\ mainPc = "parse"
    /\ request = NoValue
    /\ serverAddr = NoValue

Parse ==
    /\ mainPc = "parse"
    /\ ParserNext
    /\ mainPc' = CASE outcome' = "parsing" -> "parse"
                   [] outcome' = "thrown" -> "terminated"
                   [] OTHER -> "getOptions"
    /\ UNCHANGED <<httpVars, request, serverAddr>>

\* get("url") throws: the url has no default.
UrlMissing ==
    /\ mainPc = "getOptions"
    /\ Get("url") = NoValue
    /\ mainPc' = "terminated"
    /\ UNCHANGED <<parserVars, httpVars, request, serverAddr>>

\* The abort() calls of parseUrl(): the url is not http, or its host is not
\* found, as the empty one never is.
RequestAborts ==
    /\ mainPc = "getOptions"
    /\ Get("url") # NoValue
    /\ mainPc' = "aborted"
    /\ UNCHANGED <<parserVars, httpVars, request, serverAddr>>

\* The request is built, and Http::start() runs.
StartBenchmark ==
    /\ mainPc = "getOptions"
    /\ Get("url") # NoValue
    /\ Get("url").http
    /\ HostOf(Get("url")) # <<>>
    /\ mainPc' = "benchmark"
    /\ request' = DefaultRequest(Get("url"), Get("method"), Get("version"))
    /\ serverAddr' = ServerAddr(Get("url"))
    /\ UNCHANGED <<parserVars, httpVars>>

Benchmark ==
    /\ mainPc = "benchmark"
    /\ HttpNext
    /\ mainPc' = IF stage' = "shown" THEN "returned" ELSE "benchmark"
    /\ UNCHANGED <<parserVars, request, serverAddr>>

Next ==
    \/ Parse
    \/ UrlMissing
    \/ RequestAborts
    \/ StartBenchmark
    \/ Benchmark

Spec == Init /\ [][Next]_vars

-------------------------------------------------------------------------------
\* The program asks the server of the URL for the path of the URL: whatever
\* part of a legal URL is left out, and whatever other options are given, the
\* host, the port and the path end up where they belong, the port with its low
\* 16 bits, so that 65616 becomes 80 (Request::parseUrl(),
\* Request::getServerAddr(), Request::defaultRequest()).
UrlPartsRight ==
    request # NoValue => UnderstoodAs(Get("url"), serverAddr, request)
===============================================================================
