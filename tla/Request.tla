------------------------------ MODULE Request ------------------------------
(***************************************************************************)
(* One connection of a proxy thread, from accept to Close: parser_request  *)
(* of proxy/proxy.c with the buffered reader of os/csapp.c, the matching   *)
(* of proxy.c and util/match.c, serve_static, and serve_dynamic with the   *)
(* balancing of proxy/lb.c.  The threads share the counters request_count  *)
(* of the proxies, which they increment without a lock.                    *)
(*                                                                         *)
(* A client sends bytes: "c" is any text within a line and "n" the end of  *)
(* a line, so that <<"n">> is the empty line that ends the headers.        *)
(*                                                                         *)
(* The location_map of a server is declared to hold, for each kind of      *)
(* match, its locations (config_proxy.h).  parse_location puts the array   *)
(* list of ALL locations there instead, and match_location reads that as   *)
(* if it were the declared structure.  Both maps are modelled.             *)
(***************************************************************************)
EXTENDS Integers, Sequences

CONSTANTS Threads,     \* the proxy threads
          Locations,   \* the locations of the server, in the order written
          Uris,        \* the addresses clients ask for
          BufSize,     \* RIO_BUFSIZE, the buffer of a reader
          MaxLine,     \* MAXLINE: a line read holds one byte less
          IntMax,      \* INT_MAX
          MaxConns,    \* bound: connections accepted
          MaxBytes     \* bound: bytes the clients send, altogether

MatchTypes == {"EXACT", "PREFIX", "REGEX", "NONE"}
Strategies == {"ROUND_ROBIN", "WEIGHTED_ROUND_ROBIN", "IP_HASH", "unset"}

\* A location of the configuration: a static one, or a proxy with a strategy
\* and a number of upstream servers (none, if strategy followed server).
\* The pattern is a word: sscanf stores at least one character.
Location == [matchType : MatchTypes, pattern : Seq(STRING) \ {<<>>},
             isStatic : BOOLEAN, strategy : Strategies, servers : Nat]

ASSUME RequestAssumption == /\ Locations \in Seq(Location)
                            /\ Uris \subseteq Seq(STRING)
                            /\ BufSize \in Nat \ {0}
                            /\ MaxLine \in Nat \ {0, 1}
                            /\ IntMax \in Nat

Bytes == {"c", "n"}
LocationIds == DOMAIN Locations
NoTarget == 0

VARIABLES map,       \* what location_map holds
          proc,      \* whether the worker process lives
          conns,     \* connections accepted so far
          client,    \* where each client is in its request
          sent,      \* how many bytes they have sent, altogether
          sock,      \* the bytes the kernel holds for the thread
          rio, line, \* rio_buf from rio_bufptr on, and the line being read
          pc,        \* where each thread is
          uri, kind, \* the address asked for, the kind of match being tried
          found,     \* the result of match_proxy
          sdi,       \* the target in the frame of parser_request
          answer,    \* what was written to the client
          count,     \* request_count of each location's proxy
          reg,       \* a thread's copy of it, then the index of the server
          calls,     \* auxiliary: calls of round_robin on each proxy
          overlap    \* auxiliary: the proxies on which two calls overlapped

vars == <<map, proc, conns, client, sent, sock, rio, line, pc, uri, kind,
          found, sdi, answer, count, reg, calls, overlap>>
clientVars  == <<conns, client, sent>>
readVars    == <<sock, rio, line>>
matchVars   == <<uri, kind, found, sdi>>
balanceVars == <<count, reg, calls, overlap>>

\* "LMS" is the declared structure, which mock_config builds; "lists" is what
\* parse_location builds; "aligned" the same when the array of the list happens
\* to lie at a multiple of 64 KiB, so that its address reads as a locationSize
\* of 0.
Maps == {"LMS", "lists", "aligned"}

\* The ints.
Ints == -IntMax - 1 .. IntMax

\* parse_strategy clears request_count, parse_proxy leaves it as malloc
\* returned it.
StartCounts == {c \in [LocationIds -> Ints] :
                  \A l \in LocationIds : Locations[l].strategy # "unset" => c[l] = 0}

Init == /\ map \in Maps /\ proc = "up" /\ conns = 0
        /\ client = [t \in Threads |-> "gone"]
        /\ sent = 0
        /\ sock = [t \in Threads |-> <<>>]
        /\ rio = [t \in Threads |-> <<>>]
        /\ line = [t \in Threads |-> <<>>]
        /\ pc = [t \in Threads |-> "accept"]
        /\ uri = [t \in Threads |-> <<>>]
        /\ kind = [t \in Threads |-> "EXACT"]
        /\ found = [t \in Threads |-> FALSE]
        /\ sdi = [t \in Threads |-> NoTarget]
        /\ answer = [t \in Threads |-> <<>>]
        /\ count \in StartCounts
        /\ reg = [t \in Threads |-> 0]
        /\ calls = [l \in LocationIds |-> 0]
        /\ overlap = {}

Goto(t, l) == pc' = [pc EXCEPT ![t] = l]

\* The process ends at the place where the thread is.
Crash == proc' = "crash" /\ UNCHANGED pc

\* parser_request returns.
Return(t) == Goto(t, "close")

-----------------------------------------------------------------------------
(* The clients.  Their bytes arrive while the thread reads: it would not   *)
(* notice if they did earlier.                                             *)

Reading(t) == pc[t] \in {"request", "headers"}

Accept(t) == /\ pc[t] = "accept" /\ conns < MaxConns
             /\ conns' = conns + 1
             /\ client' = [client EXCEPT ![t] = "request"]
             /\ Goto(t, "request")
             /\ UNCHANGED <<map, proc, sent, readVars, matchVars, answer, balanceVars>>

\* do_proxy closes the connection; what it held is gone with it, and with the
\* frame of parser_request its reader.  The target stays in that frame.
Close(t) == /\ pc[t] = "close"
            /\ client' = [client EXCEPT ![t] = "gone"]
            /\ sock' = [sock EXCEPT ![t] = <<>>]
            /\ rio' = [rio EXCEPT ![t] = <<>>]
            /\ line' = [line EXCEPT ![t] = <<>>]
            /\ uri' = [uri EXCEPT ![t] = <<>>]
            /\ kind' = [kind EXCEPT ![t] = "EXACT"]
            /\ found' = [found EXCEPT ![t] = FALSE]
            /\ answer' = [answer EXCEPT ![t] = <<>>]
            /\ Goto(t, "accept")
            /\ UNCHANGED <<map, proc, conns, sent, sdi, balanceVars>>

Sending == {"request", "start", "within"}

\* A client is in its request line, at the start of a header line, or within
\* one; it is done with the empty line.
After(c, b) == CASE b = "c" /\ c = "request" -> "request"
                 [] b = "c" /\ c # "request" -> "within"
                 [] b = "n" /\ c = "start"   -> "done"
                 [] b = "n" /\ c # "start"   -> "start"

Send(t, b) == /\ Reading(t) /\ client[t] \in Sending
              /\ sent < MaxBytes
              /\ sent' = sent + 1
              /\ sock' = [sock EXCEPT ![t] = Append(@, b)]
              /\ client' = [client EXCEPT ![t] = After(@, b)]
              /\ UNCHANGED <<map, proc, conns, rio, line, pc, matchVars,
                             answer, balanceVars>>

\* It closes early, or resets the connection, which discards what the thread
\* has not read.
Leave(t) == /\ Reading(t)
            /\ \/ /\ client[t] \in Sending
                  /\ client' = [client EXCEPT ![t] = "closed"]
                  /\ UNCHANGED sock
               \/ /\ client[t] \in Sending \cup {"done"}
                  /\ client' = [client EXCEPT ![t] = "reset"]
                  /\ sock' = [sock EXCEPT ![t] = <<>>]
            /\ UNCHANGED <<map, proc, conns, sent, rio, line, pc, matchVars,
                           answer, balanceVars>>

-----------------------------------------------------------------------------
(* The buffered reader: rio_readlineb, for the request line and in the     *)
(* loop over the headers.                                                  *)

\* What the caller does with a line: the request line is parsed, a header line
\* only compared with the empty one.
LineRead(t, l) == /\ line' = [line EXCEPT ![t] = <<>>]
                  /\ IF pc[t] = "request"
                     THEN /\ uri' \in {[uri EXCEPT ![t] = u] : u \in Uris}
                          /\ kind' = [kind EXCEPT ![t] = "EXACT"]
                          /\ found' = [found EXCEPT ![t] = FALSE]
                          /\ Goto(t, "match")
                     ELSE /\ IF l = <<"n">> THEN Return(t) ELSE UNCHANGED pc
                          /\ UNCHANGED <<uri, kind, found>>

\* Faulty variant: read is asked for whatever there is.
RefillAll(t) == /\ Reading(t) /\ rio[t] = <<>> /\ sock[t] # <<>>
                /\ rio' = [rio EXCEPT ![t] = sock[t]]
                /\ sock' = [sock EXCEPT ![t] = <<>>]
                /\ UNCHANGED <<map, proc, clientVars, line, pc, matchVars,
                               answer, balanceVars>>

\* read returns what is there, as far as the buffer holds it.
Refill(t) == /\ Reading(t) /\ rio[t] = <<>> /\ sock[t] # <<>>
             /\ LET n == IF Len(sock[t]) < BufSize THEN Len(sock[t]) ELSE BufSize
                IN  /\ rio' = [rio EXCEPT ![t] = SubSeq(sock[t], 1, n)]
                    /\ sock' = [sock EXCEPT ![t] = SubSeq(@, n + 1, Len(@))]
             /\ UNCHANGED <<map, proc, clientVars, line, pc, matchVars,
                            answer, balanceVars>>

\* One byte; the line is complete at its end or when the caller's array is full.
ReadByte(t) == /\ Reading(t) /\ rio[t] # <<>>
               /\ LET b == Head(rio[t])
                      l == Append(line[t], b)
                  IN  IF b = "n" \/ Len(l) = MaxLine - 1
                      THEN LineRead(t, l)
                      ELSE /\ line' = [line EXCEPT ![t] = l]
                           /\ UNCHANGED <<pc, uri, kind, found>>
               /\ rio' = [rio EXCEPT ![t] = Tail(@)]
               /\ UNCHANGED <<map, proc, clientVars, sock, sdi, answer, balanceVars>>

\* The end of the stream.  Before a request line it is the end of the request;
\* a line without its end counts as one; an error is not told from a line.
\* In the loop over the headers nobody looks: the buffer stays as it was, which
\* is not the empty line, and the thread reads again, for ever.
EndOfStream(t) == /\ Reading(t) /\ rio[t] = <<>> /\ sock[t] = <<>>
                  /\ client[t] \in {"closed", "reset"}
                  /\ IF pc[t] = "request" /\ line[t] = <<>> /\ client[t] = "closed"
                     THEN /\ Return(t) /\ UNCHANGED <<line, uri, kind, found>>
                     ELSE LineRead(t, line[t])
                  /\ UNCHANGED <<map, proc, clientVars, sock, rio, sdi,
                                 answer, balanceVars>>

-----------------------------------------------------------------------------
(* match_proxy, one kind of match after the other.                         *)

\* The four routines of util/match.c.  prefix_match counts the characters the
\* two have in common and is true for any; patterns without special
\* characters are searched for by regexec.
StartsAlike(p, u) == Len(p) > 0 /\ Len(u) > 0 /\ p[1] = u[1]

OccursAt(p, u, i) == /\ i + Len(p) <= Len(u)
                     /\ \A j \in 1 .. Len(p) : u[i + j] = p[j]
OccursIn(p, u) == \E i \in 0 .. Len(u) : OccursAt(p, u, i)

Matches(k, p, u) == CASE k = "EXACT"  -> p = u
                      [] k = "PREFIX" -> StartsAlike(p, u)
                      [] k = "REGEX"  -> OccursIn(p, u)
                      [] k = "NONE"   -> StartsAlike(p, u)

Hits(k, u) == {l \in LocationIds : /\ Locations[l].matchType = k
                                   /\ Matches(k, Locations[l].pattern, u)}

\* Faulty variant: regular expressions before prefixes.
NextKindSwapped(k) == CASE k = "EXACT"  -> "REGEX"
                        [] k = "PREFIX" -> "NONE"
                        [] k = "REGEX"  -> "PREFIX"
                        [] k = "NONE"   -> "no more"

NextKind(k) == CASE k = "EXACT"  -> "PREFIX"
                 [] k = "PREFIX" -> "REGEX"
                 [] k = "REGEX"  -> "NONE"
                 [] k = "NONE"   -> "no more"

\* get_hashmap returns NULL for a kind no location has.
Present(k) == \E l \in LocationIds : Locations[l].matchType = k

MatchKind(t) == /\ pc[t] = "match" /\ kind[t] # "no more"
                /\ ~(map = "lists" /\ Present(kind[t]))
                /\ IF map = "LMS" /\ Hits(kind[t], uri[t]) # {}
                   THEN /\ \E l \in Hits(kind[t], uri[t]) :
                              /\ \A m \in Hits(kind[t], uri[t]) : l <= m
                              /\ sdi' = [sdi EXCEPT ![t] = l]
                        /\ found' = [found EXCEPT ![t] = TRUE]
                        /\ Goto(t, "serve")
                        /\ UNCHANGED kind
                   ELSE /\ kind' = [kind EXCEPT ![t] = NextKind(@)]
                        /\ UNCHANGED <<sdi, found, pc>>
                /\ UNCHANGED <<map, proc, clientVars, readVars, uri, answer,
                               balanceVars>>

\* The first entry of an array that is made of the size and the length of the
\* list: no such address is mapped.
MatchList(t) == /\ pc[t] = "match" /\ kind[t] # "no more"
                /\ map = "lists" /\ Present(kind[t])
                /\ Crash
                /\ UNCHANGED <<map, clientVars, readVars, matchVars, answer,
                               balanceVars>>

\* clienterror: one page, however many writes it takes; a write that fails is
\* reported and forgotten.
ErrorPage == <<"404">>

\* The 404 does not return: parser_request serves what its frame holds, which
\* is the target of the thread's last request or, if other calls have used that
\* part of the stack since, anything: an error page more, or a crash.
NotFound(t) == /\ pc[t] = "match" /\ kind[t] = "no more"
               /\ \/ /\ sdi[t] # NoTarget
                     /\ answer' = [answer EXCEPT ![t] = @ \o ErrorPage]
                     /\ Goto(t, "serve") /\ UNCHANGED proc
                  \/ /\ answer' = [answer EXCEPT ![t] = @ \o ErrorPage \o ErrorPage]
                     /\ Return(t) /\ UNCHANGED proc
                  \/ /\ answer' = [answer EXCEPT ![t] = @ \o ErrorPage]
                     /\ Crash
               /\ UNCHANGED <<map, clientVars, readVars, matchVars, balanceVars>>

-----------------------------------------------------------------------------
(* serve_static and serve_dynamic.                                         *)

Target(t) == Locations[sdi[t]]

\* request_static: the head, and the contents of the file unless the path was
\* overwritten by the head and Open fails.
FileAnswers == {<<"head", "file">>, <<"head">>}

\* The path is in the frame of match_location, which is gone: stat finds the
\* file or none.
ServeStatic(t) == /\ pc[t] = "serve" /\ Target(t).isStatic
                  /\ \E a \in {ErrorPage} \cup FileAnswers :
                       answer' = [answer EXCEPT ![t] = @ \o a]
                  /\ Return(t)
                  /\ UNCHANGED <<map, proc, clientVars, readVars, matchVars,
                                 balanceVars>>

\* The cases of select_server.  The weighted strategy chooses nothing and leaves
\* the name of the server uninitialised; a strategy that was never set is what
\* malloc returned, and can be any of them.
Branches(s) == CASE s = "ROUND_ROBIN" -> {"load"}
                 [] s = "WEIGHTED_ROUND_ROBIN" -> {"connect"}
                 [] s = "IP_HASH" -> {"hash"}
                 [] s = "unset" -> {"load", "connect", "hash"}

SelectServer(t) == /\ pc[t] = "serve" /\ ~Target(t).isStatic
                   /\ \E l \in Branches(Target(t).strategy) : Goto(t, l)
                   /\ UNCHANGED <<map, proc, clientVars, readVars, matchVars,
                                  answer, balanceVars>>

\* The calls of round_robin on a proxy that have begun and not returned.
InFlight(l) == {t \in Threads : pc[t] \in {"store", "index"} /\ sdi[t] = l}

\* round_robin: (*count)+=1 loads and stores, and the result is loaded again.
Load(t) == /\ pc[t] = "load"
           /\ reg' = [reg EXCEPT ![t] = count[sdi[t]]]
           /\ calls' = [calls EXCEPT ![sdi[t]] = @ + 1]
           /\ overlap' = overlap \cup {l \in {sdi[t]} : InFlight(l) # {}}
           /\ Goto(t, "store")
           /\ UNCHANGED <<map, proc, clientVars, readVars, matchVars, answer, count>>

\* ++ on an int.
CInc(n) == IF n = IntMax THEN -IntMax - 1 ELSE n + 1

\* Faulty variant: the counter is kept small, and comes round one call early.
StoreWrapped(t) == /\ pc[t] = "store"
                   /\ count' = [count EXCEPT ![sdi[t]] =
                        IF reg[t] + 2 >= Target(t).servers THEN 0 ELSE reg[t] + 1]
                   /\ Goto(t, "index")
                   /\ UNCHANGED <<map, proc, clientVars, readVars, matchVars, answer,
                                  reg, calls, overlap>>

Store(t) == /\ pc[t] = "store"
            /\ count' = [count EXCEPT ![sdi[t]] = CInc(reg[t])]
            /\ Goto(t, "index")
            /\ UNCHANGED <<map, proc, clientVars, readVars, matchVars, answer,
                           reg, calls, overlap>>

\* % on ints, with the sign of the dividend.
CRem(n, m) == IF n >= 0 THEN n % m ELSE -((-n) % m)

\* Faulty variant: servers numbered from 1.
IndexFromOne(t) == /\ pc[t] = "index"
                   /\ IF Target(t).servers = 0
                      THEN Crash /\ UNCHANGED reg
                      ELSE /\ reg' = [reg EXCEPT ![t] =
                                        CRem(count[sdi[t]], Target(t).servers) + 1]
                           /\ Goto(t, "pick") /\ UNCHANGED proc
                   /\ UNCHANGED <<map, clientVars, readVars, matchVars, answer,
                                  count, calls, overlap>>

Index(t) == /\ pc[t] = "index"
            /\ IF Target(t).servers = 0
               THEN Crash /\ UNCHANGED reg
               ELSE /\ reg' = [reg EXCEPT ![t] = CRem(count[sdi[t]], Target(t).servers)]
                    /\ Goto(t, "pick") /\ UNCHANGED proc
            /\ UNCHANGED <<map, clientVars, readVars, matchVars, answer,
                           count, calls, overlap>>

\* ip_hash reads the uninitialised name of the server and never advances: it
\* returns at once or never.
Hash(t) == /\ pc[t] = "hash"
           /\ \/ Goto(t, "spin") /\ UNCHANGED <<proc, reg>>
              \/ IF Target(t).servers = 0
                 THEN Crash /\ UNCHANGED reg
                 ELSE /\ reg' = [reg EXCEPT ![t] = 0]
                      /\ Goto(t, "pick") /\ UNCHANGED proc
           /\ UNCHANGED <<map, clientVars, readVars, matchVars, answer,
                          count, calls, overlap>>

InList(t) == reg[t] \in 0 .. Target(t).servers - 1

\* get_arraylist does not check the index.  Outside the list it finds NULL, or
\* some other word.
Pick(t) == /\ pc[t] = "pick"
           /\ IF InList(t) THEN Goto(t, "connect") /\ UNCHANGED proc ELSE Crash
           /\ reg' = [reg EXCEPT ![t] = 0]
           /\ UNCHANGED <<map, clientVars, readVars, matchVars, answer,
                          count, calls, overlap>>

\* Faulty variant: request_dynamic with a reader of its own.
ConnectFreshReader(t) == /\ pc[t] = "connect"
                         /\ rio' = [rio EXCEPT ![t] = <<>>]
                         /\ Goto(t, "headers")
                         /\ UNCHANGED <<map, proc, clientVars, sock, line,
                                        matchVars, answer, balanceVars>>

\* The upstream server answers or not: the result of Open_clientfd is not
\* looked at, the request line is written, and nothing is read back.
Connect(t) == /\ pc[t] = "connect"
              /\ Goto(t, "headers")
              /\ UNCHANGED <<map, proc, clientVars, readVars, matchVars, answer,
                             balanceVars>>

-----------------------------------------------------------------------------
Read(t) == Refill(t) \/ ReadByte(t) \/ EndOfStream(t)
Match(t) == MatchKind(t) \/ MatchList(t) \/ NotFound(t)
RoundRobin(t) == Load(t) \/ Store(t) \/ Index(t)
Serve(t) == \/ ServeStatic(t) \/ SelectServer(t) \/ RoundRobin(t)
            \/ Hash(t) \/ Pick(t) \/ Connect(t)

ThreadStep(t) == Read(t) \/ Match(t) \/ Serve(t) \/ Close(t)

ClientStep(t) == Accept(t) \/ Leave(t) \/ \E b \in Bytes : Send(t, b)

Next == /\ proc = "up"
        /\ \E t \in Threads : ThreadStep(t) \/ ClientStep(t)

Spec == Init /\ [][Next]_vars

\* A thread that can run does.  Clients owe nothing.
FairSpec == Spec /\ \A t \in Threads : WF_vars(proc = "up" /\ ThreadStep(t))

-----------------------------------------------------------------------------
Labels == {"accept", "request", "match", "serve", "load", "store", "index",
           "hash", "spin", "pick", "connect", "headers", "close"}

Serving(t) == pc[t] \in {"serve", "load", "store", "index", "hash", "spin",
                         "pick", "connect", "headers"}

ControlOK == /\ map \in Maps /\ proc \in {"up", "crash"}
             /\ conns \in Nat /\ sent \in Nat
             /\ client \in [Threads -> Sending \cup {"gone", "done", "closed", "reset"}]
             /\ pc \in [Threads -> Labels]
             /\ kind \in [Threads -> MatchTypes \cup {"no more"}]
             /\ found \in [Threads -> BOOLEAN]
             /\ sdi \in [Threads -> LocationIds \cup {NoTarget}]
             /\ \A t \in Threads : Serving(t) => sdi[t] \in LocationIds

ReadersOK == /\ sock \in [Threads -> Seq(Bytes)]
             /\ rio \in [Threads -> Seq(Bytes)] /\ line \in [Threads -> Seq(Bytes)]
             /\ \A t \in Threads : Len(rio[t]) <= BufSize /\ Len(line[t]) < MaxLine - 1

CountersOK == /\ count \in [LocationIds -> Ints] /\ calls \in [LocationIds -> Nat]
              /\ overlap \subseteq LocationIds
              /\ reg \in [Threads -> Int]
              /\ \A t \in Threads : pc[t] = "store" => reg[t] \in Ints

\* The type invariant: in particular no reader's buffer or line overflows, the
\* counters stay ints, and a thread that serves has a target.
TypeOK == ControlOK /\ ReadersOK /\ CountersOK

\* A location with servers whose counter started at 0 and has not been used
\* more than INT_MAX times.
Balanced(l) == /\ Locations[l].servers > 0 /\ calls[l] <= IntMax
               /\ Locations[l].strategy # "unset"

\* The index that do_round_robin and do_ip_hash hand to get_arraylist, which does
\* not check it, is in the list of servers, however the threads interleave on
\* request_count.
IndexInList == \A t \in Threads : pc[t] = "pick" /\ Balanced(sdi[t]) => InList(t)

\* As long as no two requests overlap on a proxy, they take its servers in turn:
\* the n-th one gets the server n % size, whichever threads serve them.
ServersInTurn ==
  [][\A t \in Threads :
       pc[t] = "index" /\ pc'[t] = "pick" /\ Balanced(sdi[t]) /\ sdi[t] \notin overlap
         => reg'[t] = calls[sdi[t]] % Target(t).servers]_vars

\* What the modifiers are said to mean (config_proxy.h, README.md): the whole
\* address, a prefix of it, a regular expression, or again a prefix.
Means(k, p, u) == CASE k = "EXACT"  -> p = u
                    [] k = "PREFIX" -> OccursAt(p, u, 0)
                    [] k = "REGEX"  -> OccursIn(p, u)
                    [] k = "NONE"   -> OccursAt(p, u, 0)
Meant(l, u) == Means(Locations[l].matchType, Locations[l].pattern, u)

\* prefix_match also takes an address that only begins like the pattern: a
\* request that was handed to such a location is in the wrong place.
Overreaches(l, u) == Locations[l].matchType \in {"PREFIX", "NONE"} /\ ~Meant(l, u)

\* The priorities of proxy.conf: a request is never served by a location while
\* its address means one of a stronger kind, or one of the same kind written
\* before it; that it means the location itself is said of all but those that
\* overreach.  And the page of a 404 is sent only if it means no location.
Stronger(k) == CASE k = "EXACT"  -> {}
                 [] k = "PREFIX" -> {"EXACT"}
                 [] k = "REGEX"  -> {"EXACT", "PREFIX"}
                 [] k = "NONE"   -> {"EXACT", "PREFIX", "REGEX"}

BestLocation ==
  \A t \in Threads :
    /\ Serving(t) /\ found[t] =>
         /\ Meant(sdi[t], uri[t]) \/ Overreaches(sdi[t], uri[t])
         /\ \A l \in LocationIds : Meant(l, uri[t]) =>
              /\ Locations[l].matchType \notin Stronger(Target(t).matchType)
              /\ Locations[l].matchType = Target(t).matchType => l >= sdi[t]
    /\ map = "LMS" /\ ~found[t] /\ answer[t] # <<>> =>
         \A l \in LocationIds : ~Meant(l, uri[t])

\* A thread in the loop over the headers gets to the empty line once the client
\* has sent it, however the bytes arrive and the reader has buffered them with
\* the request line, unless the client resets the connection.
HeadersEnd ==
  \A t \in Threads : pc[t] = "headers" /\ client[t] = "done"
                       ~> pc[t] # "headers" \/ client[t] # "done" \/ proc # "up"

\* The declared contents of location_map (config_proxy.h): for each kind of
\* match its locations.  A worker does not die while it looks for a match: if it
\* is dead, some thread was elsewhere.
LocationsReadable ==
  proc = "crash" => \E t \in Threads : pc[t] # "match" \/ kind[t] = "no more"

=============================================================================
