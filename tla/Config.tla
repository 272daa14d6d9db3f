------------------------------- MODULE Config -------------------------------
(***************************************************************************)
(* Loading proxy.conf (config/config_proxy.c): pares_proxy_file reads the  *)
(* file once, keeps the directives it has not placed yet on a stack        *)
(* (util/stack.c), and links them into a tree of children and friends at   *)
(* each closing brace; generate_proxy_config then walks the tree, driven   *)
(* by a table of states, and calls a parser for each directive.            *)
(*                                                                         *)
(* The file is any one doc/config.md describes: directives at their levels,*)
(* one of them or some closing braces per line, balanced.  The parsers     *)
(* store pointers into their own frames, so of the arguments only what the *)
(* code branches on is kept: the strategy, the modifier of a location, and *)
(* the keyword that its path holds.  What is loaded is the log of the      *)
(* parser calls: a call that allocates makes the object that is named by   *)
(* the place of the call in the log.                                       *)
(***************************************************************************)
EXTENDS Integers, Sequences, FiniteSetsExt

CONSTANTS Strategies,  \* the arguments of the strategy directives
          Locations,   \* the modifiers of locations, and keywords in their paths
          Capacity,    \* STACK_DEFAULT_INITIAL_CAPACITY
          MaxItems     \* bound: directives in a file

Tags == {"http", "servers", "listen", "location", "root", "alias", "index",
         "strategy", "proxy", "server"}

Modifiers == {"=", "^~", "~", "~*", "none"}

ASSUME ConfigAssumption ==
  /\ Strategies \subseteq {"IP_HASH", "ROUND_ROBIN", "WEIGHTED_ROUND_ROBIN"}
  /\ Locations \subseteq [arg : Modifiers, word : Tags \cup {"none"}]
  /\ Capacity \in Nat /\ Capacity > 1  \* an array of one never grows
  /\ MaxItems \in Nat

VARIABLES phase,    \* "read" and "walk", then "done", or "crash"
          file,     \* the directives read so far, and the block each is in
          blocks,   \* the blocks that are open where the reader is
          node,     \* the nodes made of them: CONFIG_NODE
          stack,    \* the nodes on the stack; 0 is a NULL entry
          size,     \* how many entries the stack has room for
          todo,     \* the calls of generate_proxy_config still to be made
          log       \* the calls of the parsers

fileVars == <<file, blocks>>
stackVars == <<node, stack, size>>
vars == <<phase, fileVars, stackVars, todo, log>>

Init == /\ phase = "read"
        /\ file = <<>> /\ blocks = <<>>
        /\ node = <<>> /\ stack = <<>> /\ size = Capacity
        /\ todo = <<>> /\ log = <<>>

-----------------------------------------------------------------------------
(* The files of the documentation: the level of each directive.            *)

Inside == [top |-> {"http"}, http |-> {"servers"},
           servers |-> {"listen", "location"},
           location |-> {"root", "alias", "index", "proxy"},
           proxy |-> {"strategy", "server"}]

IsBlock(tag) == tag \in DOMAIN Inside

Here == IF blocks = <<>> THEN 0 ELSE blocks[Len(blocks)]
Written(tag, up) == {i \in DOMAIN file : file[i].tag = tag /\ file[i].up = up}

\* All but these come at most once in a block.
Repeated == {"servers", "location", "server"}

Expected == IF Here # 0 THEN Inside[file[Here].tag] ELSE Inside.top
Allowed == {tag \in Expected : tag \in Repeated \/ Written(tag, Here) = {}}

Arguments(tag) == CASE tag = "strategy" -> [arg : Strategies, word : {"none"}]
                    [] tag = "location" -> Locations
                    [] OTHER -> [arg : {"any"}, word : {"none"}]

\* One more directive, in the block the reader is in.
Directive(tag) == /\ phase = "read" /\ Len(file) < MaxItems
                  /\ tag \in Allowed
                  /\ \E a \in Arguments(tag) :
                       file' = Append(file, [tag |-> tag, arg |-> a.arg,
                                             word |-> a.word, up |-> Here])

-----------------------------------------------------------------------------
(* The stack.  push_stack enlarges it only when the top index equals the   *)
(* size, which is one entry too late: that entry lies behind the array, in *)
(* the padding of its heap block, and is not copied into the larger array. *)

Grown == (7 * size) \div 4

\* Faulty variant: the size is taken for the capacity of an unbounded array.
PushNeverGrows(n) == stack' = Append(stack, n) /\ UNCHANGED size

Push(n) == IF Len(stack) = size + 1
           THEN /\ stack' = SubSeq(stack, 1, size) \o <<0, n>>
                /\ size' = Grown
           ELSE /\ stack' = Append(stack, n)
                /\ UNCHANGED size

NewNode(kind) == /\ node' = Append(node, [kind |-> kind, friend |-> 0, child |-> 0])
                 /\ Push(Len(node) + 1)

\* The line of a block ends in '{', any other in ';'.
ReadOpen(tag) == /\ IsBlock(tag) /\ Directive(tag)
                 /\ NewNode("parent")
                 /\ blocks' = Append(blocks, Len(file) + 1)
                 /\ UNCHANGED <<phase, todo, log>>

ReadLeaf(tag) == /\ ~IsBlock(tag) /\ Directive(tag)
                 /\ NewNode("child")
                 /\ UNCHANGED <<phase, blocks, todo, log>>

\* The nodes from position k of the stack on, each the friend of the one below.
LinkedFrom(k) == [n \in DOMAIN node |->
                    LET at == {j \in k .. Len(stack) - 1 : stack[j] = n}
                    IN  IF at = {} THEN node[n]
                        ELSE [node[n] EXCEPT !.friend = stack[Max(at) + 1]]]

\* Faulty variant: the first directive of a block is linked to nothing.
LinkedButFirst(k) == LinkedFrom(k + 2)

\* The loop of generate_config_tree over the nodes above position k.
Linked(k) == LinkedFrom(k + 1)

\* generate_config_tree: the nodes down to the innermost open block become its
\* children.  The loop ends at a NULL entry as well, and then leaves the first
\* of the nodes in its place.  An empty block is closed as it is.
Gather == LET ends == {i \in DOMAIN stack :
                         stack[i] = 0 \/ node[stack[i]].kind = "parent"}
              k == IF ends = {} THEN 0 ELSE Max(ends)
          IN  IF k # 0 /\ stack[k] # 0
              THEN /\ stack' = SubSeq(stack, 1, k)
                   /\ node' = [Linked(k) EXCEPT
                                 ![stack[k]].kind = "child",
                                 ![stack[k]].child = IF k = Len(stack) THEN 0
                                                     ELSE stack[k + 1]]
              ELSE /\ stack' = SubSeq(stack, 1, k - 1) \o SubSeq(stack, k + 1, k + 1)
                   /\ node' = Linked(k)

ReadClose == /\ phase = "read" /\ blocks # <<>>
             /\ Gather
             /\ blocks' = SubSeq(blocks, 1, Len(blocks) - 1)
             /\ UNCHANGED <<phase, file, size, todo, log>>

-----------------------------------------------------------------------------
(* The walk.  A state of generate_state_chain names the directive it       *)
(* accepts, and the states that may be next for the children of a node and *)
(* for its friend.                                                         *)

\* Faulty variant: the page of a location is only looked for after its folder.
ChildStatesNoIndex == [http |-> <<"servers">>,
                       servers |-> <<"listen", "location">>,
                       location |-> <<"root", "alias", "strategy", "proxy">>,
                       proxy |-> <<"server", "strategy">>]

ChildStates == [http |-> <<"servers">>,
                servers |-> <<"listen", "location">>,
                location |-> <<"root", "alias", "index", "strategy", "proxy">>,
                proxy |-> <<"server", "strategy">>]

\* Faulty variant: a location is not expected to follow a location.
FriendStatesOnce == [listen |-> <<"server">>, location |-> <<"listen">>,
                     servers |-> <<"servers">>, server |-> <<"server">>,
                     root |-> <<"index">>, alias |-> <<"index">>,
                     index |-> <<"root", "alias">>, strategy |-> <<"proxy">>]

FriendStates == [servers |-> <<"servers">>,
                 location |-> <<"location", "listen">>, listen |-> <<"server">>,
                 root |-> <<"index">>, alias |-> <<"index">>,
                 index |-> <<"root", "alias">>,
                 strategy |-> <<"proxy">>, server |-> <<"server">>]

States(table, tag) == IF tag \in DOMAIN table THEN table[tag] ELSE <<>>

\* strstr: the keyword of the state is found anywhere in the directive.
Holds(tag, word) == word = tag \/ (tag = "server" /\ word = "servers")
Matches(tag, n) == Holds(tag, file[n].tag) \/ Holds(tag, file[n].word)

NoConfig == -1   \* the NULL that stands for the object of a node not parsed
RootConfig == 0  \* nadia_proxy_config

Calls(tags, n, config) ==
  [i \in DOMAIN tags |-> [tag |-> tags[i], node |-> n, config |-> config]]

\* The reader pops one node, the whole tree if everything went well.
EndOfFile == /\ phase = "read" /\ blocks = <<>> /\ file # <<>>
             /\ stack' = SubSeq(stack, 1, Len(stack) - 1)
             /\ todo' = Calls(<<"http">>, stack[Len(stack)], RootConfig)
             /\ phase' = "walk"
             /\ UNCHANGED <<fileVars, node, size, log>>

\* What a parser returns: parse_listen and parse_strategy what they were given,
\* the others the object they make.
Returned(call, made) == IF call.tag \in {"listen", "strategy"} THEN call.config
                                                               ELSE made

\* Faulty variant: the children are parsed into the object of their parent.
WalkSameConfig ==
  /\ phase = "walk" /\ todo # <<>>
  /\ LET c == Head(todo)
     IN  IF c.node = 0 THEN todo' = Tail(todo) /\ UNCHANGED log
         ELSE /\ log' = IF Matches(c.tag, c.node) THEN Append(log, c) ELSE log
              /\ todo' = Calls(States(ChildStates, c.tag), node[c.node].child, c.config)
                      \o Calls(States(FriendStates, c.tag), node[c.node].friend, c.config)
                      \o Tail(todo)
  /\ UNCHANGED <<phase, fileVars, stackVars>>

\* One call of generate_proxy_config: parse the node if it has the keyword,
\* then its children with the result, then its friends.  A parser that is given
\* NULL writes through it.
Walk ==
  /\ phase = "walk" /\ todo # <<>>
  /\ LET c == Head(todo)
         hit == Matches(c.tag, c.node)
         result == IF hit THEN Returned(c, Len(log) + 1) ELSE NoConfig
     IN  IF c.node = 0 THEN todo' = Tail(todo) /\ UNCHANGED <<phase, log>>
         ELSE /\ log' = IF hit THEN Append(log, c) ELSE log
              /\ phase' = IF hit /\ c.config = NoConfig THEN "crash" ELSE phase
              /\ todo' = Calls(States(ChildStates, c.tag), node[c.node].child, result)
                      \o Calls(States(FriendStates, c.tag), node[c.node].friend, c.config)
                      \o Tail(todo)
  /\ UNCHANGED <<fileVars, stackVars>>

Finish == /\ phase = "walk" /\ todo = <<>>
          /\ phase' = "done"
          /\ UNCHANGED <<fileVars, stackVars, todo, log>>

Next == \/ \E tag \in Tags : ReadOpen(tag) \/ ReadLeaf(tag)
        \/ ReadClose \/ EndOfFile \/ Walk \/ Finish

Spec == Init /\ [][Next]_vars

-----------------------------------------------------------------------------
(* What the parsers have made.  A list is only appended to: it is the set  *)
(* of the calls that did, in the order of the log.                         *)

\* The calls of some parsers with one object.
MadeBy(tags, config) ==
  {i \in DOMAIN log : log[i].tag \in tags /\ log[i].config = config}
Made(tag, config) == MadeBy({tag}, config)

LastOf(calls) == IF calls = {} THEN 0 ELSE Max(calls)
NodesOf(calls) == {log[i].node : i \in calls}
InOrder(calls) == \A i, j \in calls : i < j => log[i].node < log[j].node

\* parse_servers and parse_location append to a list; parse_listen and
\* parse_proxy overwrite a field.  A servers block that parse_server is given
\* has its list of locations where a proxy has that of its servers.
ServersList(http) == Made("servers", http)
LocationList(servers) == MadeBy({"location", "server"}, servers)
Listen(servers) == LastOf(Made("listen", servers))
ServerProxy(location) == LastOf(Made("proxy", location))

\* Faulty variant: the last of the comparisons is missing.
MatchTypeTilde(modifier) == CASE modifier = "=" -> "EXACT"
                              [] modifier \in {"^~", "~"} -> "PREFIX"
                              [] OTHER -> "NONE"

\* parse_location: strstr looks for the modifier within "=", "^~", "~" and "~*".
\* No modifier leaves the path in its place, which is in none of them.
MatchType(modifier) == CASE modifier = "=" -> "EXACT"
                         [] modifier \in {"^~", "~"} -> "PREFIX"
                         [] modifier = "~*" -> "REGEX"
                         [] OTHER -> "NONE"

\* location_map: the kinds that parse_location has put the list under.
LocationMap(servers) ==
  {MatchType(file[n].arg) : n \in NodesOf(Made("location", servers))}

\* parse_server appends to the list, and parse_strategy starts it anew.
ReverseProxys(proxy) ==
  {i \in Made("server", proxy) : i > LastOf(Made("strategy", proxy))}

\* parse_strategy: strcmp(x, s) > 0 holds when s comes before x.  A proxy whose
\* strategy was never parsed has the one malloc left there.
Alphabet == <<"IP_HASH", "ROUND_ROBIN", "WEIGHTED_ROUND_ROBIN">>
Before(s, x) == \E i, j \in DOMAIN Alphabet : i < j /\ Alphabet[i] = s /\ Alphabet[j] = x

StrategyOf(s) == CASE Before(s, "ROUND_ROBIN") -> "ROUND_ROBIN"
                   [] Before(s, "WEIGHTED_ROUND_ROBIN") -> "WEIGHTED_ROUND_ROBIN"
                   [] Before(s, "IP_HASH") -> "IP_HASH"
                   [] OTHER -> "ROUND_ROBIN"

ProxyStrategy(proxy) == LET set == LastOf(Made("strategy", proxy))
                        IN  IF set = 0 THEN "uninitialised"
                            ELSE StrategyOf(file[log[set].node].arg)

-----------------------------------------------------------------------------
\* The type invariant: the stack never needs more than the one entry that the
\* padding behind its array has room for.
TypeOK ==
  /\ phase \in {"read", "walk", "done", "crash"}
  /\ file \in Seq([tag : Tags, arg : Strategies \cup Modifiers \cup {"any"},
                   word : Tags \cup {"none"}, up : 0 .. Len(file)])
  /\ blocks \in Seq(DOMAIN file)
  /\ node \in Seq([kind : {"parent", "child"},
                   friend : 0 .. Len(file), child : 0 .. Len(file)])
  /\ Len(node) = Len(file)
  /\ size \in Nat /\ Len(stack) <= size + 1
  /\ stack \in Seq(0 .. Len(node))
  /\ todo \in Seq([tag : Tags, node : 0 .. Len(node), config : -1 .. Len(log)])
  /\ log \in Seq([tag : Tags, node : DOMAIN node, config : -1 .. Len(log)])

FirstOf(S) == IF S = {} THEN 0 ELSE Min(S)
In(block) == {i \in DOMAIN file : file[i].up = block}
Kept(block) ==
  /\ node[block].child = FirstOf(In(block))
  /\ \A i \in In(block) : node[i].friend = FirstOf({j \in In(block) : j > i})

Closed == {b \in DOMAIN file : IsBlock(file[b].tag)
                                 /\ \A i \in DOMAIN blocks : blocks[i] # b}

\* doc/config.md's account of the reader: at a closing brace the directives
\* pushed since the opening one become friends of each other, in the order of
\* the file, and children of the block; at the end of the file the outermost
\* block is the tree that is walked.
DirectivesKept == /\ \A b \in Closed : Kept(b)
                  /\ phase = "walk" /\ log = <<>> /\ Len(todo) = 1 => todo[1].node = 1

\* The reader keeps every directive as long as the stack has not been enlarged.
TreeAsWritten == size = Capacity => DirectivesKept

\* A path that holds the keyword of another directive of a servers block: listen
\* in any, or server in a location that is not the first directive of its block,
\* since generate_state_chain lets a server follow a listen.
Misread(i) ==
  /\ file[i].tag = "location"
  /\ \/ file[i].word = "listen"
     \/ file[i].word \in {"server", "servers"} /\ i # FirstOf(In(file[i].up))

WellNamed == \A i \in DOMAIN file : ~Misread(i)

Loaded == phase = "done" /\ size = Capacity /\ WellNamed

\* Every servers block is loaded once, in the order of the file, with its port
\* and with each of its locations once and in their order: do_work numbers the
\* listeners by that order, and match_location takes the first that matches.
ServersAsWritten == Loaded =>
  LET list == ServersList(1)
  IN  /\ NodesOf(list) = Written("servers", 1) /\ InOrder(list)
      /\ \A s \in list :
           LET locations == LocationList(s)
               port == IF Listen(s) = 0 THEN {} ELSE {log[Listen(s)].node}
           IN  /\ NodesOf(locations) = Written("location", log[s].node)
               /\ InOrder(locations)
               /\ port = Written("listen", log[s].node)

\* Whatever their order, root, alias and index of a location are found, though
\* the states only go from a folder to the page and from the page to a folder.
StaticAsWritten == Loaded =>
  \A l \in DOMAIN log : log[l].tag = "location" =>
    \A tag \in {"root", "alias", "index"} :
      NodesOf(Made(tag, l)) = Written(tag, log[l].node)

\* doc/config.md's account of the modifiers is that of enum match_type: = exact,
\* ^~ prefix, ~* and ~ regex, none a plain prefix.  But for ~, which is taken for a
\* prefix, every location is under the kind it was written with: match_proxy finds
\* a kind in the map just when the file has a location of it.
KindsAsWritten == Loaded =>
  \A s \in ServersList(1) :
    LET written == {file[i].arg : i \in Written("location", log[s].node)}
        meant == [m \in {"=", "^~", "~*", "none"} |->
                    CASE m = "=" -> "EXACT" [] m = "^~" -> "PREFIX"
                      [] m = "~*" -> "REGEX" [] m = "none" -> "NONE"]
    IN  "~" \notin written => LocationMap(s) = {meant[m] : m \in written}

\* A parser casts what it is given to the object of its own level, and writes to
\* it: it is always the object of the block the directive is in, and a block that
\* its directive belongs in, whatever keywords the paths hold but the two that
\* Misread names.
ParsersGetTheirConfig ==
  size = Capacity /\ WellNamed =>
    /\ phase # "crash"
    /\ \A i \in DOMAIN log :
         LET c == log[i].config
         IN  IF c = RootConfig THEN log[i].tag = "http" /\ file[log[i].node].up = 0
             ELSE /\ file[log[i].node].up = log[c].node
                  /\ log[i].tag \in Inside[log[c].tag]

\* What doc/config.md says of proxy: the strategy that is configured, round robin
\* if none is, over all the servers that are listed.
BalancingAsWritten == Loaded =>
  \A l \in DOMAIN log : log[l].tag = "location" =>
    \A p \in Written("proxy", log[l].node) :
      LET proxy == ServerProxy(l)
          set == Written("strategy", p)
      IN  /\ proxy # 0
          /\ ProxyStrategy(proxy) = IF set = {} THEN "ROUND_ROBIN"
                                    ELSE file[FirstOf(set)].arg
          /\ NodesOf(ReverseProxys(proxy)) = Written("server", p)
=============================================================================
