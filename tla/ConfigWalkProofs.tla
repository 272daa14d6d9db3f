-------------------------- MODULE ConfigWalkProofs --------------------------
(***************************************************************************)
(* Proofs about the walk of Config, for files of any length and nesting:   *)
(* generate_proxy_config gives every parser the object of its own block,   *)
(* and calls one for every servers block, location, port, folder and page. *)
(***************************************************************************)
EXTENDS ConfigProofs

(* What is read.                                                           *)

\* A directive is in a block that may hold it, and once unless it is repeated;
\* only a location has a path; and only the node of a block has children.
PlacedInv ==
  /\ \A i \in 1 .. Len(file) :
       /\ file[i].up # 0 => /\ IsBlock(file[file[i].up].tag)
                            /\ file[i].tag \in Inside[file[file[i].up].tag]
       /\ IF file[i].tag = "location" THEN file[i].arg \in Modifiers
                                      ELSE file[i].word = "none"
       /\ IsBlock(file[i].tag) \/ node[i].child = 0
  /\ \A i, j \in 1 .. Len(file) :
       file[i].tag = file[j].tag /\ file[i].up = file[j].up
         => i = j \/ file[i].tag \in Repeated

LEMMA DirectiveFits ==
  ASSUME TypeInv, BlocksInv, NEW tag \in Tags, Directive(tag)
  PROVE  \E d \in ItemIn(Len(file)) :
           /\ file' = Append(file, d) /\ d.tag = tag /\ d.up = Here
           /\ Here # 0 => /\ Here \in 1 .. Len(file) /\ IsBlock(file[Here].tag)
                          /\ tag \in Inside[file[Here].tag]
           /\ tag \in Repeated \/ Written(tag, Here) = {}
           /\ IF tag = "location" THEN d.arg \in Modifiers ELSE d.word = "none"
<1>1. PICK a \in Arguments(tag) :
        file' = Append(file, [tag |-> tag, arg |-> a.arg, word |-> a.word, up |-> Here])
  BY DEF Directive
<1>2. PICK d \in ItemIn(Len(file)) : file' = Append(file, d) /\ d.tag = tag /\ d.up = Here
  BY DirectiveIs
<1>3. d = [tag |-> tag, arg |-> a.arg, word |-> a.word, up |-> Here]
  <2>1. file \in Seq(ItemIn(Len(file)))  BY DEF TypeInv
  <2> DEFINE e == [tag |-> tag, arg |-> a.arg, word |-> a.word, up |-> Here]
  <2>2. Append(file, d)[Len(file) + 1] = d /\ Append(file, e)[Len(file) + 1] = e
    BY <2>1
  <2> QED  BY <1>1, <1>2, <2>2
<1>4. IF tag = "location" THEN a.arg \in Modifiers ELSE a.word = "none"
  <2>1. tag = "location" => a \in [arg : Modifiers, word : Words]
    BY ConfigAssumption DEF Arguments, Words
  <2>2. tag = "strategy" => a \in [arg : Strategies, word : {"none"}]
    BY DEF Arguments
  <2>3. tag # "strategy" /\ tag # "location" => a \in [arg : {"any"}, word : {"none"}]
    BY DEF Arguments
  <2> QED  BY <2>1, <2>2, <2>3
<1>5. Here # 0 => Here \in 1 .. Len(file) /\ IsBlock(file[Here].tag)
  BY DEF Here, TypeInv, BlocksInv
<1>6. tag \in Allowed  BY DEF Directive
<1> QED  BY <1>2, <1>3, <1>4, <1>5, <1>6 DEF Allowed, Expected

LEMMA PlacedAdded ==
  ASSUME ReaderInv, size = Capacity, PlacedInv,
         NEW tag \in Tags, ReadOpen(tag) \/ ReadLeaf(tag)
  PROVE  PlacedInv'
<1> DEFINE N == Len(file)
<1>0. TypeInv /\ BlocksInv /\ N \in Nat /\ Len(node) = N /\ DOMAIN file = 1 .. N
      /\ file \in Seq(ItemIn(N)) /\ node \in Seq(NodeIn(N))
  BY DEF ReaderInv, Typing, TypeInv
<1>1. PICK n \in NodeIn(0) : Added(tag, n)  BY AddedIs
<1>2. PICK d \in ItemIn(N) :
        /\ file' = Append(file, d) /\ d.tag = tag /\ d.up = Here
        /\ Here # 0 => /\ Here \in 1 .. N /\ IsBlock(file[Here].tag)
                       /\ tag \in Inside[file[Here].tag]
        /\ tag \in Repeated \/ Written(tag, Here) = {}
        /\ IF tag = "location" THEN d.arg \in Modifiers ELSE d.word = "none"
  BY <1>0, <1>1, DirectiveFits DEF Added
<1>3. /\ Len(file') = N + 1 /\ file'[N + 1] = d
      /\ \A i \in 1 .. N : file'[i] = file[i]
  BY <1>0, <1>2
<1>4. /\ node'[N + 1].child = 0
      /\ \A i \in 1 .. N : node'[i] = node[i]
  <2>1. node' = Append(node, n) /\ n.child = 0  BY <1>1 DEF Added, NodeIn
  <2> QED  BY <1>0, <2>1
<1>5. \A i \in 1 .. N : file[i].up \in 0 .. N
  <2>1. \A i \in 1 .. N : file[i] \in ItemIn(N)  BY <1>0
  <2> QED  BY <2>1 DEF ItemIn
<1>6. ASSUME NEW i \in 1 .. N + 1
      PROVE  /\ file'[i].up # 0 => /\ IsBlock(file'[file'[i].up].tag)
                                   /\ file'[i].tag \in Inside[file'[file'[i].up].tag]
             /\ IF file'[i].tag = "location" THEN file'[i].arg \in Modifiers
                                             ELSE file'[i].word = "none"
             /\ IsBlock(file'[i].tag) \/ node'[i].child = 0
  <2>1. CASE i \in 1 .. N
    <3>1. file'[i] = file[i] /\ node'[i] = node[i]  BY <1>3, <1>4, <2>1
    <3>2. file[i].up # 0 => file[i].up \in 1 .. N  BY <1>0, <1>5, <2>1
    <3>3. file[i].up # 0 => file'[file[i].up] = file[file[i].up]  BY <1>3, <3>2
    <3> QED  BY <2>1, <3>1, <3>3 DEF PlacedInv
  <2>2. CASE i = N + 1
    <3>1. file'[i] = d /\ node'[i].child = 0  BY <1>3, <1>4, <2>2
    <3>2. d.up # 0 => file'[d.up] = file[d.up]  BY <1>2, <1>3
    <3> QED  BY <1>2, <3>1, <3>2
  <2> QED  BY <1>0, <2>1, <2>2
<1>7. ASSUME NEW i \in 1 .. N, file[i].tag = d.tag, file[i].up = d.up
      PROVE  d.tag \in Repeated
  BY <1>0, <1>2, <1>7 DEF Written
<1>8. ASSUME NEW i \in 1 .. N + 1, NEW j \in 1 .. N + 1,
             file'[i].tag = file'[j].tag, file'[i].up = file'[j].up, i # j
      PROVE  file'[i].tag \in Repeated
  <2>1. CASE i \in 1 .. N /\ j \in 1 .. N
    BY <1>3, <1>8, <2>1 DEF PlacedInv
  <2>2. CASE i = N + 1
    <3>1. j \in 1 .. N  BY <1>0, <1>8, <2>2
    <3>2. file'[i] = d /\ file'[j] = file[j]  BY <1>3, <2>2, <3>1
    <3> QED  BY <1>7, <1>8, <3>1, <3>2
  <2>3. CASE j = N + 1 /\ i \in 1 .. N
    <3>2. file'[j] = d /\ file'[i] = file[i]  BY <1>3, <2>3
    <3> QED  BY <1>7, <1>8, <2>3, <3>2
  <2> QED  BY <1>0, <2>1, <2>2, <2>3
<1> QED  BY <1>3, <1>6, <1>8 DEF PlacedInv

\* Linking gives nobody other children.
LEMMA LinkedChild ==
  ASSUME TypeInv, NEW k \in Nat, NEW n \in 1 .. Len(file)
  PROVE  Linked(k)[n].child = node[n].child
<1>1. n \in DOMAIN node /\ node[n] \in NodeIn(Len(file))  BY DEF TypeInv
<1>2. \/ Linked(k)[n] = node[n]
      \/ \E x : Linked(k)[n] = [node[n] EXCEPT !.friend = x]
  BY <1>1 DEF Linked, LinkedFrom
<1> QED  BY <1>1, <1>2 DEF NodeIn

LEMMA PlacedClosed ==
  ASSUME ReaderInv, size = Capacity, PlacedInv, ReadClose
  PROVE  PlacedInv'
<1> DEFINE N == Len(file)
<1>0. /\ TypeInv /\ RoomInv /\ BlocksInv /\ KindInv /\ StackInv /\ Gather /\ file' = file
      /\ phase = "read" /\ blocks # <<>>
  BY DEF ReaderInv, Typing, ReadClose
<1>1. N \in Nat /\ Len(node) = N /\ DOMAIN node = 1 .. N /\ Len(blocks) \in Nat
  BY <1>0 DEF TypeInv
<1>2. Len(stack) > 0 /\ stack[Len(stack)] # 0
  <2>1. Len(blocks) > 0  BY <1>0 DEF TypeInv
  <2>2. N > 0  BY <1>0, <1>1, <2>1 DEF TypeInv
  <2> QED  BY <1>0, <2>2 DEF RoomInv
<1>3. PICK k \in 0 .. Len(stack) :
        /\ k # 0 => stack[k] = 0 \/ node[stack[k]].kind = "parent"
        /\ IF k # 0 /\ stack[k] # 0
           THEN node' = [Linked(k) EXCEPT
                           ![stack[k]].kind = "child",
                           ![stack[k]].child = IF k = Len(stack) THEN 0
                                               ELSE stack[k + 1]]
           ELSE node' = Linked(k)
  BY <1>0, <1>2, GatherIs
<1>4. k \in Nat  BY <1>0 DEF TypeInv
<1>5. Linked(k) \in [1 .. N -> NodeIn(N)]  BY <1>0, <1>4, LinkedTypes
<1>6. ASSUME NEW i \in 1 .. N, ~IsBlock(file[i].tag) PROVE node'[i].child = node[i].child
  <2>1. Linked(k)[i].child = node[i].child  BY <1>0, <1>4, LinkedChild
  <2>2. CASE k # 0 /\ stack[k] # 0
    <3>1. k \in 1 .. Len(stack)  BY <1>4, <2>2
    <3>2. stack[k] \in 1 .. N  BY <1>0, <2>2, <3>1 DEF TypeInv
    <3>3. stack[k] \in Opened  BY <1>0, <1>3, <2>2, <3>2 DEF KindInv
    <3>4. stack[k] # i  BY <1>0, <1>6, <3>3 DEF Opened, BlocksInv
    <3>5. node'[i] = Linked(k)[i]  BY <1>3, <1>5, <2>2, <3>4
    <3> QED  BY <2>1, <3>5
  <2>3. CASE ~(k # 0 /\ stack[k] # 0)  BY <1>3, <2>1, <2>3
  <2> QED  BY <2>2, <2>3
<1> QED  BY <1>0, <1>6 DEF PlacedInv

LEMMA PlacedStep ==
  ASSUME ReaderInv, ReaderInv', size = Capacity => PlacedInv, [Next]_vars, size' = Capacity
  PROVE  size = Capacity /\ PlacedInv'
<1>0. /\ Len(stack) <= size + 1 /\ Typing
  BY DEF ReaderInv, Typing, RoomInv
<1>1. CASE \E tag \in Tags : ReadOpen(tag) \/ ReadLeaf(tag)
  <2>1. PICK tag \in Tags : ReadOpen(tag) \/ ReadLeaf(tag)  BY <1>1
  <2>2. Push(Len(node) + 1)  BY <2>1 DEF ReadOpen, ReadLeaf, NewNode
  <2>3. /\ Len(file) \in Nat /\ Len(node) = Len(file) /\ size \in Nat /\ size >= Capacity
        /\ stack \in Seq(0 .. Len(file))
    BY <1>0 DEF Typing, TypeInv, RoomInv
  <2>4. stack \in Seq(0 .. Len(node) + 1) /\ Len(node) + 1 \in Nat /\ Len(node) + 1 > 0
    BY <2>3, Wider
  <2>5. size = Capacity  BY <1>0, <2>2, <2>3, <2>4, Pushed
  <2> QED  BY <2>1, <2>5, PlacedAdded
<1>2. CASE ReadClose
  <2>1. size = Capacity  BY <1>2 DEF ReadClose
  <2> QED  BY <1>2, <2>1, PlacedClosed
<1>3. CASE EndOfFile \/ Walk \/ Finish \/ UNCHANGED vars
  <2>1. UNCHANGED <<file, node, size>>
    BY <1>3 DEF EndOfFile, Walk, Finish, vars, fileVars, stackVars
  <2>2. size = Capacity  BY <2>1
  <2>3. PlacedInv  BY <2>2
  <2>4. PlacedInv'  BY <2>1, <2>3 DEF PlacedInv
  <2> QED  BY <2>2, <2>4
<1> QED  BY <1>1, <1>2, <1>3 DEF Next
-----------------------------------------------------------------------------
(* The table of states, and the calls that are made of it.                 *)

Call(tag, n, config) == [tag |-> tag, node |-> n, config |-> config]

KidTags(tag) == Range(States(ChildStates, tag))
FriendTags(tag) == Range(States(FriendStates, tag))

LEMMA KidTagsAre ==
  ASSUME NEW tag, NEW t
  PROVE  t \in KidTags(tag) <=>
           \/ tag = "http" /\ t = "servers"
           \/ tag = "servers" /\ t \in {"listen", "location"}
           \/ tag = "location" /\ t \in {"root", "alias", "index", "strategy", "proxy"}
           \/ tag = "proxy" /\ t \in {"server", "strategy"}
<1>1. DOMAIN ChildStates = {"http", "servers", "location", "proxy"}  BY DEF ChildStates
<1>2. /\ ChildStates["http"] = <<"servers">>
      /\ ChildStates["servers"] = <<"listen", "location">>
      /\ ChildStates["location"] = <<"root", "alias", "index", "strategy", "proxy">>
      /\ ChildStates["proxy"] = <<"server", "strategy">>
  BY DEF ChildStates
<1>3. CASE tag \notin DOMAIN ChildStates
  BY <1>1, <1>3 DEF KidTags, States, Range
<1>4. CASE tag = "http"  BY <1>1, <1>2, <1>4 DEF KidTags, States, Range
<1>5. CASE tag = "servers"
  <2>1. KidTags(tag) = Range(<<"listen", "location">>)  BY <1>1, <1>2, <1>5 DEF KidTags, States
  <2>2. DOMAIN <<"listen", "location">> = {1, 2}  OBVIOUS
  <2> QED  BY <1>5, <2>1, <2>2 DEF Range
<1>6. CASE tag = "location"
  <2> DEFINE s == <<"root", "alias", "index", "strategy", "proxy">>
  <2>1. KidTags(tag) = Range(s)  BY <1>1, <1>2, <1>6 DEF KidTags, States
  <2>2. /\ DOMAIN s = {1, 2, 3, 4, 5}
        /\ s[1] = "root" /\ s[2] = "alias" /\ s[3] = "index" /\ s[4] = "strategy"
        /\ s[5] = "proxy"
    OBVIOUS
  <2> HIDE DEF s
  <2> QED  BY <1>6, <2>1, <2>2 DEF Range
<1>7. CASE tag = "proxy"
  <2>1. KidTags(tag) = Range(<<"server", "strategy">>)  BY <1>1, <1>2, <1>7 DEF KidTags, States
  <2>2. DOMAIN <<"server", "strategy">> = {1, 2}  OBVIOUS
  <2> QED  BY <1>7, <2>1, <2>2 DEF Range
<1> QED  BY <1>1, <1>3, <1>4, <1>5, <1>6, <1>7

LEMMA FriendTagsAre ==
  ASSUME NEW tag, NEW t
  PROVE  t \in FriendTags(tag) <=>
           \/ tag = "servers" /\ t = "servers"
           \/ tag = "location" /\ t \in {"location", "listen"}
           \/ tag \in {"listen", "server"} /\ t = "server"
           \/ tag \in {"root", "alias"} /\ t = "index"
           \/ tag = "index" /\ t \in {"root", "alias"}
           \/ tag = "strategy" /\ t = "proxy"
<1>1. DOMAIN FriendStates
        = {"servers", "location", "listen", "root", "alias", "index", "strategy", "server"}
  BY DEF FriendStates
<1>2. /\ FriendStates["servers"] = <<"servers">>
      /\ FriendStates["location"] = <<"location", "listen">>
      /\ FriendStates["listen"] = <<"server">>
      /\ FriendStates["root"] = <<"index">> /\ FriendStates["alias"] = <<"index">>
  BY DEF FriendStates
<1>3. /\ FriendStates["index"] = <<"root", "alias">>
      /\ FriendStates["strategy"] = <<"proxy">>
      /\ FriendStates["server"] = <<"server">>
  BY DEF FriendStates
<1>4. CASE tag \notin DOMAIN FriendStates
  BY <1>1, <1>4 DEF FriendTags, States, Range
<1>5. CASE tag = "location"
  <2>1. FriendTags(tag) = Range(<<"location", "listen">>)
    BY <1>1, <1>2, <1>5 DEF FriendTags, States
  <2>2. DOMAIN <<"location", "listen">> = {1, 2}  OBVIOUS
  <2> QED  BY <1>5, <2>1, <2>2 DEF Range
<1>6. CASE tag = "index"
  <2>1. FriendTags(tag) = Range(<<"root", "alias">>)
    BY <1>1, <1>3, <1>6 DEF FriendTags, States
  <2>2. DOMAIN <<"root", "alias">> = {1, 2}  OBVIOUS
  <2> QED  BY <1>6, <2>1, <2>2 DEF Range
<1>7. ASSUME tag \in {"servers", "listen", "root", "alias", "strategy", "server"}
      PROVE  \E x : FriendTags(tag) = Range(<<x>>) /\ FriendStates[tag] = <<x>>
  BY <1>1, <1>2, <1>3, <1>7 DEF FriendTags, States
<1>8. CASE tag \in {"servers", "listen", "root", "alias", "strategy", "server"}
  <2>1. PICK x : FriendTags(tag) = Range(<<x>>) /\ FriendStates[tag] = <<x>>  BY <1>7, <1>8
  <2>2. x = <<x>>[1] /\ DOMAIN <<x>> = {1}  OBVIOUS
  <2>3. FriendTags(tag) = {x}  BY <2>1, <2>2 DEF Range
  <2> QED  BY <1>2, <1>3, <1>8, <2>1, <2>2, <2>3
<1> QED  BY <1>1, <1>4, <1>5, <1>6, <1>8

\* No state comes twice in a list of the table.
LEMMA NoStateTwice ==
  ASSUME NEW tag,
         NEW s \in {States(ChildStates, tag), States(FriendStates, tag)},
         NEW i \in 1 .. Len(s), NEW j \in 1 .. Len(s), s[i] = s[j]
  PROVE  i = j
<1>1. \/ s = <<>>
      \/ s \in {<<"servers">>, <<"server">>, <<"index">>, <<"proxy">>}
      \/ s \in {<<"listen", "location">>, <<"server", "strategy">>,
                <<"location", "listen">>, <<"root", "alias">>}
      \/ s = <<"root", "alias", "index", "strategy", "proxy">>
  <2>1. DOMAIN ChildStates = {"http", "servers", "location", "proxy"}  BY DEF ChildStates
  <2>2. /\ ChildStates["http"] = <<"servers">>
        /\ ChildStates["servers"] = <<"listen", "location">>
        /\ ChildStates["location"] = <<"root", "alias", "index", "strategy", "proxy">>
        /\ ChildStates["proxy"] = <<"server", "strategy">>
    BY DEF ChildStates
  <2>3. DOMAIN FriendStates
        = {"servers", "location", "listen", "root", "alias", "index", "strategy", "server"}
    BY DEF FriendStates
  <2>4. /\ FriendStates["servers"] = <<"servers">>
        /\ FriendStates["location"] = <<"location", "listen">>
        /\ FriendStates["listen"] = <<"server">>
        /\ FriendStates["root"] = <<"index">> /\ FriendStates["alias"] = <<"index">>
    BY DEF FriendStates
  <2>5. /\ FriendStates["index"] = <<"root", "alias">>
        /\ FriendStates["strategy"] = <<"proxy">>
        /\ FriendStates["server"] = <<"server">>
    BY DEF FriendStates
  <2>6. CASE s = States(ChildStates, tag)  BY <2>1, <2>2, <2>6 DEF States
  <2>7. CASE s = States(FriendStates, tag)  BY <2>3, <2>4, <2>5, <2>7 DEF States
  <2> QED  BY <2>6, <2>7
<1>2. CASE s = <<"root", "alias", "index", "strategy", "proxy">>
  <2>1. /\ Len(s) = 5 /\ s[1] = "root" /\ s[2] = "alias" /\ s[3] = "index"
        /\ s[4] = "strategy" /\ s[5] = "proxy"
    BY <1>2
  <2> QED  BY <2>1
<1>3. CASE s \in {<<"listen", "location">>, <<"server", "strategy">>,
                  <<"location", "listen">>, <<"root", "alias">>}
  <2>1. Len(s) = 2 /\ s[1] # s[2]  BY <1>3
  <2> QED  BY <2>1
<1>4. CASE s = <<>> \/ s \in {<<"servers">>, <<"server">>, <<"index">>, <<"proxy">>}
  <2>1. Len(s) = 0 \/ Len(s) = 1  BY <1>4
  <2> QED  BY <2>1
<1> QED  BY <1>1, <1>2, <1>3, <1>4

\* The calls for one node.
LEMMA CallsAre ==
  ASSUME NEW tags \in Seq(Tags), NEW n, NEW config
  PROVE  /\ Calls(tags, n, config) \in Seq({Call(t, n, config) : t \in Range(tags)})
         /\ Len(Calls(tags, n, config)) = Len(tags)
         /\ \A i \in 1 .. Len(tags) : Calls(tags, n, config)[i] = Call(tags[i], n, config)
<1>1. Len(tags) \in Nat /\ DOMAIN tags = 1 .. Len(tags)  OBVIOUS
<1> DEFINE K == {Call(t, n, config) : t \in Range(tags)}
<1>2. \A i \in 1 .. Len(tags) : Call(tags[i], n, config) \in K  BY <1>1 DEF Range
<1>3. Calls(tags, n, config) = [i \in 1 .. Len(tags) |-> Call(tags[i], n, config)]
  BY <1>1 DEF Calls, Call
<1>4. Calls(tags, n, config) \in [1 .. Len(tags) -> K]  BY <1>2, <1>3
<1> HIDE DEF K
<1>5. Calls(tags, n, config) \in Seq(K) /\ Len(Calls(tags, n, config)) = Len(tags)
  BY <1>1, <1>4, AsSeq
<1> QED  BY <1>3, <1>5 DEF K
-----------------------------------------------------------------------------
(* One call of generate_proxy_config.                                      *)

LEMMA Joined ==
  ASSUME NEW S, NEW a \in Seq(S), NEW b \in Seq(S), NEW r \in Seq(S),
         NEW t, t = a \o b \o r
  PROVE  /\ Len(t) = Len(a) + Len(b) + Len(r) /\ t \in Seq(S)
         /\ \A k \in 1 .. Len(a) : t[k] = a[k]
         /\ \A k \in 1 .. Len(b) : t[Len(a) + k] = b[k]
         /\ \A k \in 1 .. Len(r) : t[Len(a) + Len(b) + k] = r[k]
<1> DEFINE u == a \o b
<1>1. Len(a) \in Nat /\ Len(b) \in Nat /\ Len(r) \in Nat  OBVIOUS
<1>2. /\ u \in Seq(S) /\ Len(u) = Len(a) + Len(b)
      /\ \A k \in 1 .. Len(a) + Len(b) : u[k] = IF k <= Len(a) THEN a[k] ELSE b[k - Len(a)]
  BY ConcatProperties
<1>3. t = u \o r  OBVIOUS
<1> HIDE DEF u
<1>4. /\ t \in Seq(S) /\ Len(t) = Len(u) + Len(r)
      /\ \A k \in 1 .. Len(u) + Len(r) : t[k] = IF k <= Len(u) THEN u[k] ELSE r[k - Len(u)]
  <2>1. /\ u \o r \in Seq(S) /\ Len(u \o r) = Len(u) + Len(r)
        /\ \A k \in 1 .. Len(u) + Len(r) :
             (u \o r)[k] = IF k <= Len(u) THEN u[k] ELSE r[k - Len(u)]
    <3>1. u \in Seq(S)  BY <1>2
    <3> QED  BY <3>1, ConcatProperties, Zenon
  <2> QED  BY <1>3, <2>1, Zenon
<1>5. ASSUME NEW k \in 1 .. Len(a) PROVE t[k] = a[k]
  <2>1. k \in 1 .. Len(a) + Len(b) /\ k <= Len(a)  BY <1>1
  <2>2. k \in 1 .. Len(u) + Len(r) /\ k <= Len(u)  BY <1>1, <1>2
  <2> QED  BY <1>2, <1>4, <2>1, <2>2
<1>6. ASSUME NEW k \in 1 .. Len(b) PROVE t[Len(a) + k] = b[k]
  <2>1. Len(a) + k \in 1 .. Len(a) + Len(b) /\ ~(Len(a) + k <= Len(a))
        /\ Len(a) + k - Len(a) = k
    BY <1>1
  <2>2. Len(a) + k \in 1 .. Len(u) + Len(r) /\ Len(a) + k <= Len(u)  BY <1>1, <1>2
  <2> QED  BY <1>2, <1>4, <2>1, <2>2
<1>7. ASSUME NEW k \in 1 .. Len(r) PROVE t[Len(a) + Len(b) + k] = r[k]
  <2>1. /\ Len(u) + k \in 1 .. Len(u) + Len(r) /\ ~(Len(u) + k <= Len(u))
        /\ Len(u) + k - Len(u) = k
    BY <1>1, <1>2
  <2> QED  BY <1>2, <1>4, <2>1
<1>8. Len(t) = Len(a) + Len(b) + Len(r)  BY <1>1, <1>2, <1>4
<1> QED  BY <1>4, <1>5, <1>6, <1>7, <1>8

\* The call that is made next, and those it leaves to be made.
Current == todo[1]
Hit == Matches(Current.tag, Current.node)
Result == IF Hit THEN Returned(Current, Len(log) + 1) ELSE NoConfig
KidCalls == {Call(t, node[Current.node].child, Result) : t \in KidTags(Current.tag)}
FriendCalls == {Call(t, node[Current.node].friend, Current.config) :
                  t \in FriendTags(Current.tag)}
Rest == {todo[k] : k \in 2 .. Len(todo)}

LEMMA WalkedOver ==
  ASSUME Typing, Walk, Current.node = 0
  PROVE  /\ phase' = phase /\ log' = log /\ Len(todo) \in Nat \ {0}
         /\ Len(todo') = Len(todo) - 1
         /\ \A k \in 1 .. Len(todo') : k + 1 \in 2 .. Len(todo) /\ todo'[k] = todo[k + 1]
<1>1. todo \in Seq(CallIn(Len(file), Len(log))) /\ todo # <<>>
  BY DEF Typing, TypeInv, Walk
<1>2. Head(todo) = Current /\ Len(todo) \in Nat \ {0}  BY <1>1 DEF Current
<1>3. phase' = phase /\ log' = log /\ todo' = Tail(todo)  BY <1>2 DEF Walk
<1>4. /\ Len(Tail(todo)) = Len(todo) - 1
      /\ \A k \in 1 .. Len(Tail(todo)) : Tail(todo)[k] = todo[k + 1]
  BY <1>1, HeadTailProperties
<1>5. \A k \in 1 .. Len(todo) - 1 : k + 1 \in 2 .. Len(todo)  BY <1>2
<1> QED  BY <1>2, <1>3, <1>4, <1>5

LEMMA WalkedTo ==
  ASSUME Typing, Walk, Current.node # 0
  PROVE  /\ log' = IF Hit THEN Append(log, Current) ELSE log
         /\ phase' = IF Hit /\ Current.config = NoConfig THEN "crash" ELSE phase
         /\ Range(todo') = KidCalls \cup FriendCalls \cup Rest
         /\ \A k, l \in 1 .. Len(todo') : k < l =>
              \/ todo'[k] \in KidCalls /\ todo'[l] \in KidCalls /\ todo'[k].tag # todo'[l].tag
              \/ todo'[k] \in FriendCalls /\ todo'[l] \in FriendCalls
                 /\ todo'[k].tag # todo'[l].tag
              \/ todo'[k] \in KidCalls /\ todo'[l] \in FriendCalls
              \/ todo'[k] \in KidCalls \cup FriendCalls /\ todo'[l] \in Rest
              \/ \E i, j \in 2 .. Len(todo) :
                   i < j /\ todo'[k] = todo[i] /\ todo'[l] = todo[j]
<1> DEFINE c == Current
           kids == States(ChildStates, c.tag)
           friends == States(FriendStates, c.tag)
           a == Calls(kids, node[c.node].child, Result)
           b == Calls(friends, node[c.node].friend, c.config)
           r == Tail(todo)
           C == CallIn(Len(file), Len(log))
           S == KidCalls \cup FriendCalls \cup C
           A == Len(a)
           B == Len(b)
           R == Len(r)
<1>1. todo \in Seq(C) /\ todo # <<>>  BY DEF Typing, TypeInv, Walk
<1>2. Head(todo) = c /\ Len(todo) \in Nat \ {0} /\ c \in C  BY <1>1 DEF Current
<1>3. /\ log' = IF Hit THEN Append(log, c) ELSE log
      /\ phase' = IF Hit /\ c.config = NoConfig THEN "crash" ELSE phase
      /\ todo' = a \o b \o r
  BY <1>2 DEF Walk, Hit, Result
<1>4. c.tag \in Tags  BY <1>2 DEF CallIn
<1>5. kids \in Seq(Tags) /\ friends \in Seq(Tags)  BY <1>4, StatesTypes
<1>6. /\ a \in Seq(KidCalls) /\ A = Len(kids)
      /\ \A i \in 1 .. Len(kids) : a[i] = Call(kids[i], node[c.node].child, Result)
  <2>1. /\ a \in Seq({Call(t, node[c.node].child, Result) : t \in Range(kids)})
        /\ Len(a) = Len(kids)
        /\ \A i \in 1 .. Len(kids) : a[i] = Call(kids[i], node[c.node].child, Result)
    <3> HIDE DEF kids
    <3> QED  BY <1>5, CallsAre
  <2> QED  BY <2>1 DEF KidCalls, KidTags
<1>7. /\ b \in Seq(FriendCalls) /\ B = Len(friends)
      /\ \A i \in 1 .. Len(friends) : b[i] = Call(friends[i], node[c.node].friend, c.config)
  <2>1. /\ b \in Seq({Call(t, node[c.node].friend, c.config) : t \in Range(friends)})
        /\ Len(b) = Len(friends)
        /\ \A i \in 1 .. Len(friends) :
             b[i] = Call(friends[i], node[c.node].friend, c.config)
    <3> HIDE DEF friends
    <3> QED  BY <1>5, CallsAre
  <2> QED  BY <2>1 DEF FriendCalls, FriendTags
<1>8. /\ r \in Seq(C) /\ R = Len(todo) - 1
      /\ \A i \in 1 .. R : r[i] = todo[i + 1]
  BY <1>1, HeadTailProperties
<1>9. a \in Seq(S) /\ b \in Seq(S) /\ r \in Seq(S)
  <2>1. KidCalls \subseteq S /\ FriendCalls \subseteq S /\ C \subseteq S  OBVIOUS
  <2> HIDE DEF S, a, b, r, C
  <2> QED  BY <1>6, <1>7, <1>8, <2>1, SeqMonotonic
<1>10. A \in Nat /\ B \in Nat /\ R \in Nat  BY <1>6, <1>7, <1>8, LenProperties
<1>11. /\ \A i \in 1 .. A : /\ a[i] \in KidCalls
                            /\ \A j \in 1 .. A : i # j => a[i].tag # a[j].tag
       /\ \A x \in KidCalls : \E i \in 1 .. A : a[i] = x
  <2>1. \A i \in 1 .. A : a[i] \in KidCalls  BY <1>6
  <2>2. ASSUME NEW i \in 1 .. A, NEW j \in 1 .. A, i # j PROVE a[i].tag # a[j].tag
    <3>1. kids[i] # kids[j]
      <4>1. \A s \in {kids, friends} : \A x, y \in 1 .. Len(s) : s[x] = s[y] => x = y
        BY NoStateTwice
      <4> HIDE DEF kids, friends, a
      <4> QED  BY <1>6, <2>2, <4>1
    <3>2. a[i].tag = kids[i] /\ a[j].tag = kids[j]
      <4> HIDE DEF kids, friends, a
      <4>1. i \in 1 .. Len(kids) /\ j \in 1 .. Len(kids)  BY <1>6, <2>2
      <4>2. a[i] = Call(kids[i], node[c.node].child, Result)
            /\ a[j] = Call(kids[j], node[c.node].child, Result)
        BY <1>6, <4>1
      <4> QED  BY <4>2 DEF Call
    <3> QED  BY <3>1, <3>2
  <2>3. ASSUME NEW x \in KidCalls PROVE \E i \in 1 .. A : a[i] = x
    <3>1. PICK t \in KidTags(c.tag) : x = Call(t, node[c.node].child, Result)
      BY DEF KidCalls
    <3>2. PICK i \in 1 .. Len(kids) : kids[i] = t  BY <1>5 DEF KidTags, Range
    <3> QED  BY <1>6, <3>1, <3>2
  <2> QED  BY <2>1, <2>2, <2>3
<1>12. /\ \A i \in 1 .. B : /\ b[i] \in FriendCalls
                            /\ \A j \in 1 .. B : i # j => b[i].tag # b[j].tag
       /\ \A x \in FriendCalls : \E i \in 1 .. B : b[i] = x
  <2>1. \A i \in 1 .. B : b[i] \in FriendCalls  BY <1>7
  <2>2. ASSUME NEW i \in 1 .. B, NEW j \in 1 .. B, i # j PROVE b[i].tag # b[j].tag
    <3>1. friends[i] # friends[j]
      <4>1. \A s \in {kids, friends} : \A x, y \in 1 .. Len(s) : s[x] = s[y] => x = y
        BY NoStateTwice
      <4> HIDE DEF kids, friends, b
      <4> QED  BY <1>7, <2>2, <4>1
    <3>2. b[i].tag = friends[i] /\ b[j].tag = friends[j]
      <4> HIDE DEF kids, friends, b
      <4>1. i \in 1 .. Len(friends) /\ j \in 1 .. Len(friends)  BY <1>7, <2>2
      <4>2. b[i] = Call(friends[i], node[c.node].friend, c.config)
            /\ b[j] = Call(friends[j], node[c.node].friend, c.config)
        BY <1>7, <4>1
      <4> QED  BY <4>2 DEF Call
    <3> QED  BY <3>1, <3>2
  <2>3. ASSUME NEW x \in FriendCalls PROVE \E i \in 1 .. B : b[i] = x
    <3>1. PICK t \in FriendTags(c.tag) : x = Call(t, node[c.node].friend, c.config)
      BY DEF FriendCalls
    <3>2. PICK i \in 1 .. Len(friends) : friends[i] = t  BY <1>5 DEF FriendTags, Range
    <3> QED  BY <1>7, <3>1, <3>2
  <2> QED  BY <2>1, <2>2, <2>3
<1> HIDE DEF a, b, r, S, C, kids, friends, c
<1>13. /\ todo' \in Seq(S) /\ Len(todo') = A + B + R
       /\ \A i \in 1 .. A : todo'[i] = a[i]
       /\ \A i \in 1 .. B : todo'[A + i] = b[i]
       /\ \A i \in 1 .. R : todo'[A + B + i] = r[i]
  BY <1>3, <1>9, Joined
<1>14. \A i \in 1 .. R : i + 1 \in 2 .. Len(todo) /\ todo'[A + B + i] = todo[i + 1]
  BY <1>2, <1>8, <1>10, <1>13
\* Which of the three lists an entry is from, and where in it.
<1>15. ASSUME NEW k \in 1 .. Len(todo')
       PROVE  \/ k \in 1 .. A /\ todo'[k] = a[k]
              \/ k > A /\ \E i \in 1 .. B : k = A + i /\ todo'[k] = b[i]
              \/ k > A + B /\ \E i \in 2 .. Len(todo) : k = A + B + i - 1 /\ todo'[k] = todo[i]
  <2>1. CASE k <= A
    <3>1. k \in 1 .. A  BY <1>10, <1>13, <2>1
    <3> QED  BY <1>13, <3>1
  <2>2. CASE k > A /\ k <= A + B
    <3>1. k - A \in 1 .. B /\ k = A + (k - A)  BY <1>10, <1>13, <2>2
    <3> QED  BY <1>13, <2>2, <3>1
  <2>3. CASE k > A + B
    <3>1. k - (A + B) \in 1 .. R /\ k = A + B + (k - (A + B)) /\ k > A
      BY <1>10, <1>13, <2>3
    <3>2. PICK i \in 1 .. R : i = k - (A + B)  BY <3>1
    <3>3. i + 1 \in 2 .. Len(todo) /\ todo'[k] = todo[i + 1]
      BY <1>14, <3>1, <3>2
    <3>4. k = A + B + (i + 1) - 1  BY <1>10, <3>1, <3>2
    <3> QED  BY <2>3, <3>1, <3>3, <3>4
  <2> QED  BY <1>10, <1>13, <2>1, <2>2, <2>3
<1>16. Range(todo') = KidCalls \cup FriendCalls \cup Rest
  <2>0. DOMAIN todo' = 1 .. A + B + R  BY <1>10, <1>13
  <2>1. ASSUME NEW x \in Range(todo') PROVE x \in KidCalls \cup FriendCalls \cup Rest
    <3>1. PICK k \in 1 .. Len(todo') : todo'[k] = x  BY <1>13, <2>0 DEF Range
    <3> QED  BY <1>11, <1>12, <1>15, <3>1 DEF Rest
  <2>2. ASSUME NEW x \in KidCalls PROVE x \in Range(todo')
    <3>1. PICK i \in 1 .. A : a[i] = x  BY <1>11
    <3>2. i \in 1 .. A + B + R  BY <1>10
    <3> QED  BY <1>13, <2>0, <3>1, <3>2 DEF Range
  <2>3. ASSUME NEW x \in FriendCalls PROVE x \in Range(todo')
    <3>1. PICK i \in 1 .. B : b[i] = x  BY <1>12
    <3>2. A + i \in 1 .. A + B + R  BY <1>10
    <3> QED  BY <1>13, <2>0, <3>1, <3>2 DEF Range
  <2>4. ASSUME NEW x \in Rest PROVE x \in Range(todo')
    <3>1. PICK j \in 2 .. Len(todo) : todo[j] = x  BY DEF Rest
    <3>2. j - 1 \in 1 .. R /\ j - 1 + 1 = j  BY <1>2, <1>8
    <3>3. A + B + (j - 1) \in 1 .. A + B + R  BY <1>10, <3>2
    <3>4. todo'[A + B + (j - 1)] = x  BY <1>14, <3>1, <3>2
    <3> QED  BY <2>0, <3>3, <3>4 DEF Range
  <2> QED  BY <2>1, <2>2, <2>3, <2>4
<1>17. ASSUME NEW k \in 1 .. Len(todo'), NEW l \in 1 .. Len(todo'), k < l
       PROVE  \/ todo'[k] \in KidCalls /\ todo'[l] \in KidCalls /\ todo'[k].tag # todo'[l].tag
              \/ todo'[k] \in FriendCalls /\ todo'[l] \in FriendCalls
                 /\ todo'[k].tag # todo'[l].tag
              \/ todo'[k] \in KidCalls /\ todo'[l] \in FriendCalls
              \/ todo'[k] \in KidCalls \cup FriendCalls /\ todo'[l] \in Rest
              \/ \E i, j \in 2 .. Len(todo) :
                   i < j /\ todo'[k] = todo[i] /\ todo'[l] = todo[j]
  <2>1. k \in Nat /\ l \in Nat  BY <1>10, <1>13
  <2>2. CASE k \in 1 .. A /\ todo'[k] = a[k]
    <3>1. todo'[k] \in KidCalls  BY <1>11, <2>2
    <3>2. CASE l \in 1 .. A /\ todo'[l] = a[l]
      BY <1>11, <1>17, <2>1, <2>2, <3>2
    <3>3. CASE \E i \in 1 .. B : todo'[l] = b[i]  BY <1>12, <3>1, <3>3
    <3>4. CASE \E i \in 2 .. Len(todo) : todo'[l] = todo[i]  BY <3>1, <3>4 DEF Rest
    <3> QED  BY <1>15, <3>2, <3>3, <3>4
  <2>3. ASSUME NEW i \in 1 .. B, k = A + i, todo'[k] = b[i]
        PROVE  \/ todo'[k] \in FriendCalls /\ todo'[l] \in FriendCalls
                  /\ todo'[k].tag # todo'[l].tag
               \/ todo'[k] \in FriendCalls /\ todo'[l] \in Rest
    <3>1. todo'[k] \in FriendCalls /\ l > A  BY <1>10, <1>12, <1>17, <2>1, <2>3
    <3>2. ASSUME NEW j \in 1 .. B, l = A + j, todo'[l] = b[j]
          PROVE  todo'[l] \in FriendCalls /\ todo'[k].tag # todo'[l].tag
      <4>1. i # j  BY <1>17, <2>1, <2>3, <3>2
      <4> QED  BY <1>12, <2>3, <3>2, <4>1
    <3>3. CASE \E j \in 2 .. Len(todo) : todo'[l] = todo[j]  BY <3>1, <3>3 DEF Rest
    <3>4. l \notin 1 .. A  BY <1>10, <2>1, <3>1
    <3> QED  BY <1>15, <3>1, <3>2, <3>3, <3>4
  <2>4. ASSUME NEW i \in 2 .. Len(todo), k > A + B, k = A + B + i - 1, todo'[k] = todo[i]
        PROVE  \E j \in 2 .. Len(todo) : i < j /\ todo'[l] = todo[j]
    <3>1. l > A + B /\ l > A /\ i \in Nat  BY <1>10, <1>17, <2>1, <2>4
    <3>2. l \notin 1 .. A /\ \A j \in 1 .. B : l # A + j  BY <1>10, <2>1, <3>1
    <3>3. PICK j \in 2 .. Len(todo) : l = A + B + j - 1 /\ todo'[l] = todo[j]
      BY <1>15, <3>2
    <3>4. i < j  BY <1>10, <1>17, <2>1, <2>4, <3>3
    <3> QED  BY <3>3, <3>4
  <2> QED  BY <1>15, <2>2, <2>3, <2>4
<1> QED  BY <1>3, <1>16, <1>17 DEF c
-----------------------------------------------------------------------------
(* What is called for which directive.                                     *)

LEMMA InsideIs ==
  ASSUME NEW tag \in Tags, NEW t
  PROVE  /\ IsBlock(tag) <=> tag \in {"http", "servers", "location", "proxy"}
         /\ IsBlock(tag) =>
              (t \in Inside[tag] <=>
                 \/ tag = "http" /\ t = "servers"
                 \/ tag = "servers" /\ t \in {"listen", "location"}
                 \/ tag = "location" /\ t \in {"root", "alias", "index", "proxy"}
                 \/ tag = "proxy" /\ t \in {"strategy", "server"})
<1>1. DOMAIN Inside = {"top", "http", "servers", "location", "proxy"}  BY DEF Inside
<1>2. /\ Inside["http"] = {"servers"} /\ Inside["servers"] = {"listen", "location"}
      /\ Inside["location"] = {"root", "alias", "index", "proxy"}
      /\ Inside["proxy"] = {"strategy", "server"}
  BY DEF Inside
<1>3. tag # "top"  BY DEF Tags
<1> QED  BY <1>1, <1>2, <1>3 DEF IsBlock

\* The states that are tried on the directives of a block: those of the table for its
\* children, and for the friends of these.
Accepts(tag, t) ==
  \/ tag = "http" /\ t = "servers"
  \/ tag = "servers" /\ t \in {"listen", "location", "server"}
  \/ tag = "location" /\ t \in {"root", "alias", "index", "strategy", "proxy"}
  \/ tag = "proxy" /\ t \in {"server", "strategy", "proxy"}

RootCall == Call("http", 1, RootConfig)

\* A call is for http, or for a directive of a block and with the object that was
\* made for this block; server is not tried on the first directive of a servers block.
Fits(c, f, made) ==
  \/ c = RootCall
  \/ /\ c.config \in 1 .. Len(made) /\ c.node \in 1 .. Len(f) /\ f[c.node].up # 0
     /\ f[c.node].up = made[c.config].node
     /\ Accepts(made[c.config].tag, c.tag)
     /\ c.tag = "server" /\ made[c.config].tag = "servers" =>
          \E j \in 1 .. Len(f) : f[j].up = f[c.node].up /\ j < c.node

\* What was parsed was taken for what it is.
LogInv == \A i \in 1 .. Len(log) : /\ Fits(log[i], file, log)
                                   /\ log[i].tag = file[log[i].node].tag

TodoInv == \A k \in 1 .. Len(todo) : todo[k].node = 0 \/ Fits(todo[k], file, log)

\* The tree, when all of the file is read.
TreeKnown ==
  /\ 1 \in 1 .. Len(file) /\ file[1].tag = "http" /\ file[1].up = 0
  /\ \A i \in 1 .. Len(file) : file[i].up = 0 => i = 1
  /\ \A b \in 1 .. Len(file) : IsBlock(file[b].tag) => Follows(file, node[b].child, b, 0)
  /\ \A i \in 1 .. Len(file) :
       file[i].up # 0 => Follows(file, node[i].friend, file[i].up, i)

LEMMA TreeIs ==
  ASSUME ReaderInv, PlacedInv, size = Capacity, phase # "read"
  PROVE  TreeKnown
<1>0. /\ TypeInv /\ FileInv /\ TreeInv /\ blocks = <<>> /\ Len(file) > 0 /\ Len(file) \in Nat
  BY DEF ReaderInv, Typing, TypeInv, WalkInv
<1>1. Opened = {}  BY <1>0 DEF Opened
<1>2. \A i \in 1 .. Len(file) : file[i].up \in 0 .. Len(file)
  <2>1. \A i \in 1 .. Len(file) : file[i] \in ItemIn(Len(file))  BY <1>0 DEF TypeInv
  <2> QED  BY <2>1 DEF ItemIn
<1>3. 1 \in 1 .. Len(file)  BY <1>0
<1>4. file[1].up = 0 /\ file[1].tag = "http"  BY <1>0, <1>2, <1>3 DEF FileInv
<1>5. \A i \in 1 .. Len(file) : file[i].up = 0 => i = 1  BY <1>0 DEF FileInv
<1>6. ASSUME NEW i \in 1 .. Len(file), file[i].up # 0
      PROVE  Follows(file, node[i].friend, file[i].up, i)
  <2>1. file[i].up \in 1 .. Len(file) /\ IsBlock(file[file[i].up].tag)
    BY <1>0, <1>2, <1>6 DEF PlacedInv
  <2> QED  BY <1>0, <1>1, <2>1 DEF TreeInv
<1> QED  BY <1>0, <1>1, <1>3, <1>4, <1>5, <1>6 DEF TreeKnown, TreeInv

\* The block a call is made in.
LEMMA BlockIs ==
  ASSUME TypeInv, PlacedInv, LogInv, NEW c, Fits(c, file, log), c # RootCall
  PROVE  /\ c.node \in 1 .. Len(file) /\ file[c.node].up \in 1 .. Len(file)
         /\ file[c.node].tag \in Tags /\ file[file[c.node].up].tag \in Tags
         /\ c.config \in 1 .. Len(log) /\ file[c.node].up = log[c.config].node
         /\ file[file[c.node].up].tag = log[c.config].tag
         /\ IsBlock(file[file[c.node].up].tag)
         /\ file[c.node].tag \in Inside[file[file[c.node].up].tag]
         /\ Accepts(file[file[c.node].up].tag, c.tag)
<1>1. /\ c.config \in 1 .. Len(log) /\ c.node \in 1 .. Len(file) /\ file[c.node].up # 0
      /\ file[c.node].up = log[c.config].node
      /\ Accepts(log[c.config].tag, c.tag)
  BY DEF Fits
<1>2. log[c.config].tag = file[log[c.config].node].tag  BY <1>1 DEF LogInv
<1>3. \A i \in 1 .. Len(file) : file[i] \in ItemIn(Len(file))  BY DEF TypeInv
<1>4. file[c.node].up \in 1 .. Len(file) /\ file[c.node].tag \in Tags
  <2>1. file[c.node].up \in 0 .. Len(file) /\ file[c.node].tag \in Tags
    BY <1>1, <1>3 DEF ItemIn
  <2> QED  BY <1>1, <2>1
<1>5. file[file[c.node].up].tag \in Tags  BY <1>3, <1>4 DEF ItemIn
<1> QED  BY <1>1, <1>2, <1>4, <1>5 DEF PlacedInv

\* Every set of directives has a first.
LEMMA LeastIs ==
  ASSUME NEW n \in Nat, NEW S \in SUBSET (1 .. n), S # {}
  PROVE  \E m \in S : \A y \in S : m <= y
<1>1. S \subseteq Nat  OBVIOUS
<1>2. PICK m \in S : \A u \in S : ~(<<u, m>> \in OpToRel(<, Nat))
  BY <1>1, WFMin, NatLessThanWellFounded, Zenon
<1>3. \A u \in S : ~(u < m)  BY <1>1, <1>2, Zenon DEF OpToRel
<1> QED  BY <1>1, <1>3

\* A keyword is found in a directive just when it is the directive's own.
LEMMA HitIs ==
  ASSUME TypeInv, PlacedInv, TreeKnown, LogInv, WellNamed,
         NEW c, Fits(c, file, log)
  PROVE  Matches(c.tag, c.node) <=> c.tag = file[c.node].tag
<1>1. CASE c = RootCall
  <2>1. c.tag = "http" /\ c.node = 1  BY <1>1 DEF RootCall, Call
  <2> QED  BY <2>1 DEF Matches, Holds, TreeKnown
<1>2. CASE c # RootCall
  <2> DEFINE i == c.node
             P == file[file[i].up].tag
  <2>1. /\ i \in 1 .. Len(file) /\ file[i].up \in 1 .. Len(file) /\ file[i].tag \in Tags
        /\ P \in Tags /\ IsBlock(P) /\ file[i].tag \in Inside[P] /\ Accepts(P, c.tag)
        /\ P = log[c.config].tag
    BY <1>2, BlockIs
  <2>2. \/ P = "http" /\ file[i].tag = "servers"
        \/ P = "servers" /\ file[i].tag \in {"listen", "location"}
        \/ P = "location" /\ file[i].tag \in {"root", "alias", "index", "proxy"}
        \/ P = "proxy" /\ file[i].tag \in {"strategy", "server"}
    BY <2>1, InsideIs
  <2>3. Holds(c.tag, file[i].tag) <=> c.tag = file[i].tag
    BY <2>1, <2>2 DEF Accepts, Holds
  <2>4. file[i].tag # "location" => ~Holds(c.tag, file[i].word)
    <3>1. file[i].tag # "location" => file[i].word = "none"  BY <2>1 DEF PlacedInv
    <3>2. c.tag # "none"  BY <2>1 DEF Accepts
    <3> QED  BY <3>1, <3>2 DEF Holds
  <2>5. file[i].tag = "location" /\ Holds(c.tag, file[i].word) => c.tag = "location"
    <3> SUFFICES ASSUME file[i].tag = "location", Holds(c.tag, file[i].word), c.tag # "location"
                 PROVE  FALSE
      OBVIOUS
    <3>1. P = "servers" /\ c.tag \in {"listen", "server"}  BY <2>1, <2>2 DEF Accepts
    <3>2. ~Misread(i) /\ i \in Nat
      <4>1. DOMAIN file = 1 .. Len(file)  BY DEF TypeInv
      <4> QED  BY <2>1, <4>1 DEF WellNamed
    <3>3. c.tag # "listen"  BY <3>2 DEF Misread, Holds
    <3>4. c.tag = "server" /\ file[i].word \in {"server", "servers"}
      BY <3>1, <3>3 DEF Holds
    <3>5. PICK j \in 1 .. Len(file) : file[j].up = file[i].up /\ j < i
      BY <1>2, <2>1, <3>1, <3>4 DEF Fits
    <3>6. i = FirstOf(In(file[i].up))  BY <3>2, <3>4 DEF Misread
    <3>7. /\ In(file[i].up) \subseteq 1 .. Len(file) /\ j \in In(file[i].up)
          /\ Len(file) \in Nat
      BY <3>5 DEF In, TypeInv
    <3>8. \A y \in In(file[i].up) : i <= y
      <4> DEFINE S == In(file[i].up)
      <4>1. PICK m \in S : \A y \in S : m <= y  BY <3>7, LeastIs
      <4>2. FirstOf(S) = m
        <5>1. S \in SUBSET Int  BY <3>7
        <5> HIDE DEF S
        <5> QED  BY <4>1, <5>1, FirstIs
      <4> QED  BY <3>6, <4>1, <4>2
    <3> QED  BY <3>2, <3>5, <3>7, <3>8
  <2> QED  BY <2>3, <2>4, <2>5 DEF Matches
<1> QED  BY <1>1, <1>2
-----------------------------------------------------------------------------
(* Every parser is called for its own directive, with its own object.      *)

\* What the walk relies on.
Ready == Typing /\ PlacedInv /\ TreeKnown /\ LogInv /\ WellNamed

\* A call goes on to fit when more is parsed.
LEMMA FitsLater ==
  ASSUME NEW c, NEW f, NEW made, NEW more, Len(made) \in Nat, Len(more) \in Nat,
         Len(made) <= Len(more), \A i \in 1 .. Len(made) : more[i] = made[i],
         Fits(c, f, made)
  PROVE  Fits(c, f, more)
<1>1. CASE c = RootCall  BY <1>1 DEF Fits
<1>2. CASE c # RootCall
  <2>1. c.config \in 1 .. Len(made)  BY <1>2 DEF Fits
  <2>2. c.config \in 1 .. Len(more) /\ more[c.config] = made[c.config]  BY <2>1
  <2> QED  BY <1>2, <2>2 DEF Fits
<1> QED  BY <1>1, <1>2

LEMMA FitsNode ==
  ASSUME TreeKnown, NEW c, NEW made, Fits(c, file, made)
  PROVE  c.node \in 1 .. Len(file)
<1>1. c = RootCall => c.node = 1  BY DEF RootCall, Call
<1> QED  BY <1>1 DEF Fits, TreeKnown

\* What a call that fits leaves in the log.
LEMMA WalkedLog ==
  ASSUME Ready, Walk, Current.node # 0, Fits(Current, file, log)
  PROVE  /\ Hit <=> Current.tag = file[Current.node].tag
         /\ phase' = phase /\ Len(log) \in Nat
         /\ Len(log') = IF Hit THEN Len(log) + 1 ELSE Len(log)
         /\ \A i \in 1 .. Len(log) : log'[i] = log[i]
         /\ Hit => log'[Len(log) + 1] = Current
         /\ \A x : Fits(x, file, log) => Fits(x, file, log')
         /\ LogInv'
<1> DEFINE c == Current
           S == CallIn(Len(file), Len(log)) \cup LogIn(Len(file), Len(log))
<1>0. /\ Typing /\ TypeInv /\ PlacedInv /\ TreeKnown /\ LogInv /\ WellNamed
      /\ Len(log) \in Nat /\ file' = file
  BY DEF Ready, Typing, TypeInv, Walk, fileVars
<1>1. Hit <=> c.tag = file[c.node].tag  BY <1>0, HitIs DEF Hit
<1>2. c.config # NoConfig
  <2>1. c = RootCall => c.config = 0  BY DEF RootCall, Call, RootConfig
  <2> QED  BY <2>1 DEF Fits, NoConfig
<1>3. log' = (IF Hit THEN Append(log, c) ELSE log) /\ phase' = phase
  BY <1>0, <1>2, WalkedTo
<1>4. log \in Seq(S) /\ c \in S
  <2>1. log \in Seq(LogIn(Len(file), Len(log)))  BY <1>0 DEF TypeInv
  <2>2. todo \in Seq(CallIn(Len(file), Len(log))) /\ todo # <<>>  BY <1>0 DEF TypeInv, Walk
  <2>3. c \in CallIn(Len(file), Len(log))  BY <2>2 DEF Current
  <2>4. LogIn(Len(file), Len(log)) \subseteq S  OBVIOUS
  <2>5. Seq(LogIn(Len(file), Len(log))) \subseteq Seq(S)  BY <2>4, SeqMonotonic
  <2> QED  BY <2>1, <2>3, <2>5
<1> HIDE DEF S, c
<1>5. /\ Len(log') = IF Hit THEN Len(log) + 1 ELSE Len(log)
      /\ \A i \in 1 .. Len(log) : log'[i] = log[i]
      /\ Hit => log'[Len(log) + 1] = c
  BY <1>3, <1>4, Appended
<1>6. ASSUME NEW x, Fits(x, file, log) PROVE Fits(x, file, log')
  <2>1. PICK n : n = Len(log')  OBVIOUS
  <2>2. n \in Nat /\ Len(log) <= n  BY <1>0, <1>5, <2>1
  <2> QED  BY <1>0, <1>5, <1>6, <2>1, <2>2, FitsLater
<1>7. LogInv'
  <2>1. ASSUME NEW i \in 1 .. Len(log')
        PROVE  Fits(log'[i], file, log') /\ log'[i].tag = file[log'[i].node].tag
    <3>1. i \in 1 .. Len(log) \/ (Hit /\ i = Len(log) + 1)  BY <1>0, <1>5
    <3>2. CASE i \in 1 .. Len(log)
      <4>1. Fits(log[i], file, log) /\ log[i].tag = file[log[i].node].tag
        BY <1>0, <3>2 DEF LogInv
      <4> QED  BY <1>5, <1>6, <3>2, <4>1
    <3>3. CASE Hit /\ i = Len(log) + 1
      <4>1. log'[i] = Current  BY <1>5, <3>3 DEF c
      <4> QED  BY <1>1, <1>6, <3>3, <4>1 DEF c
    <3> QED  BY <3>1, <3>2, <3>3
  <2> QED  BY <1>0, <2>1 DEF LogInv
<1> QED  BY <1>0, <1>1, <1>3, <1>5, <1>6, <1>7 DEF c

\* A block is always found by the states that go on to its children.
LEMMA BlockIsHit ==
  ASSUME Ready, NEW c, Fits(c, file, log), NEW t \in KidTags(c.tag),
         IsBlock(file[c.node].tag)
  PROVE  c.tag = file[c.node].tag
<1>0. TypeInv /\ PlacedInv /\ TreeKnown /\ LogInv  BY DEF Ready, Typing
<1>1. CASE c = RootCall
  <2>1. c.tag = "http" /\ c.node = 1  BY <1>1 DEF RootCall, Call
  <2> QED  BY <1>0, <2>1 DEF TreeKnown
<1>2. CASE c # RootCall
  <2> DEFINE P == file[file[c.node].up].tag
             T == file[c.node].tag
  <2>1. P \in Tags /\ T \in Tags /\ IsBlock(P) /\ T \in Inside[P] /\ Accepts(P, c.tag)
    BY <1>0, <1>2, BlockIs
  <2>2. c.tag \in {"http", "servers", "location", "proxy"}  BY KidTagsAre
  <2>3. T \in {"http", "servers", "location", "proxy"}  BY <2>1, InsideIs
  <2>4. \/ P = "http" /\ T = "servers"
        \/ P = "servers" /\ T \in {"listen", "location"}
        \/ P = "location" /\ T \in {"root", "alias", "index", "proxy"}
        \/ P = "proxy" /\ T \in {"strategy", "server"}
    BY <2>1, InsideIs
  <2> QED  BY <2>1, <2>2, <2>3, <2>4 DEF Accepts
<1> QED  BY <1>1, <1>2

LEMMA KidsFit ==
  ASSUME Ready, Walk, Current.node # 0, Fits(Current, file, log), NEW x \in KidCalls
  PROVE  /\ x.node = 0 \/ Fits(x, file, log')
         /\ x.node # 0 => /\ Hit /\ x.config = Len(log) + 1
                          /\ file[x.node].up = Current.node
<1> DEFINE c == Current
<1>0. /\ TypeInv /\ PlacedInv /\ TreeKnown /\ LogInv
      /\ c.node \in 1 .. Len(file)
  BY FitsNode DEF Ready, Typing
<1>1. PICK t \in KidTags(c.tag) : x = Call(t, node[c.node].child, Result)  BY DEF KidCalls
<1>2. x.node = node[c.node].child /\ x.tag = t /\ x.config = Result  BY <1>1 DEF Call
<1> SUFFICES ASSUME x.node # 0
             PROVE  /\ Fits(x, file, log') /\ Hit /\ x.config = Len(log) + 1
                    /\ file[x.node].up = Current.node
  OBVIOUS
<1>3. IsBlock(file[c.node].tag)  BY <1>0, <1>2 DEF PlacedInv
<1>4. c.tag = file[c.node].tag  BY <1>1, <1>3, BlockIsHit
<1>5. /\ Hit /\ Len(log) \in Nat /\ Len(log') = Len(log) + 1
      /\ log'[Len(log) + 1] = Current
  BY <1>4, WalkedLog
<1>6. c.tag \in {"http", "servers", "location", "proxy"}  BY <1>1, KidTagsAre
<1>7. x.config = Len(log) + 1  BY <1>2, <1>5, <1>6 DEF Result, Returned
<1>8. Follows(file, x.node, c.node, 0)  BY <1>0, <1>2, <1>3 DEF TreeKnown
<1>9. x.node \in 1 .. Len(file) /\ file[x.node].up = c.node /\ c.node # 0
  BY <1>8 DEF Follows
<1>10. Accepts(c.tag, x.tag) /\ ~(x.tag = "server" /\ c.tag = "servers")
  <2>1. \/ c.tag = "http" /\ t = "servers"
        \/ c.tag = "servers" /\ t \in {"listen", "location"}
        \/ c.tag = "location" /\ t \in {"root", "alias", "index", "strategy", "proxy"}
        \/ c.tag = "proxy" /\ t \in {"server", "strategy"}
    BY <1>1, KidTagsAre
  <2> QED  BY <1>2, <2>1 DEF Accepts
<1>11. x.config \in 1 .. Len(log') /\ log'[x.config] = c
  <2>1. Len(log) + 1 \in 1 .. Len(log) + 1  BY <1>5
  <2> QED  BY <1>5, <1>7, <2>1
<1> QED  BY <1>5, <1>7, <1>9, <1>10, <1>11 DEF Fits

LEMMA FriendsFit ==
  ASSUME Ready, Walk, Current.node # 0, Fits(Current, file, log), NEW x \in FriendCalls
  PROVE  /\ x.node = 0 \/ Fits(x, file, log)
         /\ x.config = Current.config /\ x.tag \in FriendTags(Current.tag)
         /\ x.node # 0 => x.node > Current.node
<1> DEFINE c == Current
<1>0. /\ TypeInv /\ PlacedInv /\ TreeKnown /\ LogInv
      /\ c.node \in 1 .. Len(file)
  BY FitsNode DEF Ready, Typing
<1>1. PICK t \in FriendTags(c.tag) : x = Call(t, node[c.node].friend, c.config)
  BY DEF FriendCalls
<1>2. x.node = node[c.node].friend /\ x.tag = t /\ x.config = c.config  BY <1>1 DEF Call
<1> SUFFICES ASSUME x.node # 0
             PROVE  Fits(x, file, log) /\ x.node > c.node
  BY <1>1, <1>2
<1>3. \/ c.tag = "servers" /\ t = "servers"
      \/ c.tag = "location" /\ t \in {"location", "listen"}
      \/ c.tag \in {"listen", "server"} /\ t = "server"
      \/ c.tag \in {"root", "alias"} /\ t = "index"
      \/ c.tag = "index" /\ t \in {"root", "alias"}
      \/ c.tag = "strategy" /\ t = "proxy"
  BY <1>1, FriendTagsAre
<1>4. c # RootCall
  <2>1. RootCall.tag = "http"  BY DEF RootCall, Call
  <2> QED  BY <1>3, <2>1
<1>5. /\ c.config \in 1 .. Len(log) /\ file[c.node].up # 0
      /\ file[c.node].up = log[c.config].node
      /\ Accepts(log[c.config].tag, c.tag)
  BY <1>4 DEF Fits
<1>6. Follows(file, x.node, file[c.node].up, c.node)  BY <1>0, <1>2, <1>5 DEF TreeKnown
<1>7. x.node \in 1 .. Len(file) /\ file[x.node].up = file[c.node].up /\ x.node > c.node
  BY <1>6 DEF Follows
<1>8. Accepts(log[c.config].tag, t)  BY <1>3, <1>5 DEF Accepts
<1> QED  BY <1>0, <1>2, <1>5, <1>7, <1>8 DEF Fits

LEMMA TodoStep ==
  ASSUME Ready, TodoInv, Walk
  PROVE  TodoInv' /\ LogInv' /\ phase' = phase
<1>0. /\ Typing /\ LogInv /\ file' = file /\ Len(todo) \in Nat \ {0} /\ todo # <<>>
      /\ Len(todo') \in Nat /\ DOMAIN todo' = 1 .. Len(todo')
  <2>1. Typing'  BY TypingWalked DEF Ready
  <2>2. todo' \in Seq(CallIn(Len(file'), Len(log')))  BY <2>1 DEF Typing, TypeInv
  <2> QED  BY <2>2 DEF Ready, Typing, TypeInv, Walk, fileVars
<1>1. CASE Current.node = 0
  <2>1. /\ phase' = phase /\ log' = log
        /\ \A k \in 1 .. Len(todo') : k + 1 \in 2 .. Len(todo) /\ todo'[k] = todo[k + 1]
    BY <1>0, <1>1, WalkedOver
  <2>2. LogInv'  BY <1>0, <2>1 DEF LogInv
  <2>3. ASSUME NEW k \in 1 .. Len(todo') PROVE todo'[k].node = 0 \/ Fits(todo'[k], file, log)
    <3>1. k + 1 \in 1 .. Len(todo) /\ todo'[k] = todo[k + 1]  BY <1>0, <2>1
    <3> QED  BY <3>1 DEF TodoInv
  <2> QED  BY <1>0, <2>1, <2>2, <2>3 DEF TodoInv
<1>2. CASE Current.node # 0
  <2>1. Fits(Current, file, log)
    <3>1. 1 \in 1 .. Len(todo)  BY <1>0
    <3> QED  BY <1>2, <3>1 DEF TodoInv, Current
  <2>2. /\ phase' = phase /\ LogInv'
        /\ \A x : Fits(x, file, log) => Fits(x, file, log')
    BY <1>2, <2>1, WalkedLog
  <2>3. Range(todo') = KidCalls \cup FriendCalls \cup Rest  BY <1>0, <1>2, WalkedTo
  <2>4. ASSUME NEW x \in Rest PROVE x.node = 0 \/ Fits(x, file, log)
    <3>1. PICK k \in 2 .. Len(todo) : x = todo[k]  BY DEF Rest
    <3>2. k \in 1 .. Len(todo)  BY <1>0
    <3> QED  BY <3>1, <3>2 DEF TodoInv
  <2>5. ASSUME NEW k \in 1 .. Len(todo') PROVE todo'[k].node = 0 \/ Fits(todo'[k], file, log')
    <3>1. todo'[k] \in KidCalls \cup FriendCalls \cup Rest  BY <1>0, <2>3 DEF Range
    <3> QED  BY <1>2, <2>1, <2>2, <2>4, <3>1, KidsFit, FriendsFit
  <2> QED  BY <1>0, <2>2, <2>5 DEF TodoInv
<1> QED  BY <1>1, <1>2
-----------------------------------------------------------------------------
(* The order of the calls, and what has been called.                       *)

\* The first parser is that of http, and the walk does not end before it.
RootInv == /\ log # <<>> => log[1] = RootCall
           /\ phase = "done" => todo = <<>> /\ log # <<>>

\* Both calls append to one list: the servers blocks of http, or the locations of one
\* servers block.
OneList(a, b) == /\ a.tag = b.tag /\ a.tag \in {"servers", "location"}
                 /\ a.config = b.config

\* Each list is made in the order of the file, by one pending call at a time.
OrderInv ==
  /\ \A i, j \in 1 .. Len(log) :
       i < j /\ OneList(log[i], log[j]) => log[i].node < log[j].node
  /\ \A i \in 1 .. Len(log), k \in 1 .. Len(todo) :
       OneList(log[i], todo[k]) /\ todo[k].node # 0 => log[i].node < todo[k].node
  /\ \A k, l \in 1 .. Len(todo) : k < l => ~OneList(todo[k], todo[l])

\* Of the calls M that were made each that found its directive is in the log, and its
\* friend was or will be called for; and so were the children of what was parsed.
Explored(M, known, f, n, l) ==
  /\ RootCall \in known
  /\ \A i \in 1 .. Len(l) : n[l[i].node].child # 0 =>
       \A t \in KidTags(l[i].tag) : Call(t, n[l[i].node].child, i) \in known
  /\ \A c \in M : c.tag = f[c.node].tag => \E i \in 1 .. Len(l) : l[i] = c
  /\ \A c \in M : n[c.node].friend # 0 =>
       \A t \in FriendTags(c.tag) : Call(t, n[c.node].friend, c.config) \in known

HistoryInv == \E M : Explored(M, M \cup Range(todo), file, node, log)

\* The entries of the two lists, before and after a call.
LEMMA TodoIs ==
  ASSUME Typing, Walk
  PROVE  /\ todo \in Seq(CallIn(Len(file), Len(log))) /\ Len(todo) \in Nat \ {0}
         /\ DOMAIN todo = 1 .. Len(todo) /\ Current \in CallIn(Len(file), Len(log))
         /\ Len(log) \in Nat /\ 1 \in 1 .. Len(todo) /\ Range(todo) = Rest \cup {Current}
         /\ Len(todo') \in Nat /\ DOMAIN todo' = 1 .. Len(todo') /\ Len(log') \in Nat
         /\ file' = file /\ node' = node /\ size' = size
<1>1. /\ todo \in Seq(CallIn(Len(file), Len(log))) /\ todo # <<>> /\ Len(log) \in Nat
      /\ file' = file /\ node' = node /\ size' = size
  BY DEF Typing, TypeInv, Walk, fileVars, stackVars
<1>2. Len(todo) \in Nat \ {0} /\ DOMAIN todo = 1 .. Len(todo)  BY <1>1
<1>3. 1 \in 1 .. Len(todo) /\ \A k \in 1 .. Len(todo) : k = 1 \/ k \in 2 .. Len(todo)
  BY <1>2
<1>4. Current \in CallIn(Len(file), Len(log))  BY <1>1, <1>3 DEF Current
<1>5. Range(todo) = Rest \cup {Current}
  <2>1. \A k \in 2 .. Len(todo) : k \in 1 .. Len(todo)  BY <1>2
  <2> QED  BY <1>2, <1>3, <2>1 DEF Range, Rest, Current
<1>6. /\ Len(todo') \in Nat /\ DOMAIN todo' = 1 .. Len(todo') /\ Len(log') \in Nat
  <2>1. Typing'  BY TypingWalked
  <2> QED  BY <2>1 DEF Typing, TypeInv
<1> QED  BY <1>1, <1>2, <1>3, <1>4, <1>5, <1>6

LEMMA RootStep ==
  ASSUME Ready, WalkInv, TodoInv, RootInv, Walk
  PROVE  RootInv'
<1>0. Typing /\ phase = "walk" /\ phase' = phase  BY TodoStep DEF Ready, Walk
<1>1. log = <<>> => Current = RootCall
  <2>1. log = <<>> => todo = Calls(<<"http">>, 1, RootConfig)  BY <1>0 DEF WalkInv
  <2>2. Calls(<<"http">>, 1, RootConfig)[1] = RootCall  BY DEF Calls, RootCall, Call
  <2> QED  BY <2>1, <2>2 DEF Current
<1>2. log' # <<>> => log'[1] = RootCall
  <2>1. CASE Current.node = 0
    <3>1. log' = log  BY <1>0, <2>1, WalkedOver
    <3> QED  BY <3>1 DEF RootInv
  <2>2. CASE Current.node # 0
    <3>1. Fits(Current, file, log)
      <4>1. 1 \in 1 .. Len(todo)  BY <1>0, TodoIs
      <4> QED  BY <2>2, <4>1 DEF TodoInv, Current
    <3>2. log' = IF Hit THEN Append(log, Current) ELSE log  BY <1>0, <2>2, WalkedTo
    <3>3. /\ \A i \in 1 .. Len(log) : log'[i] = log[i]
          /\ Hit => log'[Len(log) + 1] = Current
      BY <2>2, <3>1, WalkedLog
    <3>4. CASE log = <<>>
      <4>1. Len(log) + 1 = 1  BY <3>4
      <4> QED  BY <1>1, <3>2, <3>3, <3>4, <4>1
    <3>5. CASE log # <<>>
      <4>1. log \in Seq(LogIn(Len(file), Len(log)))  BY <1>0 DEF Typing, TypeInv
      <4>2. 1 \in 1 .. Len(log)  BY <3>5, <4>1
      <4> QED  BY <3>3, <3>5, <4>2 DEF RootInv
    <3> QED  BY <3>4, <3>5
  <2> QED  BY <2>1, <2>2
<1> QED  BY <1>0, <1>2 DEF RootInv

\* The calls for the blocks that the lists are of always find them.
LEMMA ListHit ==
  ASSUME Ready, NEW c, Fits(c, file, log), c.tag \in {"http", "servers"}
  PROVE  c.tag = file[c.node].tag
<1>0. TypeInv /\ PlacedInv /\ TreeKnown /\ LogInv  BY DEF Ready, Typing
<1>1. CASE c = RootCall
  <2>1. c.tag = "http" /\ c.node = 1  BY <1>1 DEF RootCall, Call
  <2> QED  BY <1>0, <2>1 DEF TreeKnown
<1>2. CASE c # RootCall
  <2> DEFINE P == file[file[c.node].up].tag
  <2>1. P \in Tags /\ IsBlock(P) /\ file[c.node].tag \in Inside[P] /\ Accepts(P, c.tag)
    BY <1>0, <1>2, BlockIs
  <2>2. P = "http" /\ c.tag = "servers"  BY <2>1 DEF Accepts
  <2>3. file[c.node].tag = "servers"  BY <2>1, <2>2, InsideIs
  <2> QED  BY <2>2, <2>3
<1> QED  BY <1>1, <1>2

LEMMA OrderStep ==
  ASSUME Ready, TodoInv, OrderInv, Walk
  PROVE  OrderInv'
<1> DEFINE c == Current
           L == Len(log)
<1>0. /\ Typing /\ L \in Nat /\ Len(todo) \in Nat \ {0} /\ 1 \in 1 .. Len(todo)
      /\ todo \in Seq(CallIn(Len(file), L)) /\ c \in CallIn(Len(file), L)
      /\ DOMAIN todo' = 1 .. Len(todo')
  BY TodoIs DEF Ready
<1>1. CASE c.node = 0
  <2>1. log' = log /\ \A k \in 1 .. Len(todo') : k + 1 \in 2 .. Len(todo) /\ todo'[k] = todo[k + 1]
    BY <1>0, <1>1, WalkedOver
  <2>2. Len(todo') \in Nat  BY <1>0, TodoIs
  <2>3. ASSUME NEW k \in 1 .. Len(todo')
        PROVE  k + 1 \in 1 .. Len(todo) /\ todo'[k] = todo[k + 1] /\ k \in Nat
    BY <1>0, <2>1, <2>2
  <2>4. ASSUME NEW k \in 1 .. Len(todo'), NEW l \in 1 .. Len(todo'), k < l
        PROVE  ~OneList(todo'[k], todo'[l])
    <3>1. k + 1 < l + 1  BY <2>3, <2>4
    <3> QED  BY <2>3, <3>1 DEF OrderInv
  <2>5. ASSUME NEW i \in 1 .. Len(log), NEW k \in 1 .. Len(todo'),
               OneList(log[i], todo'[k]), todo'[k].node # 0
        PROVE  log[i].node < todo'[k].node
    BY <2>3, <2>5 DEF OrderInv
  <2>6. \A i, j \in 1 .. L : i < j /\ OneList(log[i], log[j]) => log[i].node < log[j].node
    BY DEF OrderInv
  <2> QED  BY <2>1, <2>4, <2>5, <2>6 DEF OrderInv
<1>2. CASE c.node # 0
  <2>1. Fits(c, file, log)  BY <1>0, <1>2 DEF TodoInv, Current
  <2>2. /\ Hit <=> c.tag = file[c.node].tag
        /\ Len(log') = IF Hit THEN L + 1 ELSE L
        /\ \A i \in 1 .. L : log'[i] = log[i]
        /\ Hit => log'[L + 1] = c
    BY <1>2, <2>1, WalkedLog
  <2>3. /\ Range(todo') = KidCalls \cup FriendCalls \cup Rest
        /\ \A k, l \in 1 .. Len(todo') : k < l =>
              \/ todo'[k] \in KidCalls /\ todo'[l] \in KidCalls /\ todo'[k].tag # todo'[l].tag
              \/ todo'[k] \in FriendCalls /\ todo'[l] \in FriendCalls
                 /\ todo'[k].tag # todo'[l].tag
              \/ todo'[k] \in KidCalls /\ todo'[l] \in FriendCalls
              \/ todo'[k] \in KidCalls \cup FriendCalls /\ todo'[l] \in Rest
              \/ \E i, j \in 2 .. Len(todo) :
                   i < j /\ todo'[k] = todo[i] /\ todo'[l] = todo[j]
    BY <1>0, <1>2, WalkedTo
  \* A child goes to a new list.
  <2>4. ASSUME NEW x \in KidCalls, x.tag \in {"servers", "location"}
        PROVE  x.config = L + 1
    <3>1. PICK t \in KidTags(c.tag) : x = Call(t, node[c.node].child, Result)
      BY DEF KidCalls
    <3>2. x.tag = t /\ x.config = Result  BY <3>1 DEF Call
    <3>3. c.tag \in {"http", "servers"}  BY <2>4, <3>1, <3>2, KidTagsAre
    <3>4. Hit  BY <2>1, <2>2, <3>3, ListHit
    <3> QED  BY <3>2, <3>3, <3>4 DEF Result, Returned
  \* All others go to lists that were there.
  <2>5. ASSUME NEW x \in FriendCalls PROVE x.config = c.config /\ x.tag \in FriendTags(c.tag)
    BY <1>2, <2>1, FriendsFit
  <2>6. c.config <= L /\ c.config \in Int  BY <1>0 DEF CallIn
  <2>7. ASSUME NEW x \in Rest
        PROVE  /\ x.config <= L /\ x.config \in Int /\ ~OneList(c, x)
               /\ \E k \in 1 .. Len(todo) : x = todo[k]
    <3>1. PICK k \in 2 .. Len(todo) : x = todo[k]  BY DEF Rest
    <3>2. k \in 1 .. Len(todo) /\ 1 < k  BY <1>0
    <3>3. x \in CallIn(Len(file), L)  BY <1>0, <3>1, <3>2
    <3>4. ~OneList(todo[1], todo[k])  BY <1>0, <3>2 DEF OrderInv
    <3> QED  BY <3>1, <3>2, <3>3, <3>4 DEF CallIn, Current
  <2>8. ASSUME NEW i \in 1 .. L PROVE log[i].config <= L /\ log[i].config \in Int
    <3>1. log[i] \in LogIn(Len(file), L)  BY <1>0 DEF Typing, TypeInv
    <3> QED  BY <1>0, <3>1 DEF LogIn
  \* A friend takes the place of the call itself.
  <2>9. ASSUME NEW x \in FriendCalls, x.tag \in {"servers", "location"}
        PROVE  x.tag = c.tag /\ x.config = c.config
    BY <2>5, <2>9, FriendTagsAre
  <2>10. ASSUME NEW x \in KidCalls, NEW y, y.config <= L, y.config \in Int
         PROVE  ~OneList(x, y) /\ ~OneList(y, x)
    BY <1>0, <2>4, <2>10 DEF OneList
  <2>11. ASSUME NEW k \in 1 .. Len(todo'), NEW l \in 1 .. Len(todo'), k < l,
                OneList(todo'[k], todo'[l])
         PROVE  FALSE
    <3>1. CASE todo'[k].tag # todo'[l].tag  BY <2>11, <3>1 DEF OneList
    <3>2. CASE todo'[k] \in KidCalls /\ todo'[l] \in FriendCalls
      BY <2>5, <2>6, <2>10, <2>11, <3>2
    <3>3. CASE todo'[k] \in KidCalls /\ todo'[l] \in Rest
      BY <2>7, <2>10, <2>11, <3>3
    <3>4. CASE todo'[k] \in FriendCalls /\ todo'[l] \in Rest
      <4>1. OneList(c, todo'[l])  BY <2>9, <2>11, <3>4 DEF OneList
      <4> QED  BY <2>7, <3>4, <4>1
    <3>5. CASE \E i, j \in 2 .. Len(todo) : i < j /\ todo'[k] = todo[i] /\ todo'[l] = todo[j]
      <4>1. PICK i \in 2 .. Len(todo), j \in 2 .. Len(todo) :
              i < j /\ todo'[k] = todo[i] /\ todo'[l] = todo[j]
        BY <3>5
      <4>2. i \in 1 .. Len(todo) /\ j \in 1 .. Len(todo)  BY <1>0
      <4> QED  BY <2>11, <4>1, <4>2 DEF OrderInv
    <3> QED  BY <2>3, <2>11, <3>1, <3>2, <3>3, <3>4, <3>5
  <2>12. ASSUME NEW i \in 1 .. L, OneList(log[i], c) PROVE log[i].node < c.node
    BY <1>0, <1>2, <2>12 DEF OrderInv, Current
  \* What is logged comes before what is pending.
  <2>13. ASSUME NEW i \in 1 .. L, NEW x \in KidCalls \cup FriendCalls \cup Rest,
                OneList(log[i], x), x.node # 0
         PROVE  log[i].node < x.node
    <3>1. x \notin KidCalls  BY <2>8, <2>10, <2>13
    <3>2. CASE x \in FriendCalls
      <4>1. OneList(log[i], c)  BY <2>9, <2>13, <3>2 DEF OneList
      <4>2. log[i].node < c.node /\ x.node > c.node
        BY <1>2, <2>1, <2>12, <2>13, <3>2, <4>1, FriendsFit
      <4>3. log[i].node \in Int /\ c.node \in Int /\ x.node \in Int
        <5>1. log[i] \in LogIn(Len(file), L)  BY <1>0 DEF Typing, TypeInv
        <5>2. Fits(x, file, log)  BY <1>2, <2>1, <2>13, <3>2, FriendsFit
        <5>3. x.node \in 1 .. Len(file) /\ c.node \in 1 .. Len(file)
          BY <2>1, <5>2, FitsNode DEF Ready
        <5> QED  BY <5>1, <5>3 DEF LogIn
      <4> QED  BY <4>2, <4>3
    <3>3. CASE x \in Rest  BY <2>7, <2>13, <3>3 DEF OrderInv
    <3> QED  BY <2>13, <3>1, <3>2, <3>3
  <2>14. ASSUME Hit, NEW x \in KidCalls \cup FriendCalls \cup Rest, OneList(c, x), x.node # 0
         PROVE  c.node < x.node
    <3>1. x \notin KidCalls  BY <2>6, <2>10, <2>14
    <3>2. x \notin Rest  BY <2>7, <2>14
    <3>3. x.node > c.node  BY <1>2, <2>1, <2>14, <3>1, <3>2, FriendsFit
    <3>4. x.node \in Int /\ c.node \in Int
      <4>1. Fits(x, file, log)  BY <1>2, <2>1, <2>14, <3>1, <3>2, FriendsFit
      <4>2. x.node \in 1 .. Len(file) /\ c.node \in 1 .. Len(file)
        BY <2>1, <4>1, FitsNode DEF Ready
      <4> QED  BY <4>2
    <3> QED  BY <3>3, <3>4
  <2>15. ASSUME NEW i \in 1 .. Len(log'), NEW k \in 1 .. Len(todo'),
                OneList(log'[i], todo'[k]), todo'[k].node # 0
         PROVE  log'[i].node < todo'[k].node
    <3>1. todo'[k] \in KidCalls \cup FriendCalls \cup Rest  BY <1>0, <2>3 DEF Range
    <3>2. i \in 1 .. L \/ (Hit /\ i = L + 1)  BY <1>0, <2>2
    <3> QED  BY <2>2, <2>13, <2>14, <2>15, <3>1, <3>2
  <2>16. ASSUME NEW i \in 1 .. Len(log'), NEW j \in 1 .. Len(log'), i < j,
                OneList(log'[i], log'[j])
         PROVE  log'[i].node < log'[j].node
    <3>1. i \in 1 .. L /\ (j \in 1 .. L \/ (Hit /\ j = L + 1))  BY <1>0, <2>2, <2>16
    <3>2. CASE j \in 1 .. L  BY <2>2, <2>16, <3>1, <3>2 DEF OrderInv
    <3>3. CASE Hit /\ j = L + 1  BY <2>2, <2>12, <2>16, <3>1, <3>3
    <3> QED  BY <3>1, <3>2, <3>3
  <2> QED  BY <2>11, <2>15, <2>16 DEF OrderInv
<1> QED  BY <1>1, <1>2

LEMMA HistoryStep ==
  ASSUME Ready, TodoInv, HistoryInv, Walk
  PROVE  HistoryInv'
<1> DEFINE c == Current
           L == Len(log)
<1>0. /\ Typing /\ L \in Nat /\ 1 \in 1 .. Len(todo) /\ file' = file /\ node' = node
      /\ DOMAIN todo' = 1 .. Len(todo') /\ Range(todo) = Rest \cup {c}
      /\ Len(todo) \in Nat \ {0} /\ Len(todo') \in Nat
  BY TodoIs DEF Ready
<1>1. PICK M : Explored(M, M \cup Range(todo), file, node, log)  BY DEF HistoryInv
<1>2. RootCall.node = 1  BY DEF RootCall, Call
<1>3. CASE c.node = 0
  <2>1. /\ log' = log /\ Len(todo') = Len(todo) - 1
        /\ \A k \in 1 .. Len(todo') : k + 1 \in 2 .. Len(todo) /\ todo'[k] = todo[k + 1]
    BY <1>0, <1>3, WalkedOver
  <2>2. Rest \subseteq Range(todo')
    <3> SUFFICES ASSUME NEW k \in 2 .. Len(todo) PROVE todo[k] \in Range(todo')
      BY DEF Rest
    <3>1. k - 1 \in 1 .. Len(todo') /\ k - 1 + 1 = k  BY <1>0, <2>1
    <3>2. todo'[k - 1] = todo[k]  BY <2>1, <3>1
    <3> QED  BY <1>0, <3>1, <3>2 DEF Range
  <2>3. \A x \in M \cup Range(todo) : x.node # 0 => x \in M \cup Range(todo')
    BY <1>0, <1>3, <2>2
  <2>4. \A t, n, config : n # 0 /\ Call(t, n, config) \in M \cup Range(todo)
                            => Call(t, n, config) \in M \cup Range(todo')
    <3>1. \A t, n, config : Call(t, n, config).node = n  BY DEF Call
    <3> QED  BY <2>3, <3>1
  <2>5. Explored(M, M \cup Range(todo'), file, node, log)
    <3> DEFINE K == M \cup Range(todo)
               W == M \cup Range(todo')
    <3>1. Explored(M, K, file, node, log)  BY <1>1
    <3>2. RootCall \in W
      <4>1. RootCall \in K  BY <3>1 DEF Explored
      <4> QED  BY <1>2, <2>3, <4>1
    <3>3. \A t, n, config : n # 0 /\ Call(t, n, config) \in K => Call(t, n, config) \in W
      BY <2>4
    <3> HIDE DEF K, W
    <3>4. Explored(M, W, file, node, log)  BY <3>1, <3>2, <3>3 DEF Explored
    <3> QED  BY <3>4 DEF W
  <2> QED  BY <1>0, <2>1, <2>5 DEF HistoryInv
<1>4. CASE c.node # 0
  <2> DEFINE new == M \cup {c} \cup KidCalls \cup FriendCalls \cup Rest
  <2>1. Fits(c, file, log)  BY <1>0, <1>4 DEF TodoInv, Current
  <2>2. /\ Hit <=> c.tag = file[c.node].tag
        /\ Len(log') = IF Hit THEN L + 1 ELSE L
        /\ \A i \in 1 .. L : log'[i] = log[i]
        /\ Hit => log'[L + 1] = c
    BY <1>4, <2>1, WalkedLog
  <2>3. Range(todo') = KidCalls \cup FriendCalls \cup Rest  BY <1>0, <1>4, WalkedTo
  <2>4. M \cup Range(todo) \subseteq new  BY <1>0
  <2>5. ASSUME NEW i \in 1 .. Len(log'), node[log'[i].node].child # 0,
               NEW t \in KidTags(log'[i].tag)
        PROVE  Call(t, node[log'[i].node].child, i) \in new
    <3>1. i \in 1 .. L \/ (Hit /\ i = L + 1)  BY <1>0, <2>2
    <3>2. CASE i \in 1 .. L
      BY <1>1, <2>2, <2>4, <2>5, <3>2 DEF Explored
    <3>3. CASE Hit /\ i = L + 1
      <4>1. log'[i] = c  BY <2>2, <3>3
      <4> DEFINE x == Call(t, node[c.node].child, Result)
      <4>2. x \in KidCalls /\ x.node = node[c.node].child /\ x.config = Result
        BY <2>5, <4>1 DEF KidCalls, Call
      <4>3. Result = L + 1  BY <1>4, <2>1, <2>5, <4>1, <4>2, KidsFit
      <4> QED  BY <3>3, <4>1, <4>2, <4>3
    <3> QED  BY <3>1, <3>2, <3>3
  <2>6. ASSUME NEW x \in M \cup {c}, x.tag = file[x.node].tag
        PROVE  \E i \in 1 .. Len(log') : log'[i] = x
    <3>1. CASE x \in M
      <4>1. PICK i \in 1 .. L : log[i] = x  BY <1>1, <2>6, <3>1 DEF Explored
      <4>2. i \in 1 .. Len(log')  BY <1>0, <2>2
      <4> QED  BY <2>2, <4>1, <4>2
    <3>2. CASE x = c
      <4>1. Hit /\ L + 1 \in 1 .. Len(log')  BY <1>0, <2>2, <2>6, <3>2
      <4> QED  BY <2>2, <3>2, <4>1
    <3> QED  BY <3>1, <3>2
  <2>7. ASSUME NEW x \in M \cup {c}, node[x.node].friend # 0, NEW t \in FriendTags(x.tag)
        PROVE  Call(t, node[x.node].friend, x.config) \in new
    <3>1. CASE x \in M  BY <1>1, <2>4, <2>7, <3>1 DEF Explored
    <3>2. CASE x = c  BY <2>7, <3>2 DEF FriendCalls
    <3> QED  BY <3>1, <3>2
  <2>8. RootCall \in new  BY <1>1, <2>4 DEF Explored
  <2>9. Explored(M \cup {c}, new, file, node, log')
    <3> HIDE DEF new
    <3> QED  BY <2>5, <2>6, <2>7, <2>8 DEF Explored
  <2>10. new = (M \cup {c}) \cup Range(todo')  BY <2>3
  <2>11. Explored(M \cup {c}, (M \cup {c}) \cup Range(todo'), file, node, log')
    <3> HIDE DEF new
    <3> QED  BY <2>9, <2>10
  <2> QED  BY <1>0, <2>11 DEF HistoryInv
<1> QED  BY <1>3, <1>4
-----------------------------------------------------------------------------
(* The inductive invariant.                                                *)

WalkedInv ==
  phase # "crash" /\ TodoInv /\ LogInv /\ OrderInv /\ RootInv /\ HistoryInv

LoadInv ==
  /\ ReaderInv
  /\ size = Capacity => PlacedInv
  /\ size = Capacity /\ WellNamed /\ phase # "read" => WalkedInv

LEMMA LoadInit == Init => LoadInv
<1> SUFFICES ASSUME Init PROVE LoadInv  OBVIOUS
<1>1. file = <<>> /\ phase = "read"  BY DEF Init
<1>2. PlacedInv  BY <1>1 DEF PlacedInv
<1> QED  BY <1>1, <1>2, ReaderInit DEF LoadInv

\* The walk begins with the call for http, and nothing parsed.
LEMMA WalkBegins ==
  ASSUME phase' = "walk", log' = <<>>, todo' = Calls(<<"http">>, 1, RootConfig)
  PROVE  WalkedInv'
<1>1. todo' = <<RootCall>>
  <2>1. DOMAIN <<"http">> = {1} /\ <<"http">>[1] = "http"  OBVIOUS
  <2>2. Calls(<<"http">>, 1, RootConfig) = [i \in {1} |-> RootCall]
    BY <2>1 DEF Calls, RootCall, Call
  <2>3. [i \in {1} |-> RootCall] = <<RootCall>>  OBVIOUS
  <2> QED  BY <2>2, <2>3
<1>2. Len(todo') = 1 /\ todo'[1] = RootCall /\ Len(log') = 0 /\ DOMAIN todo' = {1}
  BY <1>1
<1>3. TodoInv'  BY <1>2 DEF TodoInv, Fits
<1>4. LogInv'  BY <1>2 DEF LogInv
<1>5. OrderInv'  BY <1>2 DEF OrderInv
<1>6. RootInv'  BY DEF RootInv
<1>7. HistoryInv'
  <2>1. RootCall \in {} \cup Range(todo')  BY <1>2 DEF Range
  <2>2. Explored({}, {} \cup Range(todo'), file', node', log')
    BY <1>2, <2>1 DEF Explored
  <2> QED  BY <2>2 DEF HistoryInv
<1> QED  BY <1>3, <1>4, <1>5, <1>6, <1>7 DEF WalkedInv

LEMMA LoadWalked ==
  ASSUME LoadInv, Walk, size = Capacity, WellNamed
  PROVE  WalkedInv'
<1>1. /\ ReaderInv /\ PlacedInv /\ WalkedInv /\ phase = "walk"
  BY DEF LoadInv, Walk
<1>2. TreeKnown  BY <1>1, TreeIs
<1>3. Ready /\ WalkInv  BY <1>1, <1>2 DEF Ready, ReaderInv, WalkedInv
<1>4. TodoInv' /\ LogInv' /\ phase' = phase  BY <1>1, <1>3, TodoStep DEF WalkedInv
<1>5. OrderInv'  BY <1>1, <1>3, OrderStep DEF WalkedInv
<1>6. RootInv'  BY <1>1, <1>3, RootStep DEF WalkedInv
<1>7. HistoryInv'  BY <1>1, <1>3, HistoryStep DEF WalkedInv
<1> QED  BY <1>1, <1>4, <1>5, <1>6, <1>7 DEF WalkedInv

LEMMA LoadStep == LoadInv /\ [Next]_vars => LoadInv'
<1> SUFFICES ASSUME LoadInv, [Next]_vars PROVE LoadInv'  OBVIOUS
<1>1. ReaderInv /\ ReaderInv' /\ (size = Capacity => PlacedInv)
  BY ReaderStep DEF LoadInv
<1>2. size' = Capacity => size = Capacity /\ PlacedInv'  BY <1>1, PlacedStep
<1>3. ASSUME size' = Capacity, WellNamed', phase' # "read" PROVE WalkedInv'
  <2>1. size = Capacity  BY <1>2, <1>3
  <2>2. CASE \/ \E tag \in Tags : ReadOpen(tag) \/ ReadLeaf(tag)
             \/ ReadClose
    <3>1. phase' = "read"  BY <2>2 DEF ReadOpen, ReadLeaf, Directive, ReadClose
    <3> QED  BY <1>3, <3>1
  <2>3. CASE EndOfFile
    <3>1. phase = "read" /\ phase' = "walk" /\ log' = log  BY <2>3 DEF EndOfFile
    <3>2. WalkInv /\ WalkInv' /\ TypeInv'
      BY <1>1, <1>3, <2>1 DEF ReaderInv, Typing
    <3>3. log' = <<>>  BY <3>1, <3>2 DEF WalkInv
    <3>4. todo' = Calls(<<"http">>, 1, RootConfig)  BY <3>1, <3>2, <3>3 DEF WalkInv
    <3> QED  BY <3>1, <3>3, <3>4, WalkBegins
  <2>4. CASE Walk
    <3>1. file' = file  BY <2>4 DEF Walk, fileVars
    <3>2. WellNamed  BY <1>3, <3>1 DEF WellNamed, Misread, In
    <3> QED  BY <2>1, <2>4, <3>2, LoadWalked
  <2>5. CASE Finish \/ UNCHANGED vars
    <3>1. UNCHANGED <<file, node, todo, log>>
      BY <2>5 DEF Finish, vars, fileVars, stackVars
    <3>2. /\ phase # "read"
          /\ phase' # "crash" \/ phase = "crash"
          /\ phase' = "done" => phase = "done" \/ (todo = <<>> /\ phase = "walk")
      <4>1. UNCHANGED vars => phase' = phase  BY DEF vars
      <4>2. Finish => phase = "walk" /\ phase' = "done" /\ todo = <<>>  BY DEF Finish
      <4>3. CASE UNCHANGED vars
        <5>1. phase' = phase  BY <4>1, <4>3
        <5> QED  BY <1>3, <5>1
      <4>4. CASE Finish  BY <4>2, <4>4
      <4> QED  BY <2>5, <4>3, <4>4
    <3>3. WellNamed  BY <1>3, <3>1 DEF WellNamed, Misread, In
    <3>4. WalkedInv  BY <2>1, <3>2, <3>3 DEF LoadInv
    <3>5. TodoInv' /\ LogInv' /\ OrderInv'
      BY <3>1, <3>4 DEF WalkedInv, TodoInv, LogInv, OrderInv
    <3>6. HistoryInv'  BY <3>1, <3>4 DEF WalkedInv, HistoryInv
    <3>7. todo = <<>> /\ phase = "walk" => log # <<>>
      <4>1. WalkInv  BY <1>1, <2>1 DEF ReaderInv
      <4>2. Calls(<<"http">>, 1, RootConfig) # <<>>
        <5>1. DOMAIN <<"http">> = {1} /\ DOMAIN <<>> = {}  OBVIOUS
        <5> QED  BY <5>1 DEF Calls
      <4> QED  BY <4>1, <4>2 DEF WalkInv
    <3>8. RootInv'  BY <3>1, <3>2, <3>4, <3>7 DEF WalkedInv, RootInv
    <3> QED  BY <3>2, <3>4, <3>5, <3>6, <3>8 DEF WalkedInv
  <2> QED  BY <2>2, <2>3, <2>4, <2>5 DEF Next
<1> QED  BY <1>1, <1>2, <1>3 DEF LoadInv

\* From the first directive to the last call of a parser the tree, the pending calls
\* and the log belong together, for as long as the stack has its first size.
THEOREM LoadInvariant == Spec => []LoadInv
BY LoadInit, LoadStep, PTL DEF Spec

LEMMA LoadGivesConfig == LoadInv => ParsersGetTheirConfig
<1> SUFFICES ASSUME LoadInv, size = Capacity, WellNamed
             PROVE  /\ phase # "crash"
                    /\ \A i \in DOMAIN log :
                         IF log[i].config = RootConfig
                         THEN log[i].tag = "http" /\ file[log[i].node].up = 0
                         ELSE /\ file[log[i].node].up = log[log[i].config].node
                              /\ log[i].tag \in Inside[log[log[i].config].tag]
  BY DEF ParsersGetTheirConfig
<1>0. ReaderInv /\ PlacedInv /\ TypeInv /\ WalkInv /\ DOMAIN log = 1 .. Len(log)
  BY DEF LoadInv, ReaderInv, Typing, TypeInv
<1>1. CASE phase = "read"
  <2>1. log = <<>>  BY <1>0, <1>1 DEF WalkInv
  <2> QED  BY <1>1, <2>1
<1>2. CASE phase # "read"
  <2>1. WalkedInv  BY <1>2 DEF LoadInv
  <2>2. LogInv /\ phase # "crash"  BY <2>1 DEF WalkedInv
  <2>3. TreeKnown  BY <1>0, <1>2, TreeIs
  <2>4. ASSUME NEW i \in DOMAIN log
        PROVE  IF log[i].config = RootConfig
               THEN log[i].tag = "http" /\ file[log[i].node].up = 0
               ELSE /\ file[log[i].node].up = log[log[i].config].node
                    /\ log[i].tag \in Inside[log[log[i].config].tag]
    <3>1. Fits(log[i], file, log) /\ log[i].tag = file[log[i].node].tag
      BY <1>0, <2>2 DEF LogInv
    <3>2. CASE log[i] = RootCall
      <4>1. /\ log[i].tag = "http" /\ log[i].node = 1 /\ log[i].config = RootConfig
        BY <3>2 DEF RootCall, Call
      <4> QED  BY <2>3, <4>1 DEF TreeKnown
    <3>3. CASE log[i] # RootCall
      <4> DEFINE c == log[i]
      <4>1. /\ c.config \in 1 .. Len(log) /\ file[c.node].up = log[c.config].node
            /\ file[file[c.node].up].tag = log[c.config].tag
            /\ file[c.node].tag \in Inside[file[file[c.node].up].tag]
        <5> HIDE DEF c
        <5> QED  BY <1>0, <2>2, <3>1, <3>3, BlockIs DEF c
      <4>2. c.config # RootConfig  BY <4>1 DEF RootConfig
      <4> QED  BY <3>1, <4>1, <4>2
    <3> QED  BY <3>2, <3>3
  <2> QED  BY <2>2, <2>4
<1> QED  BY <1>1, <1>2

\* No parser gets NULL, and each gets the object of the block its directive is in.
THEOREM EveryParserGetsItsConfig == Spec => []ParsersGetTheirConfig
BY LoadInit, LoadStep, LoadGivesConfig, PTL DEF Spec
-----------------------------------------------------------------------------
(* What is loaded.                                                         *)

\* The directives of a block are its first one and the friends of these.
LEMMA ChainIs ==
  ASSUME TypeInv, TreeKnown, NEW b \in 1 .. Len(file), IsBlock(file[b].tag), NEW Q,
         node[b].child # 0 => node[b].child \in Q,
         \A i \in 1 .. Len(file) :
           file[i].up = b /\ i \in Q /\ node[i].friend # 0 => node[i].friend \in Q
  PROVE  \A i \in 1 .. Len(file) : file[i].up = b => i \in Q
<1> DEFINE N == Len(file)
           Lost == {i \in 1 .. N : file[i].up = b /\ i \notin Q}
<1>0. N \in Nat /\ b # 0  BY DEF TypeInv
<1> SUFFICES ASSUME Lost # {} PROVE FALSE  OBVIOUS
<1>1. PICK m \in Lost : \A y \in Lost : m <= y
  <2>1. Lost \in SUBSET (1 .. N)  OBVIOUS
  <2> HIDE DEF Lost
  <2> QED  BY <1>0, <2>1, LeastIs
<1>2. m \in 1 .. N /\ file[m].up = b /\ m \notin Q /\ m > 0  BY <1>0
<1> DEFINE x == node[b].child
           Earlier == {i \in 1 .. N : file[i].up = b /\ i < m}
<1>3. Follows(file, x, b, 0)  BY DEF TreeKnown
<1>4. x \in 1 .. N /\ file[x].up = b /\ x <= m  BY <1>2, <1>3 DEF Follows
<1>5. x \in Earlier  BY <1>0, <1>2, <1>4
<1> DEFINE p == Max(Earlier)
<1>6. p \in Earlier /\ \A y \in Earlier : p >= y
  <2>1. Earlier \in SUBSET (1 .. N)  OBVIOUS
  <2> HIDE DEF Earlier
  <2> QED  BY <1>0, <1>5, <2>1, MaxExists
<1> HIDE DEF p
<1>7. p \in 1 .. N /\ file[p].up = b /\ p < m  BY <1>6
<1>8. p \in Q
  <2>1. p \in Lost => m <= p  BY <1>1
  <2> QED  BY <1>0, <1>2, <1>7, <2>1
<1> DEFINE f == node[p].friend
<1>9. Follows(file, f, b, p)  BY <1>0, <1>7 DEF TreeKnown
<1>10. f \in 1 .. N /\ file[f].up = b /\ f > p /\ f <= m
  BY <1>2, <1>7, <1>9 DEF Follows
<1>11. f \in Q  BY <1>0, <1>7, <1>8, <1>10
<1>12. f = m
  <2>1. f \in Earlier => p >= f  BY <1>6
  <2> QED  BY <1>0, <1>2, <1>7, <1>10, <2>1
<1> QED  BY <1>2, <1>11, <1>12

\* When all the calls are made.
ExploredBy(M) == Explored(M, M, file, node, log)

LEMMA LoadedIs ==
  ASSUME LoadInv, Loaded
  PROVE  /\ Ready /\ OrderInv /\ Len(log) \in Nat /\ 1 \in 1 .. Len(log) /\ log[1] = RootCall
         /\ DOMAIN log = 1 .. Len(log) /\ DOMAIN file = 1 .. Len(file)
         /\ \E M : ExploredBy(M)
<1>1. /\ ReaderInv /\ PlacedInv /\ WalkedInv /\ WellNamed /\ phase = "done"
      /\ size = Capacity
  BY DEF LoadInv, Loaded
<1>2. TreeKnown  BY <1>1, TreeIs
<1>3. Ready /\ OrderInv  BY <1>1, <1>2 DEF Ready, WalkedInv, ReaderInv
<1>4. todo = <<>> /\ log # <<>> /\ log[1] = RootCall  BY <1>1 DEF WalkedInv, RootInv
<1>5. /\ log \in Seq(LogIn(Len(file), Len(log))) /\ file \in Seq(ItemIn(Len(file)))
  BY <1>3 DEF Ready, Typing, TypeInv
<1>6. /\ Len(log) \in Nat /\ 1 \in 1 .. Len(log) /\ DOMAIN log = 1 .. Len(log)
      /\ DOMAIN file = 1 .. Len(file)
  BY <1>4, <1>5
<1>7. PICK M : Explored(M, M \cup Range(todo), file, node, log)
  BY <1>1 DEF WalkedInv, HistoryInv
<1>8. M \cup Range(todo) = M  BY <1>4 DEF Range
<1>9. ExploredBy(M)  BY <1>7, <1>8 DEF ExploredBy
<1> QED  BY <1>3, <1>4, <1>6, <1>9

\* States that are tried first and, each behind one of them, on every friend are tried
\* on every directive of a block.
LEMMA AllTried ==
  ASSUME Ready, NEW M, ExploredBy(M), NEW l \in 1 .. Len(log), IsBlock(log[l].tag),
         NEW tried \in SUBSET KidTags(log[l].tag),
         \A t \in tried : \E u \in tried : t \in FriendTags(u),
         NEW n \in 1 .. Len(file), file[n].up = log[l].node, NEW tag \in tried
  PROVE  Call(tag, n, l) \in M
<1> DEFINE b == log[l].node
           Q == {i \in 1 .. Len(file) : \A t \in tried : Call(t, i, l) \in M}
<1>0. TypeInv /\ TreeKnown /\ LogInv /\ Explored(M, M, file, node, log)
  BY DEF Ready, Typing, ExploredBy
<1>1. b \in 1 .. Len(file) /\ IsBlock(file[b].tag)
  <2>1. Fits(log[l], file, log) /\ log[l].tag = file[b].tag  BY <1>0 DEF LogInv
  <2> QED  BY <1>0, <2>1, FitsNode
<1>2. ASSUME node[b].child # 0 PROVE node[b].child \in Q
  <2>1. \A t \in tried : Call(t, node[b].child, l) \in M  BY <1>0, <1>2 DEF Explored
  <2>2. Follows(file, node[b].child, b, 0)  BY <1>0, <1>1 DEF TreeKnown
  <2>3. node[b].child \in 1 .. Len(file)  BY <1>2, <2>2 DEF Follows
  <2> QED  BY <2>1, <2>3
<1>3. ASSUME NEW i \in 1 .. Len(file), file[i].up = b, i \in Q, node[i].friend # 0
      PROVE  node[i].friend \in Q
  <2>1. ASSUME NEW t \in tried PROVE Call(t, node[i].friend, l) \in M
    <3>1. PICK u \in tried : t \in FriendTags(u)  OBVIOUS
    <3>2. Call(u, i, l) \in M  BY <1>3
    <3>3. Call(u, i, l).tag = u /\ Call(u, i, l).node = i /\ Call(u, i, l).config = l
      BY DEF Call
    <3>4. \A c \in M : node[c.node].friend # 0 =>
            \A v \in FriendTags(c.tag) : Call(v, node[c.node].friend, c.config) \in M
      BY <1>0 DEF Explored
    <3> QED  BY <1>3, <3>1, <3>2, <3>3, <3>4
  <2>2. b # 0  BY <1>1
  <2>3. Follows(file, node[i].friend, b, i)  BY <1>0, <1>3, <2>2 DEF TreeKnown
  <2>4. node[i].friend \in 1 .. Len(file)  BY <1>3, <2>3 DEF Follows
  <2> QED  BY <2>1, <2>4
<1> HIDE DEF Q
<1>4. n \in Q  BY <1>0, <1>1, <1>2, <1>3, ChainIs
<1> QED  BY <1>4 DEF Q

\* What a parser was called for is of its kind, and in the block of its object.
LEMMA MadeIs ==
  ASSUME Ready, NEW l \in 1 .. Len(log), NEW i \in 1 .. Len(log), log[i].config = l
  PROVE  /\ log[i].node \in 1 .. Len(file) /\ log[i].tag = file[log[i].node].tag
         /\ file[log[i].node].up = log[l].node /\ log[l].tag \in Tags
         /\ log[i].tag \in Inside[log[l].tag] /\ IsBlock(log[l].tag)
<1>0. TypeInv /\ PlacedInv /\ LogInv /\ TreeKnown  BY DEF Ready, Typing
<1> DEFINE c == log[i]
<1>1. Fits(c, file, log) /\ c.tag = file[c.node].tag  BY <1>0 DEF LogInv
<1>2. c # RootCall
  <2>1. Len(log) \in Nat  BY <1>0 DEF TypeInv
  <2>2. RootCall.config = 0  BY DEF RootCall, Call, RootConfig
  <2> QED  BY <2>1, <2>2
<1> HIDE DEF c
<1>3. /\ c.node \in 1 .. Len(file) /\ file[c.node].up = log[c.config].node
      /\ file[file[c.node].up].tag = log[c.config].tag
      /\ file[file[c.node].up].tag \in Tags
      /\ IsBlock(file[file[c.node].up].tag)
      /\ file[c.node].tag \in Inside[file[file[c.node].up].tag]
  BY <1>0, <1>1, <1>2, BlockIs
<1> QED  BY <1>1, <1>3 DEF c

\* So all of them are parsed.
LEMMA AllMade ==
  ASSUME Ready, DOMAIN log = 1 .. Len(log), DOMAIN file = 1 .. Len(file),
         NEW M, ExploredBy(M), NEW l \in 1 .. Len(log), IsBlock(log[l].tag),
         NEW tried \in SUBSET KidTags(log[l].tag),
         \A t \in tried : \E u \in tried : t \in FriendTags(u),
         NEW tag \in tried
  PROVE  NodesOf(Made(tag, l)) = Written(tag, log[l].node)
<1>1. ASSUME NEW n \in NodesOf(Made(tag, l)) PROVE n \in Written(tag, log[l].node)
  <2>1. PICK i \in Made(tag, l) : n = log[i].node  BY DEF NodesOf
  <2>2. i \in 1 .. Len(log) /\ log[i].tag = tag /\ log[i].config = l
    BY <2>1 DEF Made, MadeBy
  <2> QED  BY <2>1, <2>2, MadeIs DEF Written
<1>2. ASSUME NEW n \in Written(tag, log[l].node) PROVE n \in NodesOf(Made(tag, l))
  <2>1. n \in 1 .. Len(file) /\ file[n].up = log[l].node /\ file[n].tag = tag
    BY <1>2 DEF Written
  <2>2. Call(tag, n, l) \in M  BY <2>1, AllTried
  <2>3. /\ Call(tag, n, l).tag = tag /\ Call(tag, n, l).node = n
        /\ Call(tag, n, l).config = l
    BY DEF Call
  <2>4. PICK i \in 1 .. Len(log) : log[i] = Call(tag, n, l)
    BY <2>1, <2>2, <2>3 DEF ExploredBy, Explored
  <2>5. i \in Made(tag, l) /\ log[i].node = n  BY <2>3, <2>4 DEF Made, MadeBy
  <2> QED  BY <2>5 DEF NodesOf
<1> QED  BY <1>1, <1>2

LEMMA LoadGivesStatic == LoadInv => StaticAsWritten
<1> SUFFICES ASSUME LoadInv, Loaded, NEW l \in DOMAIN log, log[l].tag = "location",
                    NEW tag \in {"root", "alias", "index"}
             PROVE  NodesOf(Made(tag, l)) = Written(tag, log[l].node)
  BY DEF StaticAsWritten
<1>1. Ready /\ DOMAIN log = 1 .. Len(log) /\ DOMAIN file = 1 .. Len(file)  BY LoadedIs
<1>2. PICK M : ExploredBy(M)  BY LoadedIs
<1> DEFINE tried == {"root", "alias", "index"}
<1>3. tried \in SUBSET KidTags(log[l].tag)
  <2>1. \A t \in tried : t \in KidTags("location")  BY KidTagsAre
  <2> QED  BY <2>1
<1>4. \A t \in tried : \E u \in tried : t \in FriendTags(u)
  <2>1. "index" \in FriendTags("root")  BY FriendTagsAre
  <2>2. "root" \in FriendTags("index") /\ "alias" \in FriendTags("index")  BY FriendTagsAre
  <2> QED  BY <2>1, <2>2
<1>5. IsBlock(log[l].tag)
  <2>1. "location" \in Tags  BY DEF Tags
  <2> QED  BY <2>1, InsideIs
<1> HIDE DEF tried
<1>6. tag \in tried  BY DEF tried
<1> QED  BY <1>1, <1>2, <1>3, <1>4, <1>5, <1>6, AllMade

\* The folder and the page of every location are loaded, whatever their order.
THEOREM StaticIsLoaded == Spec => []StaticAsWritten
BY LoadInit, LoadStep, LoadGivesStatic, PTL DEF Spec

\* The servers blocks, and for each its locations and its port.
LEMMA ServersIs ==
  ASSUME LoadInv, Loaded
  PROVE  /\ NodesOf(ServersList(1)) = Written("servers", 1)
         /\ \A s \in ServersList(1) :
              /\ s \in 1 .. Len(log) /\ log[s].tag = "servers" /\ log[s].config = 1
              /\ LocationList(s) = Made("location", s)
              /\ NodesOf(Made("location", s)) = Written("location", log[s].node)
              /\ NodesOf(Made("listen", s)) = Written("listen", log[s].node)
<1>1. /\ Ready /\ DOMAIN log = 1 .. Len(log) /\ DOMAIN file = 1 .. Len(file)
      /\ 1 \in 1 .. Len(log) /\ log[1] = RootCall
  BY LoadedIs
<1>2. PICK M : ExploredBy(M)  BY LoadedIs
<1>3. log[1].tag = "http" /\ log[1].node = 1  BY <1>1 DEF RootCall, Call
<1>4. IsBlock("http") /\ IsBlock("servers")
  <2>1. "http" \in Tags /\ "servers" \in Tags  BY DEF Tags
  <2> QED  BY <2>1, InsideIs
<1>5. NodesOf(ServersList(1)) = Written("servers", 1)
  <2> DEFINE tried == {"servers"}
  <2>1. tried \in SUBSET KidTags(log[1].tag)
    <3>1. "servers" \in KidTags("http")  BY KidTagsAre
    <3> QED  BY <1>3, <3>1
  <2>2. \A t \in tried : \E u \in tried : t \in FriendTags(u)
    <3>1. "servers" \in FriendTags("servers")  BY FriendTagsAre
    <3> QED  BY <3>1
  <2> HIDE DEF tried
  <2>3. "servers" \in tried  BY DEF tried
  <2>4. NodesOf(Made("servers", 1)) = Written("servers", log[1].node)
    BY <1>1, <1>2, <1>3, <1>4, <2>1, <2>2, <2>3, AllMade
  <2> QED  BY <1>3, <2>4 DEF ServersList
<1>6. ASSUME NEW s \in ServersList(1)
      PROVE  /\ s \in 1 .. Len(log) /\ log[s].tag = "servers" /\ log[s].config = 1
             /\ LocationList(s) = Made("location", s)
             /\ NodesOf(Made("location", s)) = Written("location", log[s].node)
             /\ NodesOf(Made("listen", s)) = Written("listen", log[s].node)
  <2>1. s \in 1 .. Len(log) /\ log[s].tag = "servers" /\ log[s].config = 1
    BY <1>1, <1>6 DEF ServersList, Made, MadeBy
  <2>2. LocationList(s) = Made("location", s)
    <3>1. ASSUME NEW i \in 1 .. Len(log), log[i].config = s PROVE log[i].tag # "server"
      <4>1. log[i].tag \in Inside[log[s].tag]  BY <1>1, <2>1, <3>1, MadeIs
      <4>2. "servers" \in Tags  BY DEF Tags
      <4>3. log[i].tag \in {"listen", "location"}  BY <1>4, <2>1, <4>1, <4>2, InsideIs
      <4> QED  BY <4>3
    <3> QED  BY <1>1, <3>1 DEF LocationList, Made, MadeBy
  <2> DEFINE tried == {"listen", "location"}
  <2>3. tried \in SUBSET KidTags(log[s].tag)
    <3>1. \A t \in tried : t \in KidTags("servers")  BY KidTagsAre
    <3> QED  BY <2>1, <3>1
  <2>4. \A t \in tried : \E u \in tried : t \in FriendTags(u)
    <3>1. "listen" \in FriendTags("location") /\ "location" \in FriendTags("location")
      BY FriendTagsAre
    <3> QED  BY <3>1
  <2>5. "listen" \in tried /\ "location" \in tried  OBVIOUS
  <2> HIDE DEF tried
  <2>6. \A t \in tried : NodesOf(Made(t, s)) = Written(t, log[s].node)
    BY <1>1, <1>2, <1>4, <2>1, <2>3, <2>4, AllMade
  <2> QED  BY <2>1, <2>2, <2>5, <2>6
<1> QED  BY <1>5, <1>6

\* One parser and one object: the order of the log is that of the file.
LEMMA OrderedIs ==
  ASSUME OrderInv, DOMAIN log = 1 .. Len(log), NEW tag \in {"servers", "location"},
         NEW config
  PROVE  InOrder(Made(tag, config))
<1> SUFFICES ASSUME NEW i \in Made(tag, config), NEW j \in Made(tag, config), i < j
             PROVE  log[i].node < log[j].node
  BY DEF InOrder
<1>1. /\ i \in 1 .. Len(log) /\ log[i].tag = tag /\ log[i].config = config
      /\ j \in 1 .. Len(log) /\ log[j].tag = tag /\ log[j].config = config
  BY DEF Made, MadeBy
<1> QED  BY <1>1 DEF OrderInv, OneList

LEMMA LoadGivesServers == LoadInv => ServersAsWritten
<1> SUFFICES ASSUME LoadInv, Loaded
             PROVE  /\ NodesOf(ServersList(1)) = Written("servers", 1)
                    /\ InOrder(ServersList(1))
                    /\ \A s \in ServersList(1) :
                         /\ NodesOf(LocationList(s)) = Written("location", log[s].node)
                         /\ InOrder(LocationList(s))
                         /\ (IF Listen(s) = 0 THEN {} ELSE {log[Listen(s)].node})
                              = Written("listen", log[s].node)
  BY DEF ServersAsWritten
<1>1. /\ Ready /\ OrderInv /\ Len(log) \in Nat
      /\ DOMAIN log = 1 .. Len(log) /\ DOMAIN file = 1 .. Len(file)
  BY LoadedIs
<1>2. InOrder(ServersList(1))  BY <1>1, OrderedIs DEF ServersList
<1>3. ASSUME NEW s \in ServersList(1)
      PROVE  /\ NodesOf(LocationList(s)) = Written("location", log[s].node)
             /\ InOrder(LocationList(s))
             /\ (IF Listen(s) = 0 THEN {} ELSE {log[Listen(s)].node})
                  = Written("listen", log[s].node)
  <2>1. /\ LocationList(s) = Made("location", s)
        /\ NodesOf(Made("location", s)) = Written("location", log[s].node)
        /\ NodesOf(Made("listen", s)) = Written("listen", log[s].node)
    BY ServersIs
  <2>2. InOrder(LocationList(s))  BY <1>1, <2>1, OrderedIs
  <2> DEFINE made == Made("listen", s)
             W == Written("listen", log[s].node)
  <2>3. \A x, y \in W : x = y
    <3>1. PlacedInv /\ "listen" \notin Repeated  BY <1>1 DEF Ready, Repeated
    <3> QED  BY <1>1, <3>1 DEF Written, PlacedInv
  <2>4. made \in SUBSET (1 .. Len(log))  BY <1>1 DEF Made, MadeBy
  <2>5. CASE made = {}
    <3>1. Listen(s) = 0  BY <2>5 DEF Listen, LastOf
    <3>2. NodesOf(made) = {}  BY <2>5 DEF NodesOf
    <3> QED  BY <2>1, <2>2, <3>1, <3>2
  <2>6. CASE made # {}
    <3>1. Max(made) \in made
      <4> HIDE DEF made
      <4> QED  BY <1>1, <2>4, <2>6, MaxExists
    <3>2. Listen(s) = Max(made)  BY <2>6 DEF Listen, LastOf
    <3>3. Listen(s) # 0 /\ Listen(s) \in made  BY <1>1, <2>4, <3>1, <3>2
    <3>4. log[Listen(s)].node \in W  BY <2>1, <3>3 DEF NodesOf
    <3>5. W = {log[Listen(s)].node}
      <4> HIDE DEF W
      <4> QED  BY <2>3, <3>4
    <3> QED  BY <2>1, <2>2, <3>3, <3>5
  <2> QED  BY <2>5, <2>6
<1> QED  BY <1>2, <1>3, ServersIs

\* Every servers block and location is loaded once, and in the order of the file.
THEOREM ServersAreLoaded == Spec => []ServersAsWritten
BY LoadInit, LoadStep, LoadGivesServers, PTL DEF Spec

LEMMA LoadGivesKinds == LoadInv => KindsAsWritten
<1> SUFFICES ASSUME LoadInv, Loaded PROVE KindsAsWritten  BY DEF KindsAsWritten
<1>1. Ready /\ DOMAIN file = 1 .. Len(file)  BY LoadedIs
<1> DEFINE meant == [m \in {"=", "^~", "~*", "none"} |->
                       CASE m = "=" -> "EXACT" [] m = "^~" -> "PREFIX"
                         [] m = "~*" -> "REGEX" [] m = "none" -> "NONE"]
           args(s) == {file[i].arg : i \in Written("location", log[s].node)}
<1>2. ASSUME NEW s \in ServersList(1), "~" \notin args(s)
      PROVE  LocationMap(s) = {meant[m] : m \in args(s)}
  <2>1. NodesOf(Made("location", s)) = Written("location", log[s].node)  BY ServersIs
  <2> DEFINE W == Written("location", log[s].node)
  <2>2. LocationMap(s) = {MatchType(file[n].arg) : n \in W}  BY <2>1 DEF LocationMap
  <2>3. ASSUME NEW n \in W PROVE MatchType(file[n].arg) = meant[file[n].arg]
    <3>1. n \in 1 .. Len(file) /\ file[n].tag = "location"  BY <1>1 DEF Written
    <3>2. file[n].arg \in Modifiers  BY <1>1, <3>1 DEF Ready, PlacedInv
    <3>3. file[n].arg # "~"  BY <1>2
    <3>4. file[n].arg \in {"=", "^~", "~*", "none"}  BY <3>2, <3>3 DEF Modifiers
    <3> QED  BY <3>4 DEF MatchType
  <2> HIDE DEF W, meant
  <2>4. {MatchType(file[n].arg) : n \in W} = {meant[file[n].arg] : n \in W}  BY <2>3
  <2>5. {meant[file[n].arg] : n \in W} = {meant[m] : m \in {file[n].arg : n \in W}}
    OBVIOUS
  <2> QED  BY <2>2, <2>4, <2>5 DEF W
<1> QED  BY <1>2 DEF KindsAsWritten

\* Every location is under the kind it was written with, but for the modifier ~.
THEOREM KindsAreLoaded == Spec => []KindsAsWritten
BY LoadInit, LoadStep, LoadGivesKinds, PTL DEF Spec
=============================================================================
