---------------------------- MODULE ConfigProofs ----------------------------
(***************************************************************************)
(* Proofs about Config for files of any length, any nesting that           *)
(* doc/config.md allows and any capacity of the stack: its types, that the *)
(* reader builds the tree of the file as long as the stack has not been    *)
(* enlarged, and when it is.                                               *)
(***************************************************************************)
EXTENDS Config, WellFoundedInduction, SequenceTheorems, FiniteSetTheorems, TLAPS

\* Max and Min of the community modules, by what they are to be.
LEMMA MaxIs ==
  ASSUME NEW S \in SUBSET Int, NEW m \in S, \A y \in S : m >= y
  PROVE  Max(S) = m
<1>1. m = CHOOSE x \in S : \A y \in S : x >= y
  <2>1. \A x \in S : (\A y \in S : x >= y) => x = m  OBVIOUS
  <2> QED  BY <2>1
<1> QED  BY <1>1 DEF Max

LEMMA FirstIs ==
  ASSUME NEW S \in SUBSET Int, NEW m \in S, \A y \in S : m <= y
  PROVE  FirstOf(S) = m
<1>1. m = CHOOSE x \in S : \A y \in S : x =< y
  <2>1. \A x \in S : (\A y \in S : x =< y) => x = m  OBVIOUS
  <2> QED  BY <2>1
<1> QED  BY <1>1 DEF FirstOf, Min

LEMMA MaxExists ==
  ASSUME NEW n \in Nat, NEW S \in SUBSET (1 .. n), S # {}
  PROVE  Max(S) \in S /\ \A y \in S : Max(S) >= y
<1> DEFINE T == {n - y : y \in S}
<1>1. T \subseteq Nat /\ T # {}
  <2>1. PICK y \in S : TRUE  OBVIOUS
  <2>2. n - y \in T  OBVIOUS
  <2>3. \A t \in T : t \in Nat  OBVIOUS
  <2> QED  BY <2>2, <2>3
<1>2. PICK t \in T : \A u \in T : ~(<<u, t>> \in OpToRel(<, Nat))
  BY <1>1, WFMin, NatLessThanWellFounded, Zenon
<1>3. \A u \in T : ~(u < t)
  BY <1>1, <1>2, Zenon DEF OpToRel
<1>4. PICK m \in S : t = n - m  OBVIOUS
<1>5. \A y \in S : m >= y
  <2> SUFFICES ASSUME NEW y \in S PROVE m >= y  OBVIOUS
  <2>1. n - y \in T /\ ~(n - y < n - m)  BY <1>3, <1>4
  <2> QED  BY <2>1
<1> QED  BY <1>5, MaxIs

\* What appending does, element by element.
LEMMA Appended ==
  ASSUME NEW S, NEW s \in Seq(S), NEW e \in S
  PROVE  /\ Append(s, e) \in Seq(S) /\ Len(Append(s, e)) = Len(s) + 1
         /\ \A i \in 1 .. Len(s) : Append(s, e)[i] = s[i]
         /\ Append(s, e)[Len(s) + 1] = e
OBVIOUS

-----------------------------------------------------------------------------
(* The types, for stacks of any size.                                      *)

Args == Strategies \cup Modifiers \cup {"any"}
Words == Tags \cup {"none"}

ItemIn(n) == [tag : Tags, arg : Args, word : Words, up : 0 .. n]
NodeIn(n) == [kind : {"parent", "child"}, friend : 0 .. n, child : 0 .. n]
CallIn(n, m) == [tag : Tags, node : 0 .. n, config : -1 .. m]
LogIn(n, m) == [tag : Tags, node : 1 .. n, config : -1 .. m]

TypeInv ==
  /\ phase \in {"read", "walk", "done", "crash"}
  /\ file \in Seq(ItemIn(Len(file)))
  /\ blocks \in Seq(1 .. Len(file))
  /\ node \in Seq(NodeIn(Len(file))) /\ Len(node) = Len(file)
  /\ stack \in Seq(0 .. Len(file))
  /\ todo \in Seq(CallIn(Len(file), Len(log)))
  /\ log \in Seq(LogIn(Len(file), Len(log)))

\* The stack is at most one entry behind its array, and never ends in a NULL.
RoomInv ==
  /\ size \in Nat /\ size >= Capacity /\ Len(stack) <= size + 1
  /\ phase = "read" /\ Len(file) > 0 => Len(stack) > 0 /\ stack[Len(stack)] # 0

Typing == TypeInv /\ RoomInv

LEMMA TypingInit == Init => Typing
<1> SUFFICES ASSUME Init PROVE Typing  OBVIOUS
<1>1. /\ file = <<>> /\ blocks = <<>> /\ node = <<>> /\ stack = <<>> /\ phase = "read"
      /\ log = <<>> /\ todo = <<>> /\ size = Capacity
  BY DEF Init
<1>2. TypeInv  BY <1>1 DEF TypeInv
<1>3. RoomInv  BY <1>1, ConfigAssumption DEF RoomInv
<1> QED  BY <1>2, <1>3 DEF Typing

\* The sets of the sequences grow with the file and with the log.
LEMMA Wider ==
  ASSUME NEW n \in Nat, NEW m \in Nat, NEW k \in Nat, NEW l \in Nat, n <= m, k <= l
  PROVE  /\ Seq(ItemIn(n)) \subseteq Seq(ItemIn(m))
         /\ Seq(NodeIn(n)) \subseteq Seq(NodeIn(m))
         /\ Seq(CallIn(n, k)) \subseteq Seq(CallIn(m, l))
         /\ Seq(LogIn(n, k)) \subseteq Seq(LogIn(m, l))
         /\ Seq(0 .. n) \subseteq Seq(0 .. m)
         /\ Seq(1 .. n) \subseteq Seq(1 .. m)
<1>1. ItemIn(n) \subseteq ItemIn(m)  BY DEF ItemIn
<1>2. NodeIn(n) \subseteq NodeIn(m)  BY DEF NodeIn
<1>3. CallIn(n, k) \subseteq CallIn(m, l)  BY DEF CallIn
<1>4. LogIn(n, k) \subseteq LogIn(m, l)  BY DEF LogIn
<1>5. 0 .. n \subseteq 0 .. m /\ 1 .. n \subseteq 1 .. m  OBVIOUS
<1> QED  BY <1>1, <1>2, <1>3, <1>4, <1>5, SeqMonotonic

\* A directive goes to the end of the file, into the innermost open block.
LEMMA DirectiveIs ==
  ASSUME TypeInv, NEW tag \in Tags, Directive(tag)
  PROVE  \E d \in ItemIn(Len(file)) :
           /\ file' = Append(file, d) /\ d.tag = tag /\ d.up = Here
           /\ d.up = 0 => tag = "http" /\ Written("http", 0) = {}
<1>1. PICK a \in Arguments(tag) :
        file' = Append(file, [tag |-> tag, arg |-> a.arg, word |-> a.word, up |-> Here])
  BY DEF Directive
<1>2. a.arg \in Args /\ a.word \in Words
  <2>1. CASE tag = "strategy"
    <3>1. a \in [arg : Strategies, word : {"none"}]  BY <2>1 DEF Arguments
    <3> QED  BY <3>1 DEF Args, Words
  <2>2. CASE tag = "location"
    <3>1. a \in [arg : Modifiers, word : Words]
      BY <2>2, ConfigAssumption DEF Arguments, Words
    <3> QED  BY <3>1 DEF Args, Words
  <2>3. CASE tag # "strategy" /\ tag # "location"
    <3>1. a \in [arg : {"any"}, word : {"none"}]  BY <2>3 DEF Arguments
    <3> QED  BY <3>1 DEF Args, Words
  <2> QED  BY <2>1, <2>2, <2>3
<1>3. Here \in 0 .. Len(file)
  BY DEF Here, TypeInv
<1>4. Here = 0 => tag = "http" /\ Written("http", 0) = {}
  BY DEF Directive, Allowed, Expected, Inside, Repeated
<1>5. [tag |-> tag, arg |-> a.arg, word |-> a.word, up |-> Here] \in ItemIn(Len(file))
  BY <1>2, <1>3 DEF ItemIn
<1> QED  BY <1>1, <1>4, <1>5

\* push_stack, with room for the node and without.
LEMMA Pushed ==
  ASSUME NEW N \in Nat, N > 0, stack \in Seq(0 .. N), size \in Nat, size >= Capacity,
         Len(stack) <= size + 1, Push(N)
  PROVE  /\ stack' \in Seq(0 .. N) /\ size' \in Nat /\ size' >= Capacity
         /\ Len(stack') <= size' + 1 /\ Len(stack') > 0 /\ stack'[Len(stack')] = N
         /\ size' = Capacity => size = Capacity /\ stack' = Append(stack, N)
<1>0. size > 1 /\ Capacity \in Nat  BY ConfigAssumption
<1>1. CASE Len(stack) = size + 1
  <2>1. size' \in Nat /\ size' > size  BY <1>0, <1>1 DEF Push, Grown
  <2>2. SubSeq(stack, 1, size) \in Seq(0 .. N) /\ Len(SubSeq(stack, 1, size)) = size
    BY <1>0, <1>1
  <2>3. <<0, N>> \in Seq(0 .. N) /\ Len(<<0, N>>) = 2 /\ <<0, N>>[2] = N  OBVIOUS
  <2>4. stack' = SubSeq(stack, 1, size) \o <<0, N>>  BY <1>1 DEF Push
  <2>5. /\ stack' \in Seq(0 .. N) /\ Len(stack') = size + 2
        /\ stack'[size + 2] = N
    <3> DEFINE pair == <<0, N>>
    <3>1. pair \in Seq(0 .. N) /\ Len(pair) = 2 /\ pair[2] = N  BY <2>3
    <3> HIDE DEF pair
    <3> QED  BY <2>2, <3>1, <2>4, ConcatProperties DEF pair
  <2>6. stack'[Len(stack')] = N
    <3>1. Len(stack') = size + 2 /\ stack'[size + 2] = N  BY <2>5
    <3> QED  BY <3>1, Zenon
  <2>8. Len(stack') > 0 /\ Len(stack') <= size' + 1
    <3>1. PICK z \in Nat : z = size'  BY <2>1
    <3>2. z > size  BY <2>1, <3>1
    <3>3. size + 2 <= z + 1 /\ size + 2 > 0  BY <3>2
    <3> QED  BY <2>5, <3>1, <3>3, Zenon
  <2>7. size' # Capacity /\ size' >= Capacity  BY <1>0, <2>1
  <2> QED  BY <2>1, <2>5, <2>6, <2>7, <2>8
<1>2. CASE Len(stack) # size + 1
  <2>1. stack' = Append(stack, N) /\ size' = size  BY <1>2 DEF Push
  <2> QED  BY <1>0, <1>2, <2>1, Appended
<1> QED  BY <1>1, <1>2

\* The new node and the rest of the step, for a block and for a leaf.
Added(tag, n) ==
  /\ Directive(tag)
  /\ node' = Append(node, n) /\ Push(Len(node) + 1)
  /\ IF IsBlock(tag) THEN blocks' = Append(blocks, Len(file) + 1) ELSE blocks' = blocks
  /\ UNCHANGED <<phase, todo, log>>

LEMMA AddedIs ==
  ASSUME NEW tag \in Tags, ReadOpen(tag) \/ ReadLeaf(tag)
  PROVE  \E n \in NodeIn(0) : /\ Added(tag, n) /\ n.friend = 0
                              /\ n.kind = "parent" <=> IsBlock(tag)
<1>1. CASE ReadOpen(tag)
  <2> DEFINE n == [kind |-> "parent", friend |-> 0, child |-> 0]
  <2>1. n \in NodeIn(0)  BY DEF NodeIn
  <2>2. Added(tag, n) /\ IsBlock(tag)  BY <1>1 DEF ReadOpen, NewNode, Added
  <2> QED  BY <2>1, <2>2
<1>2. CASE ReadLeaf(tag)
  <2> DEFINE n == [kind |-> "child", friend |-> 0, child |-> 0]
  <2>1. n \in NodeIn(0)  BY DEF NodeIn
  <2>2. Added(tag, n) /\ ~IsBlock(tag)  BY <1>2 DEF ReadLeaf, NewNode, Added
  <2> QED  BY <2>1, <2>2
<1> QED  BY <1>1, <1>2

LEMMA TypingAdded ==
  ASSUME Typing, NEW tag \in Tags, NEW n \in NodeIn(0), Added(tag, n)
  PROVE  Typing'
<1> USE DEF Typing
<1> DEFINE N == Len(file) + 1
<1>0. /\ Len(file) \in Nat /\ N \in Nat /\ Len(node) = Len(file) /\ Len(log) \in Nat
      /\ phase' = phase /\ todo' = todo /\ log' = log
  BY DEF TypeInv, Added
<1>1. PICK d \in ItemIn(Len(file)) : file' = Append(file, d)
  BY DirectiveIs DEF Added
<1>2. file' \in Seq(ItemIn(Len(file))) /\ Len(file') = N
  BY <1>1, Appended DEF TypeInv
<1>3. file' \in Seq(ItemIn(N))  BY <1>0, <1>2, Wider
<1>4. node' \in Seq(NodeIn(N)) /\ Len(node') = N
  <2>1. NodeIn(0) \subseteq NodeIn(N)  BY <1>0 DEF NodeIn
  <2>2. node \in Seq(NodeIn(N))  BY <1>0, Wider DEF TypeInv
  <2> QED  BY <1>0, <2>1, <2>2, Appended DEF Added
<1>5. blocks' \in Seq(1 .. N)
  <2>1. blocks \in Seq(1 .. N)  BY <1>0, Wider DEF TypeInv
  <2>2. N \in 1 .. N  BY <1>0
  <2>3. Append(blocks, N) \in Seq(1 .. N)  BY <2>1, <2>2, Appended
  <2> QED  BY <2>1, <2>3 DEF Added
<1>6. todo' \in Seq(CallIn(N, Len(log))) /\ log' \in Seq(LogIn(N, Len(log)))
  BY <1>0, Wider DEF TypeInv
<1>7. stack \in Seq(0 .. N)  BY <1>0, Wider DEF TypeInv
<1>8. Push(N) /\ N > 0 /\ size \in Nat /\ size >= Capacity /\ Len(stack) <= size + 1
  BY <1>0 DEF Added, RoomInv
<1>9. /\ stack' \in Seq(0 .. N) /\ size' \in Nat /\ size' >= Capacity
      /\ Len(stack') <= size' + 1 /\ Len(stack') > 0 /\ stack'[Len(stack')] = N
  BY <1>0, <1>7, <1>8, Pushed
<1>10. TypeInv'  BY <1>0, <1>2, <1>3, <1>4, <1>5, <1>6, <1>9 DEF TypeInv
<1>11. RoomInv'  BY <1>0, <1>9 DEF RoomInv
<1> QED  BY <1>10, <1>11

-----------------------------------------------------------------------------
(* The invariant.                                                          *)

\* The blocks that are open where the reader is.
Opened == {blocks[k] : k \in 1 .. Len(blocks)}

Item == [tag : Tags, arg : Args, word : Words, up : Nat]
ConfigNode == [kind : {"parent", "child"}, friend : Nat, child : Nat]

\* What is read, and what is made of it.
ShapeInv ==
  /\ file \in Seq(Item) /\ blocks \in Seq(Nat) /\ node \in Seq(ConfigNode)
  /\ stack \in Seq(Nat)
  /\ Len(node) = Len(file)

\* A directive comes after the block it is in; the first one is http, and the
\* only one that is in no block.
FileInv ==
  \A i \in 1 .. Len(file) : /\ file[i].up < i
                            /\ file[i].up = 0 => i = 1 /\ file[i].tag = "http"

\* The open blocks are in the order of the file, and the last of what each holds is
\* the next.
BlocksInv ==
  /\ \A k \in 1 .. Len(blocks) : /\ blocks[k] \in 1 .. Len(file)
                                 /\ IsBlock(file[blocks[k]].tag)
  /\ \A k, l \in 1 .. Len(blocks) : k < l => blocks[k] < blocks[l]
  /\ \A k \in 1 .. Len(blocks) - 1, i \in 1 .. Len(file) :
       file[i].up = blocks[k] => i <= blocks[k + 1]

\* The nodes still to be placed: their block has not been closed.
Waiting == {i \in 1 .. Len(file) : file[i].up = 0 \/ file[i].up \in Opened}

\* An open block waits for the end of the one it is in.
NestInv == Opened \subseteq Waiting

\* The stack holds these nodes in the order of the file, not linked so far.
StackInv ==
  /\ \A j \in 1 .. Len(stack) : /\ stack[j] \in Waiting
                                /\ node[stack[j]].friend = 0
  /\ \A j, k \in 1 .. Len(stack) : j < k => stack[j] < stack[k]
  /\ \A i \in Waiting : \E j \in 1 .. Len(stack) : stack[j] = i

\* The nodes that are marked as parents are the blocks that are open.
KindInv == \A i \in 1 .. Len(file) : node[i].kind = "parent" <=> i \in Opened

\* x is the first directive of block b behind i in file f, or 0 if there is none.
Follows(f, x, b, i) ==
  /\ x = 0 \/ (x \in 1 .. Len(f) /\ f[x].up = b /\ x > i)
  /\ \A j \in 1 .. Len(f) : f[j].up = b /\ j > i => x # 0 /\ x <= j

\* The tree below each block that is closed is finished.
TreeInv ==
  \A b \in 1 .. Len(file) : IsBlock(file[b].tag) /\ b \notin Opened =>
    /\ Follows(file, node[b].child, b, 0)
    /\ \A i \in 1 .. Len(file) : file[i].up = b => Follows(file, node[i].friend, b, i)

\* The walk begins at http.
WalkInv ==
  /\ phase = "read" => log = <<>>
  /\ phase # "read" => blocks = <<>> /\ Len(file) > 0
  /\ phase = "walk" /\ log = <<>> => todo = Calls(<<"http">>, 1, RootConfig)

\* The inductive invariant: all of it as long as the stack has not grown.
ReaderInv ==
  /\ Typing
  /\ size = Capacity => /\ FileInv /\ BlocksInv /\ NestInv /\ KindInv /\ TreeInv /\ WalkInv
                        /\ phase = "read" => StackInv

LEMMA ShapeIs == TypeInv => ShapeInv
<1> SUFFICES ASSUME TypeInv PROVE ShapeInv  OBVIOUS
<1>0. Len(file) \in Nat  BY DEF TypeInv
<1>1. ItemIn(Len(file)) \subseteq Item  BY <1>0 DEF ItemIn, Item
<1>2. NodeIn(Len(file)) \subseteq ConfigNode  BY <1>0 DEF NodeIn, ConfigNode
<1>3. 0 .. Len(file) \subseteq Nat /\ 1 .. Len(file) \subseteq Nat  BY <1>0
<1>4. file \in Seq(Item) /\ node \in Seq(ConfigNode)
  BY <1>1, <1>2, SeqMonotonic DEF TypeInv
<1>5. stack \in Seq(Nat) /\ blocks \in Seq(Nat)
  BY <1>3, SeqMonotonic DEF TypeInv
<1> QED  BY <1>4, <1>5 DEF ShapeInv, TypeInv

LEMMA ReaderInit == Init => ReaderInv
<1> SUFFICES ASSUME Init PROVE ReaderInv  OBVIOUS
<1>1. Typing  BY TypingInit
<1>2. file = <<>> /\ blocks = <<>> /\ node = <<>> /\ stack = <<>> /\ phase = "read"
      /\ log = <<>>
  BY DEF Init
<1>3. FileInv /\ BlocksInv /\ KindInv
  BY <1>2 DEF FileInv, BlocksInv, KindInv
<1>4. Waiting = {} /\ Opened = {}  BY <1>2 DEF Waiting, Opened
<1>5. StackInv /\ NestInv  BY <1>2, <1>4 DEF StackInv, NestInv
<1>6. TreeInv  BY <1>2 DEF TreeInv
<1>7. WalkInv  BY <1>2 DEF WalkInv
<1> QED  BY <1>1, <1>2, <1>3, <1>5, <1>6, <1>7 DEF ReaderInv

\* One more directive and its node.
LEMMA OneMore ==
  ASSUME ShapeInv, FileInv, BlocksInv, NestInv, KindInv, TreeInv, StackInv,
         NEW d \in Item, d.up = Here, d.up <= Len(file),
         d.up = 0 => Len(file) = 0 /\ d.tag = "http",
         NEW n \in ConfigNode, n.friend = 0,
         n.kind = "parent" <=> IsBlock(d.tag),
         file' = Append(file, d), node' = Append(node, n),
         stack' = Append(stack, Len(node) + 1),
         IF IsBlock(d.tag) THEN blocks' = Append(blocks, Len(file) + 1)
                           ELSE blocks' = blocks
  PROVE  FileInv' /\ BlocksInv' /\ NestInv' /\ KindInv' /\ TreeInv' /\ StackInv'
<1> DEFINE N == Len(file) + 1
<1>0. N \in Nat /\ Len(file) \in Nat /\ Len(node) = Len(file)  BY DEF ShapeInv
<1>1. /\ file' \in Seq(Item) /\ Len(file') = N /\ file'[N] = d
      /\ \A i \in 1 .. Len(file) : file'[i] = file[i]
  BY Appended DEF ShapeInv
<1>2. /\ node' \in Seq(ConfigNode) /\ Len(node') = N /\ node'[N] = n
      /\ \A i \in 1 .. Len(file) : node'[i] = node[i]
  BY <1>0, Appended DEF ShapeInv
<1>3. /\ stack' \in Seq(Nat) /\ Len(stack') = Len(stack) + 1 /\ stack'[Len(stack) + 1] = N
      /\ \A j \in 1 .. Len(stack) : stack'[j] = stack[j]
  BY <1>0, Appended DEF ShapeInv
<1>4. /\ blocks' \in Seq(Nat)
      /\ Len(blocks') = IF IsBlock(d.tag) THEN Len(blocks) + 1 ELSE Len(blocks)
      /\ \A k \in 1 .. Len(blocks) : blocks'[k] = blocks[k]
      /\ IsBlock(d.tag) => blocks'[Len(blocks) + 1] = N
  <2>1. CASE IsBlock(d.tag)
    <3>1. blocks' = Append(blocks, N)  BY <2>1
    <3> QED  BY <1>0, <2>1, <3>1, Appended DEF ShapeInv
  <2>2. CASE ~IsBlock(d.tag)
    BY <2>2 DEF ShapeInv
  <2> QED  BY <2>1, <2>2
<1>5. Opened' = Opened \cup (IF IsBlock(d.tag) THEN {N} ELSE {})
  <2>1. Len(blocks) \in Nat  BY DEF ShapeInv
  <2>2. Opened' = {blocks'[k] : k \in 1 .. Len(blocks')}  BY DEF Opened
  <2>3. CASE IsBlock(d.tag)
    <3>1. 1 .. Len(blocks') = (1 .. Len(blocks)) \cup {Len(blocks) + 1}
      BY <1>4, <2>1, <2>3
    <3>2. ASSUME NEW x PROVE x \in Opened' <=> x \in Opened \cup {N}
      BY <1>4, <2>1, <2>2, <2>3, <3>1 DEF Opened
    <3> QED  BY <2>3, <3>2
  <2>4. CASE ~IsBlock(d.tag)
    BY <2>2, <2>4 DEF Opened
  <2> QED  BY <2>3, <2>4
<1>6. \A i \in 1 .. Len(file) : file[i] \in Item /\ file[i].up \in Nat
  <2>1. \A i \in 1 .. Len(file) : file[i] \in Item  BY DEF ShapeInv
  <2>2. \A e \in Item : e.up \in Nat  BY DEF Item
  <2> QED  BY <2>1, <2>2
<1>7. d.up = 0 \/ d.up \in Opened
  BY DEF Here, Opened, ShapeInv
<1>9. FileInv'  BY <1>0, <1>1, <1>6 DEF FileInv, Item
<1>10. BlocksInv'
  <2>1. \A k \in 1 .. Len(blocks') : blocks'[k] \in 1 .. N /\ IsBlock(file'[blocks'[k]].tag)
    <3> SUFFICES ASSUME NEW k \in 1 .. Len(blocks')
                 PROVE  blocks'[k] \in 1 .. N /\ IsBlock(file'[blocks'[k]].tag)
      OBVIOUS
    <3>1. CASE k \in 1 .. Len(blocks)
      <4>1. blocks[k] \in 1 .. Len(file) /\ IsBlock(file[blocks[k]].tag)
        BY <3>1 DEF BlocksInv
      <4>2. file'[blocks[k]] = file[blocks[k]]  BY <1>1, <4>1
      <4> QED  BY <1>0, <1>4, <3>1, <4>1, <4>2
    <3>2. CASE k \notin 1 .. Len(blocks)
      <4>1. Len(blocks) \in Nat  BY DEF ShapeInv
      <4>2. k = Len(blocks) + 1 /\ IsBlock(d.tag)  BY <1>4, <3>2, <4>1
      <4> QED  BY <1>0, <1>1, <1>4, <4>2
    <3> QED  BY <3>1, <3>2
  <2>2. ASSUME NEW k \in 1 .. Len(blocks'), NEW l \in 1 .. Len(blocks'), k < l
        PROVE  blocks'[k] < blocks'[l]
    <3>0. Len(blocks) \in Nat  BY DEF ShapeInv
    <3>1. k \in 1 .. Len(blocks) /\ blocks'[k] = blocks[k]
      <4>1. k \in 1 .. Len(blocks)  BY <1>4, <2>2, <3>0
      <4> QED  BY <1>4, <4>1
    <3>2. CASE l \in 1 .. Len(blocks)
      BY <1>4, <2>2, <3>1, <3>2 DEF BlocksInv
    <3>3. CASE l \notin 1 .. Len(blocks)
      <4>1. l = Len(blocks) + 1 /\ IsBlock(d.tag)  BY <1>4, <3>0, <3>3
      <4>2. blocks'[l] = N  BY <1>4, <4>1
      <4>3. blocks[k] < N  BY <1>0, <3>1 DEF BlocksInv
      <4> QED  BY <3>1, <4>2, <4>3
    <3> QED  BY <3>2, <3>3
  <2>3. ASSUME NEW k \in 1 .. Len(blocks') - 1, NEW i \in 1 .. Len(file'),
               file'[i].up = blocks'[k]
        PROVE  i <= blocks'[k + 1]
    <3>0. Len(blocks) \in Nat /\ k \in 1 .. Len(blocks) /\ blocks'[k] = blocks[k]
      BY <1>4 DEF ShapeInv
    <3>1. CASE k = Len(blocks)
      BY <1>0, <1>1, <1>4, <3>1 DEF BlocksInv
    <3>2. CASE k < Len(blocks) /\ i # N
      <4>1. k \in 1 .. Len(blocks) - 1 /\ k + 1 \in 1 .. Len(blocks)  BY <3>0, <3>2
      <4>2. i \in 1 .. Len(file) /\ file[i].up = blocks[k]
        BY <1>0, <1>1, <2>3, <3>0, <3>2
      <4> QED  BY <1>4, <4>1, <4>2 DEF BlocksInv
    <3>3. CASE k < Len(blocks) /\ i = N
      <4>1. d.up = blocks[k] /\ d.up = blocks[Len(blocks)] /\ Len(blocks) \in Nat
        BY <1>1, <1>4, <2>3, <3>3 DEF Here, ShapeInv
      <4>2. blocks[k] < blocks[Len(blocks)] /\ blocks[k] \in Nat
        BY <3>0, <3>3 DEF BlocksInv
      <4> QED  BY <4>1, <4>2
    <3> QED  BY <3>0, <3>1, <3>2, <3>3
  <2> QED  BY <1>1, <2>1, <2>2, <2>3 DEF BlocksInv
<1>11. KindInv'
  <2>1. \A i \in 1 .. Len(file) : i \in Opened' <=> i \in Opened  BY <1>0, <1>5
  <2>2. N \in Opened' <=> IsBlock(d.tag)
    <3>1. N \notin Opened  BY <1>0 DEF Opened, BlocksInv, ShapeInv
    <3> QED  BY <1>5, <3>1
  <2>3. ASSUME NEW i \in 1 .. N PROVE node'[i].kind = "parent" <=> i \in Opened'
    <3>1. CASE i \in 1 .. Len(file)  BY <1>2, <2>1, <3>1 DEF KindInv
    <3>2. CASE i = N  BY <1>2, <2>2, <3>2
    <3> QED  BY <1>0, <3>1, <3>2
  <2> QED  BY <1>1, <2>3 DEF KindInv
<1>12. Waiting' = Waiting \cup {N}
  <2>0. Waiting' = {i \in 1 .. Len(file') : file'[i].up = 0 \/ file'[i].up \in Opened'}
    BY DEF Waiting
  <2>1. Waiting' = {i \in 1 .. N : file'[i].up = 0 \/ file'[i].up \in Opened'}
    BY <1>1, <2>0
  <2>2. ASSUME NEW i \in 1 .. Len(file) PROVE i \in Waiting' <=> i \in Waiting
    <3>1. file'[i] = file[i] /\ file[i].up \in Nat /\ file[i].up < i /\ i \in 1 .. N
      BY <1>0, <1>1, <1>6 DEF FileInv
    <3>2. file[i].up # N  BY <1>0, <3>1
    <3>3. file[i].up \in Opened' <=> file[i].up \in Opened  BY <1>5, <3>2
    <3> QED  BY <2>1, <3>1, <3>3 DEF Waiting
  <2>3. N \in Waiting'
    <3>1. N \in 1 .. N /\ file'[N].up = d.up  BY <1>0, <1>1
    <3> QED  BY <1>5, <1>7, <2>1, <3>1
  <2>4. \A i \in 1 .. N : i \in 1 .. Len(file) \/ i = N  BY <1>0
  <2>5. \A i \in Waiting' : i \in Waiting \cup {N}  BY <2>1, <2>2, <2>4
  <2>6. \A i \in Waiting \cup {N} : i \in Waiting'  BY <2>2, <2>3 DEF Waiting
  <2> QED  BY <2>5, <2>6
<1>13. StackInv'
  <2>0. Len(stack) \in Nat /\ \A i \in Waiting : i \in 1 .. Len(file)
    BY DEF ShapeInv, Waiting
  <2>1. \A j \in 1 .. Len(stack') : stack'[j] \in Waiting' /\ node'[stack'[j]].friend = 0
    BY <1>0, <1>2, <1>3, <1>12, <2>0 DEF StackInv
  <2>2. \A j, k \in 1 .. Len(stack') : j < k => stack'[j] < stack'[k]
    <3>1. \A j \in 1 .. Len(stack) : stack[j] < N
      BY <1>0, <2>0 DEF StackInv
    <3> SUFFICES ASSUME NEW j \in 1 .. Len(stack'), NEW k \in 1 .. Len(stack'), j < k
                 PROVE  stack'[j] < stack'[k]
      OBVIOUS
    <3>2. CASE k \in 1 .. Len(stack)
      <4>1. j \in 1 .. Len(stack)  BY <2>0, <3>2
      <4> QED  BY <1>3, <3>2, <4>1 DEF StackInv
    <3>3. CASE k = Len(stack) + 1
      <4>1. j \in 1 .. Len(stack)  BY <2>0, <3>3
      <4> QED  BY <1>3, <3>1, <3>3, <4>1
    <3>4. k \in 1 .. Len(stack) \/ k = Len(stack) + 1  BY <1>3, <2>0
    <3> QED  BY <3>2, <3>3, <3>4
  <2>3. ASSUME NEW i \in Waiting' PROVE \E j \in 1 .. Len(stack') : stack'[j] = i
    <3>1. \A h \in Waiting : \E j \in 1 .. Len(stack) : stack'[j] = h
      BY <1>3 DEF StackInv
    <3>2. CASE i = N
      <4>1. Len(stack) + 1 \in 1 .. Len(stack')  BY <1>3, <2>0
      <4> QED  BY <1>3, <3>2, <4>1
    <3>3. CASE i # N
      <4>1. PICK j \in 1 .. Len(stack) : stack'[j] = i  BY <1>12, <3>1, <3>3
      <4> QED  BY <1>3, <2>0, <4>1
    <3> QED  BY <3>2, <3>3
  <2> QED  BY <1>1, <2>1, <2>2, <2>3 DEF StackInv
<1>14. ASSUME NEW b \in 1 .. N, IsBlock(file'[b].tag), b \notin Opened'
       PROVE  /\ Follows(file', node'[b].child, b, 0)
              /\ \A i \in 1 .. N : file'[i].up = b => Follows(file', node'[i].friend, b, i)
  <2>1. b \in 1 .. Len(file) /\ b # N /\ b \notin Opened /\ IsBlock(file[b].tag)
    BY <1>0, <1>1, <1>5, <1>14
  <2>2. d.up # b  BY <1>7, <2>1
  <2>3. ASSUME NEW x, NEW i, Follows(file, x, b, i) PROVE Follows(file', x, b, i)
    BY <1>0, <1>1, <2>2, <2>3 DEF Follows
  <2>4. Follows(file, node[b].child, b, 0) /\ node'[b] = node[b]
    BY <1>2, <2>1 DEF TreeInv
  <2>5. ASSUME NEW i \in 1 .. N, file'[i].up = b
        PROVE  Follows(file, node[i].friend, b, i) /\ node'[i] = node[i]
    <3>1. i \in 1 .. Len(file)  BY <1>0, <1>1, <2>2, <2>5
    <3> QED  BY <1>1, <1>2, <2>1, <2>5, <3>1 DEF TreeInv
  <2> QED  BY <2>3, <2>4, <2>5
<1>15. TreeInv'  BY <1>1, <1>14 DEF TreeInv
<1>16. NestInv'
  <2>1. N \in Waiting'  BY <1>12
  <2> QED  BY <1>5, <1>12, <2>1 DEF NestInv
<1> QED  BY <1>9, <1>10, <1>11, <1>13, <1>15, <1>16
LEMMA ReaderAdded ==
  ASSUME ReaderInv, NEW tag \in Tags, ReadOpen(tag) \/ ReadLeaf(tag)
  PROVE  ReaderInv'
<1>1. PICK n \in NodeIn(0) : /\ Added(tag, n) /\ n.friend = 0
                             /\ n.kind = "parent" <=> IsBlock(tag)
  BY AddedIs
<1>2. Typing'  BY <1>1, TypingAdded DEF ReaderInv
<1>3. CASE size' # Capacity  BY <1>2, <1>3 DEF ReaderInv
<1>4. CASE size' = Capacity
  <2>0. /\ phase = "read" /\ phase' = "read" /\ log' = log /\ TypeInv /\ RoomInv
        /\ Len(file) \in Nat /\ Len(node) = Len(file)
    BY <1>1 DEF Added, Directive, ReaderInv, Typing, TypeInv
  <2>1. size = Capacity /\ stack' = Append(stack, Len(node) + 1)
    <3>1. stack \in Seq(0 .. Len(node) + 1) /\ Len(node) + 1 \in Nat /\ Len(node) + 1 > 0
      BY <2>0, Wider DEF TypeInv
    <3>2. size \in Nat /\ size >= Capacity /\ Len(stack) <= size + 1 /\ Push(Len(node) + 1)
      BY <1>1, <2>0 DEF RoomInv, Added
    <3> QED  BY <1>4, <3>1, <3>2, Pushed
  <2>2. /\ FileInv /\ BlocksInv /\ NestInv /\ KindInv /\ TreeInv /\ WalkInv
        /\ StackInv /\ ShapeInv
    BY <2>0, <2>1, ShapeIs DEF ReaderInv
  <2>3. PICK d \in ItemIn(Len(file)) :
          /\ file' = Append(file, d) /\ d.tag = tag /\ d.up = Here
          /\ d.up = 0 => tag = "http" /\ Written("http", 0) = {}
    BY <1>1, <2>0, DirectiveIs DEF Added
  <2>4. d \in Item /\ d.up <= Len(file)  BY <2>0 DEF ItemIn, Item
  <2>5. d.up = 0 => Len(file) = 0
    <3> SUFFICES ASSUME d.up = 0, Len(file) # 0 PROVE FALSE  OBVIOUS
    <3>1. 1 \in 1 .. Len(file) /\ DOMAIN file = 1 .. Len(file)  BY <2>0 DEF TypeInv
    <3>2. file[1] \in Item /\ file[1].up < 1  BY <2>2, <3>1 DEF ShapeInv, FileInv
    <3>3. file[1].up = 0 /\ file[1].tag = "http"  BY <2>2, <3>1, <3>2 DEF FileInv, Item
    <3> QED  BY <2>3, <3>1, <3>3 DEF Written
  <2>6. n \in ConfigNode  BY DEF NodeIn, ConfigNode
  <2>7. /\ node' = Append(node, n)
        /\ IF IsBlock(d.tag) THEN blocks' = Append(blocks, Len(file) + 1)
                             ELSE blocks' = blocks
    BY <1>1, <2>3 DEF Added
  <2>8. FileInv' /\ BlocksInv' /\ NestInv' /\ KindInv' /\ TreeInv' /\ StackInv'
    BY <1>1, <2>1, <2>2, <2>3, <2>4, <2>5, <2>6, <2>7, OneMore
  <2>9. WalkInv'  BY <2>0, <2>2 DEF WalkInv
  <2> QED  BY <1>2, <2>8, <2>9 DEF ReaderInv
<1> QED  BY <1>3, <1>4
-----------------------------------------------------------------------------
(* A closing brace.                                                        *)

\* generate_config_tree stops at position k: the innermost parent or NULL entry.
LEMMA GatherIs ==
  ASSUME TypeInv, Len(stack) > 0, stack[Len(stack)] # 0, Gather
  PROVE  \E k \in 0 .. Len(stack) :
           /\ \A i \in k + 1 .. Len(stack) : stack[i] # 0 /\ node[stack[i]].kind # "parent"
           /\ k # 0 => stack[k] = 0 \/ node[stack[k]].kind = "parent"
           /\ IF k # 0 /\ stack[k] # 0
              THEN /\ stack' = SubSeq(stack, 1, k)
                   /\ node' = [Linked(k) EXCEPT
                                 ![stack[k]].kind = "child",
                                 ![stack[k]].child = IF k = Len(stack) THEN 0
                                                     ELSE stack[k + 1]]
              ELSE /\ k < Len(stack)
                   /\ stack' = SubSeq(stack, 1, k - 1) \o SubSeq(stack, k + 1, k + 1)
                   /\ node' = Linked(k)
<1> DEFINE ends == {i \in DOMAIN stack : stack[i] = 0 \/ node[stack[i]].kind = "parent"}
           k == IF ends = {} THEN 0 ELSE Max(ends)
<1>0. Len(stack) \in Nat /\ DOMAIN stack = 1 .. Len(stack)  BY DEF TypeInv
<1>1. ends # {} => Max(ends) \in ends /\ \A y \in ends : Max(ends) >= y
  BY <1>0, MaxExists
<1>2. k \in 0 .. Len(stack)  BY <1>0, <1>1
<1>3. \A i \in k + 1 .. Len(stack) : stack[i] # 0 /\ node[stack[i]].kind # "parent"
  <2> SUFFICES ASSUME NEW i \in k + 1 .. Len(stack) PROVE i \notin ends
    BY <1>0, <1>2
  <2>1. k \in Nat /\ i > k /\ i \in Nat  BY <1>0, <1>2
  <2>2. i \in ends => k >= i  BY <1>1
  <2> QED  BY <2>1, <2>2
<1>4. k # 0 => stack[k] = 0 \/ node[stack[k]].kind = "parent"  BY <1>1
<1>5. IF k # 0 /\ stack[k] # 0
      THEN /\ stack' = SubSeq(stack, 1, k)
           /\ node' = [Linked(k) EXCEPT
                         ![stack[k]].kind = "child",
                         ![stack[k]].child = IF k = Len(stack) THEN 0 ELSE stack[k + 1]]
      ELSE /\ stack' = SubSeq(stack, 1, k - 1) \o SubSeq(stack, k + 1, k + 1)
           /\ node' = Linked(k)
  BY DEF Gather
<1>6. k = 0 \/ stack[k] = 0 => k < Len(stack)  BY <1>0, <1>2
<1> HIDE DEF k
<1> QED  BY <1>2, <1>3, <1>4, <1>5, <1>6

LEMMA LinkedTypes ==
  ASSUME TypeInv, NEW k \in Nat
  PROVE  Linked(k) \in [1 .. Len(file) -> NodeIn(Len(file))]
<1> DEFINE at(n) == {j \in k + 1 .. Len(stack) - 1 : stack[j] = n}
<1>0. Len(stack) \in Nat /\ Len(file) \in Nat /\ DOMAIN node = 1 .. Len(file)
  BY DEF TypeInv
<1>1. ASSUME NEW n \in DOMAIN node
      PROVE  (IF at(n) = {} THEN node[n]
              ELSE [node[n] EXCEPT !.friend = stack[Max(at(n)) + 1]]) \in NodeIn(Len(file))
  <2>1. node[n] \in NodeIn(Len(file))  BY DEF TypeInv
  <2>2. CASE at(n) = {}  BY <2>1, <2>2
  <2>3. CASE at(n) # {}
    <3>1. at(n) \subseteq 1 .. Len(stack)  BY <1>0
    <3>2. Max(at(n)) \in at(n)  BY <1>0, <2>3, <3>1, MaxExists
    <3>3. Max(at(n)) + 1 \in 1 .. Len(stack)  BY <1>0, <3>2
    <3>4. stack[Max(at(n)) + 1] \in 0 .. Len(file)  BY <3>3 DEF TypeInv
    <3> QED  BY <2>1, <2>3, <3>4 DEF NodeIn
  <2> QED  BY <2>2, <2>3
<1> QED  BY <1>0, <1>1 DEF Linked, LinkedFrom

LEMMA Prefix ==
  ASSUME NEW S, NEW s \in Seq(S), NEW k \in 0 .. Len(s)
  PROVE  /\ SubSeq(s, 1, k) \in Seq(S) /\ Len(SubSeq(s, 1, k)) = k
         /\ \A i \in 1 .. k : SubSeq(s, 1, k)[i] = s[i]
OBVIOUS

LEMMA AsSeq ==
  ASSUME NEW n \in Nat, NEW S, NEW f \in [1 .. n -> S]
  PROVE  f \in Seq(S) /\ Len(f) = n
OBVIOUS

LEMMA TypingClosed ==
  ASSUME Typing, ReadClose
  PROVE  Typing'
<1> USE DEF Typing
<1> DEFINE N == Len(file)
<1>0. /\ N \in Nat /\ Len(node) = N /\ Len(blocks) \in Nat /\ Len(stack) \in Nat
      /\ phase = "read" /\ phase' = phase /\ file' = file /\ size' = size
      /\ todo' = todo /\ log' = log /\ Gather
  BY DEF TypeInv, ReadClose
<1>1. N > 0
  <2>1. Len(blocks) > 0  BY <1>0 DEF ReadClose, TypeInv
  <2> QED  BY <1>0, <2>1 DEF TypeInv
<1>2. /\ Len(stack) > 0 /\ stack[Len(stack)] # 0 /\ size \in Nat
      /\ Len(stack) <= size + 1 /\ size >= Capacity
  BY <1>0, <1>1 DEF RoomInv
<1>3. PICK k \in 0 .. Len(stack) :
        /\ \A i \in k + 1 .. Len(stack) : stack[i] # 0
        /\ IF k # 0 /\ stack[k] # 0
           THEN /\ stack' = SubSeq(stack, 1, k)
                /\ node' = [Linked(k) EXCEPT
                              ![stack[k]].kind = "child",
                              ![stack[k]].child = IF k = Len(stack) THEN 0
                                                  ELSE stack[k + 1]]
           ELSE /\ k < Len(stack)
                /\ stack' = SubSeq(stack, 1, k - 1) \o SubSeq(stack, k + 1, k + 1)
                /\ node' = Linked(k)
  BY <1>0, <1>2, GatherIs
<1>4. k \in Nat /\ Linked(k) \in [1 .. N -> NodeIn(N)]  BY <1>0, LinkedTypes
<1>5. /\ node' \in [1 .. N -> NodeIn(N)] /\ stack' \in Seq(0 .. N)
      /\ Len(stack') <= size + 1 /\ Len(stack') > 0 /\ stack'[Len(stack')] # 0
  <2>1. CASE k # 0 /\ stack[k] # 0
    <3>1. k \in 1 .. Len(stack)  BY <1>0, <2>1
    <3>2. stack' \in Seq(0 .. N) /\ Len(stack') = k /\ stack'[k] = stack[k]
      <4>1. stack \in Seq(0 .. N) /\ stack' = SubSeq(stack, 1, k)
        BY <1>3, <2>1 DEF TypeInv
      <4> QED  BY <1>0, <3>1, <4>1, Prefix
    <3>3. Len(stack') <= size + 1 /\ Len(stack') > 0  BY <1>0, <1>2, <3>1, <3>2
    <3>4. stack'[Len(stack')] # 0  BY <2>1, <3>2
    <3> DEFINE x == IF k = Len(stack) THEN 0 ELSE stack[k + 1]
    <3>5. x \in 0 .. N
      <4>1. k # Len(stack) => k + 1 \in 1 .. Len(stack)  BY <1>0, <3>1
      <4> QED  BY <1>0, <4>1 DEF TypeInv
    <3>6. stack[k] \in 1 .. N  BY <1>0, <2>1, <3>1 DEF TypeInv
    <3>7. node' = [Linked(k) EXCEPT ![stack[k]].kind = "child", ![stack[k]].child = x]
      BY <1>3, <2>1
    <3> HIDE DEF x
    <3>8. node' \in [1 .. N -> NodeIn(N)]  BY <1>4, <3>5, <3>6, <3>7 DEF NodeIn
    <3> QED  BY <3>2, <3>3, <3>4, <3>8
  <2>2. CASE k = 0 \/ stack[k] = 0
    <3>1. k + 1 \in 1 .. Len(stack) /\ k \in Nat  BY <1>0, <1>3, <2>2
    <3> DEFINE low == SubSeq(stack, 1, k - 1)
               top == SubSeq(stack, k + 1, k + 1)
    <3>2. low \in Seq(0 .. N) /\ Len(low) = IF k = 0 THEN 0 ELSE k - 1
      BY <1>0, <3>1, SubSeqProperties DEF TypeInv
    <3>3. top \in Seq(0 .. N) /\ Len(top) = 1 /\ top[1] = stack[k + 1]
      BY <1>0, <3>1, SubSeqProperties DEF TypeInv
    <3>4. stack' = low \o top /\ node' = Linked(k)  BY <1>3, <2>2
    <3> HIDE DEF low, top
    <3>5. /\ stack' \in Seq(0 .. N) /\ Len(stack') = Len(low) + 1
          /\ stack'[Len(low) + 1] = stack[k + 1]
      <4>1. Len(low) \in Nat  BY <3>2
      <4>2. /\ low \o top \in Seq(0 .. N) /\ Len(low \o top) = Len(low) + Len(top)
            /\ \A i \in 1 .. Len(low) + Len(top) :
                 (low \o top)[i] = IF i <= Len(low) THEN low[i] ELSE top[i - Len(low)]
        BY <3>2, <3>3, ConcatProperties
      <4>3. (low \o top)[Len(low) + 1] = top[1]
        BY <3>3, <4>1, <4>2
      <4> QED  BY <3>3, <3>4, <4>1, <4>2, <4>3
    <3>6. Len(stack') <= size + 1 /\ Len(stack') > 0
      BY <1>0, <1>2, <3>1, <3>2, <3>5
    <3>7. stack'[Len(stack')] # 0  BY <1>3, <3>1, <3>5
    <3> QED  BY <1>4, <3>4, <3>5, <3>6, <3>7
  <2> QED  BY <2>1, <2>2
<1>6. blocks' \in Seq(1 .. N)
  BY <1>0 DEF ReadClose, TypeInv
<1>7. TypeInv'  BY <1>0, <1>5, <1>6, AsSeq DEF TypeInv
<1>8. RoomInv'  BY <1>0, <1>2, <1>5 DEF RoomInv
<1> QED  BY <1>7, <1>8
-----------------------------------------------------------------------------
(* The end of the file, and the walk.                                      *)

LEMMA CallsTypes ==
  ASSUME NEW n \in Nat, NEW m \in Nat, NEW tags \in Seq(Tags), NEW x \in 0 .. n,
         NEW c \in -1 .. m
  PROVE  Calls(tags, x, c) \in Seq(CallIn(n, m))
<1>1. Len(tags) \in Nat /\ DOMAIN tags = 1 .. Len(tags)  OBVIOUS
<1>2. \A i \in 1 .. Len(tags) : tags[i] \in Tags  OBVIOUS
<1>3. Calls(tags, x, c) \in [1 .. Len(tags) -> CallIn(n, m)]
  BY <1>1, <1>2 DEF Calls, CallIn
<1> QED  BY <1>1, <1>3, AsSeq

LEMMA StatesTypes ==
  ASSUME NEW tag \in Tags
  PROVE  States(ChildStates, tag) \in Seq(Tags) /\ States(FriendStates, tag) \in Seq(Tags)
<1>1. /\ <<>> \in Seq(Tags) /\ <<"servers">> \in Seq(Tags) /\ <<"server">> \in Seq(Tags)
      /\ <<"index">> \in Seq(Tags) /\ <<"proxy">> \in Seq(Tags)
  BY DEF Tags
<1>2. /\ <<"listen", "location">> \in Seq(Tags) /\ <<"location", "listen">> \in Seq(Tags)
      /\ <<"server", "strategy">> \in Seq(Tags) /\ <<"root", "alias">> \in Seq(Tags)
  BY DEF Tags
<1>3. <<"root", "alias", "index", "strategy", "proxy">> \in Seq(Tags)  BY DEF Tags
<1>4. ASSUME tag \in DOMAIN ChildStates PROVE ChildStates[tag] \in Seq(Tags)
  <2>1. tag \in {"http", "servers", "location", "proxy"}  BY <1>4 DEF ChildStates
  <2>2. /\ ChildStates["http"] = <<"servers">>
        /\ ChildStates["servers"] = <<"listen", "location">>
        /\ ChildStates["location"] = <<"root", "alias", "index", "strategy", "proxy">>
        /\ ChildStates["proxy"] = <<"server", "strategy">>
    BY DEF ChildStates
  <2> QED  BY <1>1, <1>2, <1>3, <2>1, <2>2
<1>5. ASSUME tag \in DOMAIN FriendStates PROVE FriendStates[tag] \in Seq(Tags)
  <2>1. tag \in {"servers", "location", "listen", "root", "alias", "index", "strategy",
                  "server"}
    BY <1>5 DEF FriendStates
  <2>2. /\ FriendStates["servers"] = <<"servers">>
        /\ FriendStates["location"] = <<"location", "listen">>
        /\ FriendStates["listen"] = <<"server">>
        /\ FriendStates["root"] = <<"index">> /\ FriendStates["alias"] = <<"index">>
    BY DEF FriendStates
  <2>3. /\ FriendStates["index"] = <<"root", "alias">>
        /\ FriendStates["strategy"] = <<"proxy">>
        /\ FriendStates["server"] = <<"server">>
    BY DEF FriendStates
  <2> QED  BY <1>1, <1>2, <2>1, <2>2, <2>3
<1> QED  BY <1>1, <1>4, <1>5 DEF States

LEMMA TypingEnded ==
  ASSUME Typing, EndOfFile
  PROVE  Typing'
<1> USE DEF Typing
<1> DEFINE N == Len(file)
<1>0. /\ N \in Nat /\ Len(log) \in Nat /\ Len(stack) \in Nat /\ phase = "read"
      /\ phase' = "walk" /\ file' = file /\ blocks' = blocks /\ node' = node
      /\ size' = size /\ log' = log
      /\ stack' = SubSeq(stack, 1, Len(stack) - 1)
      /\ todo' = Calls(<<"http">>, stack[Len(stack)], RootConfig)
  BY DEF TypeInv, EndOfFile, fileVars
<1>1. N > 0  BY <1>0 DEF EndOfFile, TypeInv
<1>2. Len(stack) > 0 /\ size \in Nat /\ size >= Capacity /\ Len(stack) <= size + 1
  BY <1>0, <1>1 DEF RoomInv
<1>3. stack' \in Seq(0 .. N) /\ Len(stack') = Len(stack) - 1
  <2>1. Len(stack) - 1 \in 0 .. Len(stack)  BY <1>0, <1>2
  <2>2. stack \in Seq(0 .. N)  BY DEF TypeInv
  <2> QED  BY <1>0, <2>1, <2>2, Prefix
<1>4. todo' \in Seq(CallIn(N, Len(log)))
  <2>1. <<"http">> \in Seq(Tags)  BY DEF Tags
  <2>2. stack[Len(stack)] \in 0 .. N  BY <1>0, <1>2 DEF TypeInv
  <2>3. RootConfig \in -1 .. Len(log)  BY <1>0 DEF RootConfig
  <2> QED  BY <1>0, <2>1, <2>2, <2>3, CallsTypes
<1>5. TypeInv'  BY <1>0, <1>3, <1>4 DEF TypeInv
<1>6. Len(stack') <= size + 1  BY <1>0, <1>2, <1>3
<1>7. RoomInv'  BY <1>0, <1>2, <1>6 DEF RoomInv
<1> QED  BY <1>5, <1>7

LEMMA TypingWalked ==
  ASSUME Typing, Walk
  PROVE  Typing'
<1> USE DEF Typing
<1> DEFINE N == Len(file)
           L == Len(log)
           c == Head(todo)
           hit == Matches(c.tag, c.node)
           result == IF hit THEN Returned(c, L + 1) ELSE NoConfig
<1>0. /\ N \in Nat /\ L \in Nat /\ phase = "walk" /\ todo # <<>>
      /\ file' = file /\ blocks' = blocks /\ node' = node /\ stack' = stack /\ size' = size
      /\ Len(node) = N
  BY DEF TypeInv, Walk, fileVars, stackVars
<1>1. c \in CallIn(N, L) /\ Tail(todo) \in Seq(CallIn(N, L))
  BY <1>0 DEF TypeInv
<1>2. CASE c.node = 0
  <2>1. todo' = Tail(todo) /\ phase' = phase /\ log' = log  BY <1>2 DEF Walk
  <2>2. TypeInv'  BY <1>0, <1>1, <2>1 DEF TypeInv
  <2>3. RoomInv'  BY <1>0, <2>1 DEF RoomInv
  <2> QED  BY <2>2, <2>3
<1>3. CASE c.node # 0
  <2>0. c.tag \in Tags /\ c.node \in 1 .. N /\ c.config \in -1 .. L
    BY <1>0, <1>1, <1>3 DEF CallIn
  <2>1. /\ log' = IF hit THEN Append(log, c) ELSE log
        /\ phase' = IF hit /\ c.config = NoConfig THEN "crash" ELSE phase
        /\ todo' = Calls(States(ChildStates, c.tag), node[c.node].child, result)
                   \o Calls(States(FriendStates, c.tag), node[c.node].friend, c.config)
                   \o Tail(todo)
    BY <1>3 DEF Walk
  <2>2. PICK M \in Nat : M = (IF hit THEN L + 1 ELSE L)  BY <1>0
  <2>3. M >= L  BY <1>0, <2>2
  <2>4. log' \in Seq(LogIn(N, M)) /\ Len(log') = M
    <3>1. CASE hit
      <4>1. log \in Seq(LogIn(N, M))  BY <1>0, <2>3, Wider DEF TypeInv
      <4>2. c \in LogIn(N, M)
        <5>1. c.config \in -1 .. M  BY <1>0, <2>0, <2>3
        <5> QED  BY <1>1, <2>0, <5>1 DEF CallIn, LogIn
      <4> QED  BY <2>1, <2>2, <3>1, <4>1, <4>2, Appended
    <3>2. CASE ~hit
      BY <2>1, <2>2, <3>2 DEF TypeInv
    <3> QED  BY <3>1, <3>2
  <2>5. result \in -1 .. M /\ c.config \in -1 .. M
    BY <1>0, <2>0, <2>2, <2>3 DEF Returned, NoConfig
  <2>6. node[c.node].child \in 0 .. N /\ node[c.node].friend \in 0 .. N
    <3>1. node[c.node] \in NodeIn(N)  BY <1>0, <2>0 DEF TypeInv
    <3> QED  BY <3>1 DEF NodeIn
  <2>7. Tail(todo) \in Seq(CallIn(N, M))  BY <1>0, <1>1, <2>3, Wider
  <2> HIDE DEF hit, result, c
  <2>8. Calls(States(ChildStates, c.tag), node[c.node].child, result) \in Seq(CallIn(N, M))
    BY <1>0, <2>0, <2>5, <2>6, StatesTypes, CallsTypes
  <2>9. Calls(States(FriendStates, c.tag), node[c.node].friend, c.config)
          \in Seq(CallIn(N, M))
    BY <1>0, <2>0, <2>5, <2>6, StatesTypes, CallsTypes
  <2>10. todo' \in Seq(CallIn(N, M))
    BY <2>1, <2>7, <2>8, <2>9, ConcatProperties
  <2>11. phase' \in {"walk", "crash"}  BY <1>0, <2>1
  <2>12. TypeInv'  BY <1>0, <2>4, <2>10, <2>11 DEF TypeInv
  <2>13. RoomInv'  BY <1>0, <2>11 DEF RoomInv
  <2> QED  BY <2>12, <2>13
<1> QED  BY <1>2, <1>3

LEMMA TypingStep == Typing /\ [Next]_vars => Typing'
<1> SUFFICES ASSUME Typing, [Next]_vars PROVE Typing'  OBVIOUS
<1>1. ASSUME NEW tag \in Tags, ReadOpen(tag) \/ ReadLeaf(tag) PROVE Typing'
  BY <1>1, AddedIs, TypingAdded
<1>2. CASE Finish
  BY <1>2 DEF Typing, TypeInv, RoomInv, Finish, fileVars, stackVars
<1>3. CASE UNCHANGED vars
  BY <1>3 DEF Typing, TypeInv, RoomInv, vars, fileVars, stackVars
<1> QED  BY <1>1, <1>2, <1>3, TypingClosed, TypingEnded, TypingWalked DEF Next

\* TypeOK for every file and every capacity: the stack never needs more than the
\* one entry behind its array, since each array is larger than the one before.
THEOREM ConfigTyped == Spec => []TypeOK
<1>1. Typing => TypeOK
  <2> SUFFICES ASSUME Typing PROVE TypeOK  OBVIOUS
  <2>1. DOMAIN file = 1 .. Len(file) /\ DOMAIN node = 1 .. Len(file) /\ Len(node) = Len(file)
    BY DEF Typing, TypeInv
  <2> QED  BY <2>1 DEF Typing, TypeInv, RoomInv, TypeOK, ItemIn, NodeIn, CallIn, LogIn,
                       Args, Words
<1> QED  BY <1>1, TypingInit, TypingStep, PTL DEF Spec
-----------------------------------------------------------------------------
(* The tree.                                                               *)

\* What the loop of generate_config_tree links, when the nodes on the stack are
\* in the order of the file.
LEMMA LinkedIs ==
  ASSUME TypeInv, NEW k \in Nat,
         \A i \in 1 .. Len(stack) : stack[i] # 0,
         \A i, j \in 1 .. Len(stack) : i < j => stack[i] < stack[j]
  PROVE  /\ \A n \in 1 .. Len(file) :
              (\A j \in k + 1 .. Len(stack) - 1 : stack[j] # n) => Linked(k)[n] = node[n]
         /\ \A j \in k + 1 .. Len(stack) - 1 :
              Linked(k)[stack[j]] = [node[stack[j]] EXCEPT !.friend = stack[j + 1]]
<1> DEFINE at(n) == {j \in k + 1 .. Len(stack) - 1 : stack[j] = n}
<1>0. /\ Len(stack) \in Nat /\ DOMAIN node = 1 .. Len(file)
      /\ \A i \in 1 .. Len(stack) : stack[i] \in 1 .. Len(file)
  BY DEF TypeInv
<1>1. \A n \in DOMAIN node :
        Linked(k)[n] = IF at(n) = {} THEN node[n]
                       ELSE [node[n] EXCEPT !.friend = stack[Max(at(n)) + 1]]
  BY DEF Linked, LinkedFrom
<1>2. ASSUME NEW n \in 1 .. Len(file), \A j \in k + 1 .. Len(stack) - 1 : stack[j] # n
      PROVE  Linked(k)[n] = node[n]
  <2>1. at(n) = {}  BY <1>2
  <2> QED  BY <1>0, <1>1, <2>1
<1>3. ASSUME NEW j \in k + 1 .. Len(stack) - 1
      PROVE  Linked(k)[stack[j]] = [node[stack[j]] EXCEPT !.friend = stack[j + 1]]
  <2>1. \A i \in at(stack[j]) : i = j
    <3> SUFFICES ASSUME NEW i \in at(stack[j]), i # j PROVE FALSE  OBVIOUS
    <3>1. i \in 1 .. Len(stack) /\ j \in 1 .. Len(stack) /\ stack[i] = stack[j]
      BY <1>0, <1>3
    <3>2. stack[i] \in Nat /\ (i < j \/ j < i)  BY <1>0, <3>1
    <3> QED  BY <3>1, <3>2
  <2>2. j \in at(stack[j]) /\ at(stack[j]) \in SUBSET Int  BY <1>0
  <2>3. Max(at(stack[j])) = j
    <3>1. \A y \in at(stack[j]) : j >= y  BY <1>0, <2>1, <2>2
    <3> HIDE DEF at
    <3> QED  BY <2>2, <3>1, MaxIs
  <2>4. stack[j] \in DOMAIN node  BY <1>0, <1>3
  <2> HIDE DEF at
  <2> QED  BY <1>1, <2>2, <2>3, <2>4
<1> QED  BY <1>2, <1>3

\* The innermost open block b ends: what is behind it on the stack is what it holds.
LEMMA OneLess ==
  ASSUME Typing, FileInv, BlocksInv, NestInv, KindInv, TreeInv, StackInv, ReadClose
  PROVE  FileInv' /\ BlocksInv' /\ NestInv' /\ KindInv' /\ TreeInv' /\ StackInv'
<1> DEFINE N == Len(file)
           m == Len(blocks)
           b == blocks[m]
<1>0. /\ TypeInv /\ ShapeInv /\ N \in Nat /\ m \in Nat /\ m > 0 /\ Len(stack) \in Nat
      /\ file' = file /\ blocks' = SubSeq(blocks, 1, m - 1) /\ Gather
      /\ Len(node) = N /\ DOMAIN node = 1 .. N
  BY ShapeIs DEF Typing, TypeInv, ReadClose
<1>1. /\ m \in 1 .. m /\ b \in 1 .. N /\ IsBlock(file[b].tag)
      /\ b \in Opened /\ b \in Waiting
  BY <1>0 DEF BlocksInv, Opened, NestInv
<1>2. /\ Len(blocks') = m - 1 /\ \A k \in 1 .. m - 1 : blocks'[k] = blocks[k]
      /\ blocks \in Seq(Nat)
  <2>1. blocks \in Seq(Nat) /\ m - 1 \in 0 .. m  BY <1>0 DEF ShapeInv
  <2> QED  BY <1>0, <2>1, Prefix
<1>3. \A k \in 1 .. m : /\ blocks[k] \in Nat /\ blocks[k] <= b
                        /\ k # m => blocks[k] < b
  BY <1>0, <1>1 DEF BlocksInv
<1>4. \A x : x \in Opened' <=> x \in Opened /\ x # b
  <2>1. Opened' = {blocks'[k] : k \in 1 .. m - 1}  BY <1>2 DEF Opened
  <2>2. \A k \in 1 .. m - 1 : k \in 1 .. m /\ k # m  BY <1>0
  <2>3. \A k \in 1 .. m : k # m => k \in 1 .. m - 1  BY <1>0
  <2>4. ASSUME NEW x \in Opened' PROVE x \in Opened /\ x # b
    <3>1. PICK k \in 1 .. m - 1 : x = blocks[k]  BY <1>2, <2>1
    <3>2. k \in 1 .. m /\ x \in Opened  BY <2>2, <3>1 DEF Opened
    <3>3. x < b /\ x \in Nat  BY <1>3, <2>2, <3>1, <3>2
    <3> QED  BY <1>1, <3>2, <3>3
  <2>5. ASSUME NEW x \in Opened, x # b PROVE x \in Opened'
    <3>1. PICK k \in 1 .. m : x = blocks[k]  BY DEF Opened
    <3>2. k \in 1 .. m - 1  BY <2>3, <2>5, <3>1
    <3> QED  BY <1>2, <2>1, <3>1, <3>2
  <2> QED  BY <2>4, <2>5
<1>5. \A i \in 1 .. N : file[i] \in Item /\ file[i].up \in Nat /\ file[i].up < i
  <2>1. \A i \in 1 .. N : file[i] \in Item  BY <1>0 DEF ShapeInv
  <2>2. \A e \in Item : e.up \in Nat  BY DEF Item
  <2> QED  BY <2>1, <2>2 DEF FileInv
<1>6. \A i \in Waiting : file[i].up = b <=> i > b
  <2> SUFFICES ASSUME NEW i \in Waiting PROVE file[i].up = b <=> i > b  OBVIOUS
  <2>0. i \in 1 .. N /\ (file[i].up = 0 \/ file[i].up \in Opened)  BY DEF Waiting
  <2>1. CASE file[i].up = b  BY <1>1, <1>5, <2>0, <2>1
  <2>2. CASE file[i].up = 0
    <3>1. i = 1  BY <2>0, <2>2 DEF FileInv
    <3> QED  BY <1>1, <2>2, <3>1
  <2>3. CASE file[i].up \in Opened /\ file[i].up # b
    <3>1. PICK k \in 1 .. m : file[i].up = blocks[k]  BY <2>3 DEF Opened
    <3>2. k \in 1 .. m - 1 /\ k + 1 \in 1 .. m  BY <1>0, <2>3, <3>1
    <3>3. i <= blocks[k + 1]  BY <2>0, <3>1, <3>2 DEF BlocksInv
    <3> QED  BY <1>1, <1>3, <2>0, <2>3, <3>2, <3>3
  <2> QED  BY <2>0, <2>1, <2>2, <2>3
<1>7. \A i : i \in Waiting' <=> i \in Waiting /\ i <= b
  <2>1. Waiting' = {i \in 1 .. N : file[i].up = 0 \/ file[i].up \in Opened'}
    BY <1>0 DEF Waiting
  <2>2. ASSUME NEW i \in 1 .. N PROVE i \in Waiting' <=> i \in Waiting /\ file[i].up # b
    BY <1>1, <1>4, <2>1 DEF Waiting
  <2>3. \A i : i \in Waiting' \/ i \in Waiting => i \in 1 .. N  BY <2>1 DEF Waiting
  <2>4. \A i \in Waiting : i <= b <=> ~(i > b)  BY <1>1, <2>3
  <2> QED  BY <1>6, <2>2, <2>3, <2>4
<1>8. PICK p \in 1 .. Len(stack) : stack[p] = b  BY <1>1 DEF StackInv
<1>9. \A j \in 1 .. Len(stack) : stack[j] \in Waiting /\ stack[j] \in 1 .. N
  BY DEF StackInv, Waiting
<1>10. \A j \in 1 .. Len(stack) : j > p <=> stack[j] > b
  <2> SUFFICES ASSUME NEW j \in 1 .. Len(stack) PROVE j > p <=> stack[j] > b  OBVIOUS
  <2>1. CASE j > p
    <3>1. stack[p] < stack[j]  BY <2>1 DEF StackInv
    <3> QED  BY <1>1, <1>8, <1>9, <2>1, <3>1
  <2>2. CASE j = p  BY <1>1, <1>8, <2>2
  <2>3. CASE j < p
    <3>1. stack[j] < stack[p]  BY <2>3 DEF StackInv
    <3> QED  BY <1>1, <1>8, <1>9, <2>3, <3>1
  <2> QED  BY <1>0, <2>1, <2>2, <2>3
<1>11. PICK x \in 0 .. N :
         /\ x = IF p = Len(stack) THEN 0 ELSE stack[p + 1]
         /\ stack' = SubSeq(stack, 1, p)
         /\ node' = [Linked(p) EXCEPT ![b].kind = "child", ![b].child = x]
  <2>1. Len(stack) > 0 /\ stack[Len(stack)] # 0
    <3>1. Len(stack) \in 1 .. Len(stack)  BY <1>0, <1>8
    <3> QED  BY <1>9, <3>1
  <2>2. PICK k \in 0 .. Len(stack) :
          /\ \A i \in k + 1 .. Len(stack) : stack[i] # 0 /\ node[stack[i]].kind # "parent"
          /\ k # 0 => stack[k] = 0 \/ node[stack[k]].kind = "parent"
          /\ k # 0 /\ stack[k] # 0 =>
               /\ stack' = SubSeq(stack, 1, k)
               /\ node' = [Linked(k) EXCEPT
                             ![stack[k]].kind = "child",
                             ![stack[k]].child = IF k = Len(stack) THEN 0
                                                 ELSE stack[k + 1]]
    BY <1>0, <2>1, GatherIs
  <2>3. node[b].kind = "parent"  BY <1>1 DEF KindInv
  <2>4. k >= p
    <3> SUFFICES ASSUME ~(k >= p) PROVE FALSE  OBVIOUS
    <3>1. p \in k + 1 .. Len(stack)  BY <1>0
    <3> QED  BY <1>8, <2>2, <2>3, <3>1
  <2>5. k \in 1 .. Len(stack) /\ k # 0  BY <1>0, <2>4
  <2>6. stack[k] # 0 /\ stack[k] \in 1 .. N  BY <1>9, <2>5
  <2>7. stack[k] \in Opened  BY <2>2, <2>5, <2>6 DEF KindInv
  <2>8. stack[k] <= b  BY <1>3, <2>7 DEF Opened
  <2>9. k = p
    <3>1. ~(stack[k] > b)  BY <1>1, <2>6, <2>8
    <3>2. ~(k > p)  BY <1>10, <2>5, <3>1
    <3> QED  BY <1>0, <2>4, <2>5, <3>2
  <2> DEFINE x == IF p = Len(stack) THEN 0 ELSE stack[p + 1]
  <2>10. x \in 0 .. N
    <3>1. p # Len(stack) => p + 1 \in 1 .. Len(stack)  BY <1>0
    <3> QED  BY <1>0, <1>9, <3>1
  <2>11. /\ stack' = SubSeq(stack, 1, p)
         /\ node' = [Linked(p) EXCEPT ![b].kind = "child", ![b].child = x]
    BY <1>8, <2>2, <2>5, <2>6, <2>9
  <2> QED  BY <2>10, <2>11
<1>12. /\ Len(stack') = p /\ \A j \in 1 .. p : stack'[j] = stack[j]
       /\ p \in Nat /\ \A j \in 1 .. p : j \in 1 .. Len(stack)
  <2>1. stack \in Seq(Nat) /\ p \in 0 .. Len(stack)  BY <1>0 DEF ShapeInv
  <2> QED  BY <1>11, <2>1, Prefix
<1>13. Linked(p) \in [1 .. N -> ConfigNode]
  <2>1. Linked(p) \in [1 .. N -> NodeIn(N)]  BY <1>0, <1>12, LinkedTypes
  <2>2. NodeIn(N) \subseteq ConfigNode  BY <1>0 DEF NodeIn, ConfigNode
  <2> QED  BY <2>1, <2>2
<1>14. /\ \A n \in 1 .. N :
            (\A j \in p + 1 .. Len(stack) - 1 : stack[j] # n) => Linked(p)[n] = node[n]
       /\ \A j \in p + 1 .. Len(stack) - 1 :
            Linked(p)[stack[j]] = [node[stack[j]] EXCEPT !.friend = stack[j + 1]]
  <2>1. \A i \in 1 .. Len(stack) : stack[i] # 0  BY <1>9
  <2>2. \A i, j \in 1 .. Len(stack) : i < j => stack[i] < stack[j]  BY DEF StackInv
  <2> QED  BY <1>0, <1>12, <2>1, <2>2, LinkedIs
<1>15. \A n \in 1 .. N : node[n] \in ConfigNode  BY <1>0 DEF ShapeInv
<1>16. \A n \in 1 .. N : /\ n # b => node'[n] = Linked(p)[n]
                         /\ node'[b].kind = "child" /\ node'[b].child = x
                         /\ node'[b].friend = Linked(p)[b].friend
  BY <1>1, <1>11, <1>13 DEF ConfigNode
<1>17. \A n \in 1 .. N : Linked(p)[n].kind = node[n].kind /\ Linked(p)[n].child = node[n].child
  <2> SUFFICES ASSUME NEW n \in 1 .. N
               PROVE  Linked(p)[n].kind = node[n].kind /\ Linked(p)[n].child = node[n].child
    OBVIOUS
  <2>1. CASE \A j \in p + 1 .. Len(stack) - 1 : stack[j] # n  BY <1>14, <2>1
  <2>2. CASE \E j \in p + 1 .. Len(stack) - 1 : stack[j] = n
    <3>1. PICK j \in p + 1 .. Len(stack) - 1 : stack[j] = n  BY <2>2
    <3>2. Linked(p)[n] = [node[n] EXCEPT !.friend = stack[j + 1]]  BY <1>14, <3>1
    <3> QED  BY <1>15, <3>2 DEF ConfigNode
  <2> QED  BY <2>1, <2>2
\* The friends: of what is behind the block but for the last, the next; of the others
\* none but what they had.
<1>18. \A j \in p + 1 .. Len(stack) - 1 : node'[stack[j]].friend = stack[j + 1]
  <2> SUFFICES ASSUME NEW j \in p + 1 .. Len(stack) - 1
               PROVE  node'[stack[j]].friend = stack[j + 1]
    OBVIOUS
  <2>1. j \in 1 .. Len(stack) /\ j > p  BY <1>0, <1>12
  <2>2. stack[j] \in 1 .. N /\ stack[j] # b  BY <1>1, <1>9, <1>10, <2>1
  <2>3. node'[stack[j]] = [node[stack[j]] EXCEPT !.friend = stack[j + 1]]
    BY <1>14, <1>16, <2>2
  <2> QED  BY <1>15, <2>2, <2>3 DEF ConfigNode
<1>19. \A n \in 1 .. N :
         (\A j \in p + 1 .. Len(stack) - 1 : stack[j] # n) => node'[n].friend = node[n].friend
  BY <1>14, <1>16
<1>20. FileInv'  BY <1>0 DEF FileInv
<1>21. BlocksInv'
  <2>1. \A k \in 1 .. m - 1 : k \in 1 .. m  BY <1>0
  <2>2. \A k \in 1 .. m - 1 - 1 : k \in 1 .. m - 1 /\ k + 1 \in 1 .. m - 1  BY <1>0
  <2>3. \A k \in 1 .. Len(blocks') : blocks'[k] \in 1 .. N /\ IsBlock(file[blocks'[k]].tag)
    BY <1>2, <2>1 DEF BlocksInv
  <2>4. \A k, l \in 1 .. Len(blocks') : k < l => blocks'[k] < blocks'[l]
    BY <1>2, <2>1 DEF BlocksInv
  <2>5. \A k \in 1 .. Len(blocks') - 1, i \in 1 .. N :
          file[i].up = blocks'[k] => i <= blocks'[k + 1]
    BY <1>2, <2>2 DEF BlocksInv
  <2> QED  BY <1>0, <2>3, <2>4, <2>5 DEF BlocksInv
<1>22. NestInv'
  <2>1. \A c \in Opened' : c \in Opened /\ c <= b  BY <1>3, <1>4 DEF Opened
  <2> QED  BY <1>7, <2>1 DEF NestInv
<1>23. KindInv'
  <2>1. ASSUME NEW i \in 1 .. N PROVE node'[i].kind = "parent" <=> i \in Opened'
    <3>1. CASE i = b  BY <1>4, <1>16, <3>1
    <3>2. CASE i # b  BY <1>4, <1>16, <1>17, <3>2 DEF KindInv
    <3> QED  BY <3>1, <3>2
  <2> QED  BY <1>0, <2>1 DEF KindInv
<1>24. StackInv'
  <2>1. ASSUME NEW j \in 1 .. p PROVE stack'[j] \in Waiting' /\ node'[stack'[j]].friend = 0
    <3>1. j \in 1 .. Len(stack) /\ stack'[j] = stack[j] /\ stack[j] \in 1 .. N  BY <1>9, <1>12
    <3>2. stack[j] <= b  BY <1>1, <1>10, <1>12, <3>1
    <3>3. stack[j] \in Waiting'  BY <1>7, <1>9, <3>1, <3>2
    <3>4. \A i \in p + 1 .. Len(stack) - 1 : stack[i] # stack[j]
      <4>1. \A i \in p + 1 .. Len(stack) - 1 : i \in 1 .. Len(stack) /\ i > p  BY <1>0, <1>12
      <4>2. \A i \in p + 1 .. Len(stack) - 1 : stack[i] > b  BY <1>10, <4>1
      <4> QED  BY <1>1, <3>1, <3>2, <4>2
    <3>5. node'[stack[j]].friend = node[stack[j]].friend  BY <1>19, <3>1, <3>4
    <3> QED  BY <3>1, <3>3, <3>5 DEF StackInv
  <2>2. \A j, k \in 1 .. p : j < k => stack'[j] < stack'[k]  BY <1>12 DEF StackInv
  <2>3. ASSUME NEW i \in Waiting' PROVE \E j \in 1 .. p : stack'[j] = i
    <3>1. i \in Waiting /\ i <= b /\ i \in 1 .. N  BY <1>7 DEF Waiting
    <3>2. PICK j \in 1 .. Len(stack) : stack[j] = i  BY <3>1 DEF StackInv
    <3>3. j \in 1 .. p
      <4>1. ~(stack[j] > b)  BY <1>1, <3>1, <3>2
      <4>2. ~(j > p)  BY <1>10, <4>1
      <4> QED  BY <1>0, <1>12, <4>2
    <3> QED  BY <1>12, <3>2, <3>3
  <2> QED  BY <1>12, <2>1, <2>2, <2>3 DEF StackInv
<1>25. ASSUME NEW i \in 1 .. N, file[i].up = b
       PROVE  \E j \in p + 1 .. Len(stack) : stack[j] = i
  <2>1. i \in Waiting /\ i > b  BY <1>1, <1>5, <1>25 DEF Waiting
  <2>2. PICK j \in 1 .. Len(stack) : stack[j] = i  BY <2>1 DEF StackInv
  <2>3. j > p  BY <1>10, <2>1, <2>2
  <2>4. j \in p + 1 .. Len(stack)  BY <1>0, <1>12, <2>3
  <2> QED  BY <2>2, <2>4
<1>26. \A j \in p + 1 .. Len(stack) : /\ j \in 1 .. Len(stack) /\ stack[j] \in 1 .. N
                                      /\ stack[j] > b /\ file[stack[j]].up = b
  <2>1. \A j \in p + 1 .. Len(stack) : j \in 1 .. Len(stack) /\ j > p  BY <1>0, <1>12
  <2> QED  BY <1>6, <1>9, <1>10, <2>1
\* The block itself.
<1>27. Follows(file, x, b, 0)
  <2>1. CASE p = Len(stack)
    <3>1. \A i \in 1 .. N : file[i].up # b  BY <1>0, <1>12, <1>25, <2>1
    <3> QED  BY <1>11, <2>1, <3>1 DEF Follows
  <2>2. CASE p # Len(stack)
    <3>1. p + 1 \in p + 1 .. Len(stack) /\ x = stack[p + 1]  BY <1>0, <1>11, <1>12, <2>2
    <3>2. x \in 1 .. N /\ file[x].up = b /\ x > 0  BY <1>26, <3>1
    <3>3. ASSUME NEW i \in 1 .. N, file[i].up = b PROVE x <= i
      <4>1. PICK j \in p + 1 .. Len(stack) : stack[j] = i  BY <1>25, <3>3
      <4>2. j = p + 1 \/ j > p + 1  BY <1>0, <1>12
      <4>3. j > p + 1 => stack[p + 1] < stack[j]  BY <1>26, <3>1 DEF StackInv
      <4> QED  BY <3>1, <3>2, <4>1, <4>2, <4>3
    <3> QED  BY <3>2, <3>3 DEF Follows
  <2> QED  BY <2>1, <2>2
<1>28. ASSUME NEW i \in 1 .. N, file[i].up = b
       PROVE  Follows(file, node'[i].friend, b, i)
  <2>1. PICK j \in p + 1 .. Len(stack) : stack[j] = i  BY <1>25, <1>28
  <2>2. CASE j = Len(stack)
    <3>1. \A h \in p + 1 .. Len(stack) - 1 : stack[h] # i
      <4> SUFFICES ASSUME NEW h \in p + 1 .. Len(stack) - 1 PROVE stack[h] # i  OBVIOUS
      <4>1. h \in 1 .. Len(stack) /\ h < j  BY <1>0, <1>12, <2>2
      <4>2. stack[h] < stack[j] /\ stack[h] \in 1 .. N  BY <1>9, <1>26, <4>1 DEF StackInv
      <4> QED  BY <2>1, <4>2
    <3>2. node'[i].friend = 0
      <4>1. node[i].friend = 0  BY <1>26, <2>1 DEF StackInv
      <4> QED  BY <1>19, <3>1, <4>1
    <3>3. ASSUME NEW h \in 1 .. N, file[h].up = b, h > i PROVE FALSE
      <4>1. PICK g \in p + 1 .. Len(stack) : stack[g] = h  BY <1>25, <3>3
      <4>2. g < j \/ g = j  BY <1>0, <1>12, <2>2
      <4>3. g < j => stack[g] < stack[j]  BY <1>26, <2>1, <4>1 DEF StackInv
      <4> QED  BY <2>1, <3>3, <4>1, <4>2, <4>3
    <3> QED  BY <3>2, <3>3 DEF Follows
  <2>3. CASE j # Len(stack)
    <3>1. j \in p + 1 .. Len(stack) - 1 /\ j + 1 \in p + 1 .. Len(stack)
      BY <1>0, <1>12, <2>3
    <3>2. node'[i].friend = stack[j + 1]  BY <1>18, <2>1, <3>1
    <3>3. /\ stack[j + 1] \in 1 .. N /\ file[stack[j + 1]].up = b
          /\ j + 1 \in 1 .. Len(stack) /\ j \in 1 .. Len(stack)
      BY <1>26, <3>1
    <3>4. stack[j + 1] > i
      <4>1. stack[j] < stack[j + 1]  BY <3>3 DEF StackInv
      <4> QED  BY <2>1, <3>3, <4>1
    <3>5. ASSUME NEW h \in 1 .. N, file[h].up = b, h > i PROVE stack[j + 1] <= h
      <4>1. PICK g \in p + 1 .. Len(stack) : stack[g] = h  BY <1>25, <3>5
      <4>2. g \in 1 .. Len(stack)  BY <1>26
      <4>3. g <= j \/ g = j + 1 \/ g > j + 1  BY <4>2, <3>3
      <4>4. g < j => stack[g] < stack[j]  BY <3>3, <4>2 DEF StackInv
      <4>5. g > j + 1 => stack[j + 1] < stack[g]  BY <3>3, <4>2 DEF StackInv
      <4>6. ~(g <= j)
        <5>1. ~(g < j) /\ g # j  BY <2>1, <3>5, <4>1, <4>4
        <5> QED  BY <3>3, <4>2, <5>1
      <4> QED  BY <3>3, <4>1, <4>3, <4>5, <4>6
    <3> QED  BY <3>2, <3>3, <3>4, <3>5 DEF Follows
  <2> QED  BY <2>2, <2>3
\* The blocks that were closed before.
<1>29. ASSUME NEW c \in 1 .. N, IsBlock(file[c].tag), c \notin Opened
       PROVE  /\ Follows(file, node'[c].child, c, 0)
              /\ \A i \in 1 .. N : file[i].up = c => Follows(file, node'[i].friend, c, i)
  <2>1. c # b  BY <1>1, <1>29
  <2>2. node'[c].child = node[c].child  BY <1>16, <1>17, <2>1
  <2>3. ASSUME NEW i \in 1 .. N, file[i].up = c PROVE node'[i].friend = node[i].friend
    <3>1. i \notin Waiting  BY <1>29, <2>3 DEF Waiting
    <3>2. \A j \in p + 1 .. Len(stack) - 1 : j \in 1 .. Len(stack)  BY <1>0, <1>12
    <3>3. \A j \in p + 1 .. Len(stack) - 1 : stack[j] # i  BY <1>9, <3>1, <3>2
    <3> QED  BY <1>19, <3>3
  <2> QED  BY <1>29, <2>2, <2>3 DEF TreeInv
<1>30. TreeInv'
  <2>1. ASSUME NEW c \in 1 .. N, IsBlock(file[c].tag), c \notin Opened'
        PROVE  /\ Follows(file, node'[c].child, c, 0)
               /\ \A i \in 1 .. N : file[i].up = c => Follows(file, node'[i].friend, c, i)
    <3>1. CASE c = b
      <4>1. node'[c].child = x  BY <1>16, <3>1
      <4> QED  BY <1>27, <1>28, <3>1, <4>1
    <3>2. CASE c # b
      <4>1. c \notin Opened  BY <1>4, <2>1, <3>2
      <4> QED  BY <1>29, <2>1, <4>1
    <3> QED  BY <3>1, <3>2
  <2> QED  BY <1>0, <2>1 DEF TreeInv
<1> QED  BY <1>20, <1>21, <1>22, <1>23, <1>24, <1>30

LEMMA ReaderClosed ==
  ASSUME ReaderInv, ReadClose
  PROVE  ReaderInv'
<1>0. /\ phase = "read" /\ phase' = phase /\ size' = size /\ log' = log
      /\ Typing /\ Typing'
  BY TypingClosed DEF ReadClose, ReaderInv
<1>1. CASE size = Capacity
  <2>1. FileInv' /\ BlocksInv' /\ NestInv' /\ KindInv' /\ TreeInv' /\ StackInv'
    BY <1>0, <1>1, OneLess DEF ReaderInv
  <2>2. WalkInv'  BY <1>0, <1>1 DEF ReaderInv, WalkInv
  <2> QED  BY <1>0, <2>1, <2>2 DEF ReaderInv
<1>2. CASE size # Capacity  BY <1>0, <1>2 DEF ReaderInv
<1> QED  BY <1>1, <1>2

LEMMA TreeSame ==
  ASSUME FileInv, BlocksInv, NestInv, KindInv, TreeInv,
         file' = file, blocks' = blocks, node' = node
  PROVE  FileInv' /\ BlocksInv' /\ NestInv' /\ KindInv' /\ TreeInv'
<1>1. Opened' = Opened  BY DEF Opened
<1>2. Waiting' = Waiting  BY <1>1 DEF Waiting
<1>3. FileInv' /\ BlocksInv'  BY DEF FileInv, BlocksInv
<1>4. NestInv'  BY <1>1, <1>2 DEF NestInv
<1>5. KindInv'  BY <1>1 DEF KindInv
<1>6. TreeInv'  BY <1>1 DEF TreeInv
<1> QED  BY <1>3, <1>4, <1>5, <1>6

\* With no block open all that is left on the stack is http.
LEMMA ReaderEnded ==
  ASSUME ReaderInv, EndOfFile
  PROVE  ReaderInv'
<1>0. /\ phase = "read" /\ phase' = "walk" /\ size' = size /\ log' = log
      /\ file' = file /\ blocks' = blocks /\ node' = node /\ blocks = <<>>
      /\ todo' = Calls(<<"http">>, stack[Len(stack)], RootConfig)
      /\ Typing /\ Typing'
  BY TypingEnded DEF EndOfFile, ReaderInv, fileVars
<1>1. CASE size = Capacity
  <2>1. FileInv /\ BlocksInv /\ NestInv /\ KindInv /\ TreeInv /\ WalkInv /\ StackInv
    BY <1>0, <1>1 DEF ReaderInv
  <2>2. FileInv' /\ BlocksInv' /\ NestInv' /\ KindInv' /\ TreeInv'
    BY <1>0, <2>1, TreeSame
  <2>3. Len(file) > 0  BY <1>0 DEF EndOfFile, Typing, TypeInv
  <2>4. Len(stack) \in 1 .. Len(stack)
    BY <1>0, <2>3 DEF Typing, TypeInv, RoomInv
  <2>5. stack[Len(stack)] = 1
    <3>1. stack[Len(stack)] \in Waiting  BY <2>1, <2>4 DEF StackInv
    <3>2. Opened = {}  BY <1>0 DEF Opened
    <3> QED  BY <2>1, <3>1, <3>2 DEF Waiting, FileInv
  <2>6. WalkInv'  BY <1>0, <2>3, <2>5 DEF WalkInv
  <2> QED  BY <1>0, <2>2, <2>6 DEF ReaderInv
<1>2. CASE size # Capacity  BY <1>0, <1>2 DEF ReaderInv
<1> QED  BY <1>1, <1>2

LEMMA ReaderWalked ==
  ASSUME ReaderInv, Walk
  PROVE  ReaderInv'
<1>0. /\ phase = "walk" /\ phase' \in {"walk", "crash"} /\ size' = size
      /\ file' = file /\ blocks' = blocks /\ node' = node
      /\ Typing /\ Typing' /\ log \in Seq(LogIn(Len(file), Len(log)))
  BY TypingWalked DEF Walk, ReaderInv, fileVars, stackVars, Typing, TypeInv
<1>1. CASE size = Capacity
  <2>1. FileInv /\ BlocksInv /\ NestInv /\ KindInv /\ TreeInv /\ WalkInv
    BY <1>1 DEF ReaderInv
  <2>2. FileInv' /\ BlocksInv' /\ NestInv' /\ KindInv' /\ TreeInv'
    BY <1>0, <2>1, TreeSame
  <2>3. Len(file) > 0 /\ blocks = <<>>  BY <1>0, <2>1 DEF WalkInv
  <2> DEFINE c == Head(todo)
  <2>4. log = <<>> => c.tag = "http" /\ c.node = 1
    <3>1. log = <<>> => todo = Calls(<<"http">>, 1, RootConfig)
      BY <1>0, <2>1 DEF WalkInv
    <3>2. Head(Calls(<<"http">>, 1, RootConfig))
            = [tag |-> "http", node |-> 1, config |-> RootConfig]
      BY DEF Calls
    <3> QED  BY <3>1, <3>2
  <2>5. Matches("http", 1)
    <3>1. 1 \in 1 .. Len(file) /\ file[1].up \in Nat /\ file[1].up < 1
      <4>1. 1 \in 1 .. Len(file)  BY <1>0, <2>3 DEF Typing, TypeInv
      <4>2. file[1] \in ItemIn(Len(file))  BY <1>0, <4>1 DEF Typing, TypeInv
      <4> QED  BY <2>1, <4>1, <4>2 DEF ItemIn, FileInv
    <3>2. file[1].tag = "http"  BY <2>1, <3>1 DEF FileInv
    <3> QED  BY <3>2 DEF Matches, Holds
  <2>6. log' # <<>>
    <3>1. CASE c.node = 0
      <4>1. log' = log  BY <3>1 DEF Walk
      <4> QED  BY <2>4, <3>1, <4>1
    <3>2. CASE c.node # 0
      <4>1. log' = IF Matches(c.tag, c.node) THEN Append(log, c) ELSE log
        BY <3>2 DEF Walk
      <4>2. Append(log, c) # <<>>  BY <1>0
      <4> QED  BY <2>4, <2>5, <4>1, <4>2
    <3> QED  BY <3>1, <3>2
  <2>7. WalkInv'  BY <1>0, <2>3, <2>6 DEF WalkInv
  <2> QED  BY <1>0, <2>2, <2>7 DEF ReaderInv
<1>2. CASE size # Capacity  BY <1>0, <1>2 DEF ReaderInv
<1> QED  BY <1>1, <1>2

LEMMA ReaderStep == ReaderInv /\ [Next]_vars => ReaderInv'
<1> SUFFICES ASSUME ReaderInv, [Next]_vars PROVE ReaderInv'  OBVIOUS
<1>0. Typing /\ Typing'  BY TypingStep DEF ReaderInv
<1>1. ASSUME NEW tag \in Tags, ReadOpen(tag) \/ ReadLeaf(tag) PROVE ReaderInv'
  BY <1>1, ReaderAdded
<1>2. CASE Finish
  <2>1. /\ phase = "walk" /\ phase' = "done" /\ size' = size /\ file' = file
        /\ blocks' = blocks /\ node' = node
    BY <1>2 DEF Finish, fileVars, stackVars
  <2>2. CASE size = Capacity
    <3>1. FileInv' /\ BlocksInv' /\ NestInv' /\ KindInv' /\ TreeInv'
      BY <2>1, <2>2, TreeSame DEF ReaderInv
    <3>2. WalkInv'  BY <2>1, <2>2 DEF ReaderInv, WalkInv
    <3> QED  BY <1>0, <2>1, <3>1, <3>2 DEF ReaderInv
  <2>3. CASE size # Capacity  BY <1>0, <2>1, <2>3 DEF ReaderInv
  <2> QED  BY <2>2, <2>3
<1>3. CASE UNCHANGED vars
  <2>1. /\ phase' = phase /\ size' = size /\ file' = file /\ blocks' = blocks
        /\ node' = node /\ stack' = stack /\ todo' = todo /\ log' = log
    BY <1>3 DEF vars, fileVars, stackVars
  <2>2. CASE size = Capacity
    <3>1. FileInv' /\ BlocksInv' /\ NestInv' /\ KindInv' /\ TreeInv'
      BY <2>1, <2>2, TreeSame DEF ReaderInv
    <3>2. WalkInv'  BY <2>1, <2>2 DEF ReaderInv, WalkInv
    <3>3. Waiting' = Waiting  BY <2>1 DEF Waiting, Opened
    <3>4. phase' = "read" => StackInv'
      BY <2>1, <2>2, <3>3 DEF ReaderInv, StackInv
    <3> QED  BY <1>0, <2>1, <3>1, <3>2, <3>4 DEF ReaderInv
  <2>3. CASE size # Capacity  BY <1>0, <2>1, <2>3 DEF ReaderInv
  <2> QED  BY <2>2, <2>3
<1> QED  BY <1>1, <1>2, <1>3, ReaderClosed, ReaderEnded, ReaderWalked DEF Next

LEMMA FollowsIs ==
  ASSUME TypeInv, NEW x, NEW b, NEW i \in Nat, Follows(file, x, b, i)
  PROVE  x = FirstOf({j \in In(b) : j > i})
<1> DEFINE S == {j \in In(b) : j > i}
<1>0. Len(file) \in Nat /\ DOMAIN file = 1 .. Len(file)  BY DEF TypeInv
<1>1. \A j : j \in S <=> j \in 1 .. Len(file) /\ file[j].up = b /\ j > i
  BY <1>0 DEF In
<1> HIDE DEF S
<1>2. CASE x = 0
  <2>1. S = {}  BY <1>1, <1>2 DEF Follows
  <2> QED  BY <1>2, <2>1 DEF FirstOf, S
<1>3. CASE x # 0
  <2>1. x \in S /\ S \in SUBSET Int /\ \A y \in S : x <= y
    BY <1>0, <1>1, <1>3 DEF Follows
  <2>2. FirstOf(S) = x  BY <2>1, FirstIs
  <2> QED  BY <2>2 DEF S
<1> QED  BY <1>2, <1>3

LEMMA ReaderKeeps == ReaderInv => TreeAsWritten
<1> SUFFICES ASSUME ReaderInv, size = Capacity PROVE DirectivesKept
  BY DEF TreeAsWritten
<1>0. TypeInv /\ DOMAIN file = 1 .. Len(file) /\ TreeInv /\ WalkInv /\ Len(blocks) \in Nat
      /\ DOMAIN blocks = 1 .. Len(blocks)
  BY DEF ReaderInv, Typing, TypeInv
<1>1. ASSUME NEW b \in Closed PROVE Kept(b)
  <2>1. b \in 1 .. Len(file) /\ IsBlock(file[b].tag) /\ b \notin Opened
    BY <1>0 DEF Closed, Opened
  <2>2. In(b) = {j \in In(b) : j > 0}  BY <1>0 DEF In
  <2>3. node[b].child = FirstOf(In(b))
    <3>1. Follows(file, node[b].child, b, 0)  BY <1>0, <2>1 DEF TreeInv
    <3>2. node[b].child = FirstOf({j \in In(b) : j > 0})  BY <1>0, <3>1, FollowsIs
    <3> QED  BY <2>2, <3>2
  <2>4. ASSUME NEW i \in In(b)
        PROVE  node[i].friend = FirstOf({j \in In(b) : j > i})
    <3>1. i \in 1 .. Len(file) /\ file[i].up = b /\ i \in Nat  BY <1>0 DEF In
    <3>2. Follows(file, node[i].friend, b, i)  BY <1>0, <2>1, <3>1 DEF TreeInv
    <3> QED  BY <1>0, <3>1, <3>2, FollowsIs
  <2> QED  BY <2>3, <2>4 DEF Kept
<1>2. phase = "walk" /\ log = <<>> /\ Len(todo) = 1 => todo[1].node = 1
  <2>1. Calls(<<"http">>, 1, RootConfig)[1].node = 1  BY DEF Calls
  <2> QED  BY <1>0, <2>1 DEF WalkInv
<1> QED  BY <1>1, <1>2 DEF DirectivesKept

\* The tree is the file's, for files of any length and nesting and stacks of any
\* capacity, as long as the stack was not enlarged while the file was read.
THEOREM TreeIsTheFile == Spec => []TreeAsWritten
BY ReaderInit, ReaderStep, ReaderKeeps, PTL DEF Spec
-----------------------------------------------------------------------------
(* When the stack is enlarged.                                             *)

\* One entry of the stack for each directive that waits for its block to be closed.
LEMMA StackCounts ==
  ASSUME ReaderInv, size = Capacity, phase = "read"
  PROVE  IsFiniteSet(Waiting) /\ Cardinality(Waiting) = Len(stack)
<1>0. /\ StackInv /\ stack \in Seq(0 .. Len(file)) /\ Len(stack) \in Nat
      /\ Len(file) \in Nat
  BY DEF ReaderInv, Typing, TypeInv
<1> DEFINE L == Len(stack)
           f == [j \in 1 .. L |-> stack[j]]
<1>1. \A j \in 1 .. L : f[j] = stack[j]  OBVIOUS
<1>2. f \in [1 .. L -> Waiting]  BY <1>0 DEF StackInv
<1>3. ASSUME NEW j \in 1 .. L, NEW k \in 1 .. L, f[j] = f[k] PROVE j = k
  <2>1. stack[j] \in Nat /\ stack[k] \in Nat  BY <1>0
  <2>2. j < k => stack[j] < stack[k]  BY <1>0 DEF StackInv
  <2>3. k < j => stack[k] < stack[j]  BY <1>0 DEF StackInv
  <2> QED  BY <1>0, <1>1, <1>3, <2>1, <2>2, <2>3
<1>4. \A i \in Waiting : \E j \in 1 .. L : f[j] = i  BY <1>0, <1>1 DEF StackInv
<1> HIDE DEF f
<1>5. f \in Bijection(1 .. L, Waiting)
  <2>1. IsInjective(f)  BY <1>2, <1>3 DEF IsInjective
  <2> QED  BY <1>2, <1>4, <2>1 DEF Bijection, Injection, Surjection
<1>6. IsFiniteSet(1 .. L) /\ Cardinality(1 .. L) = L
  <2>1. 1 \in Int /\ L \in Int /\ L \in Nat  BY <1>0
  <2> HIDE DEF L
  <2>2. IsFiniteSet(1 .. L) /\ Cardinality(1 .. L) = IF 1 > L THEN 0 ELSE L - 1 + 1
    BY <2>1, FS_Interval, Zenon
  <2> DEFINE C == Cardinality(1 .. L)
  <2>3. C = IF 1 > L THEN 0 ELSE L - 1 + 1  BY <2>2
  <2> HIDE DEF C
  <2>4. C = L  BY <2>1, <2>3
  <2> QED  BY <2>2, <2>4 DEF C
<1>7. ExistsBijection(1 .. L, Waiting)  BY <1>5 DEF ExistsBijection
<1>8. IsFiniteSet(Waiting) /\ Cardinality(Waiting) = Cardinality(1 .. L)
  BY <1>6, <1>7, FS_Bijection
<1> QED  BY <1>6, <1>8

\* push_stack and resize_stack: an array of the first size is exchanged for a larger one
\* just when it and the padding behind it are full.
GrowsWhenFull == [][size = Capacity /\ size' # size
                      => Cardinality(Waiting) = Capacity + 1]_vars

LEMMA GrowthStep ==
  ASSUME ReaderInv, [Next]_vars, size = Capacity, size' # size
  PROVE  /\ IsFiniteSet(Waiting) /\ Cardinality(Waiting) = Capacity + 1
         /\ \E tag \in Tags : ReadOpen(tag) \/ ReadLeaf(tag)
<1>1. PICK tag \in Tags : ReadOpen(tag) \/ ReadLeaf(tag)
  <2>1. ReadClose \/ EndOfFile \/ Walk \/ Finish \/ UNCHANGED vars => size' = size
    BY DEF vars, fileVars, stackVars, ReadClose, EndOfFile, Walk, Finish
  <2> QED  BY <2>1 DEF Next
<1>2. phase = "read" /\ Push(Len(node) + 1)
  BY <1>1 DEF ReadOpen, ReadLeaf, Directive, NewNode
<1>3. Len(stack) = size + 1  BY <1>2 DEF Push
<1> QED  BY <1>1, <1>2, <1>3, StackCounts

\* The stack is enlarged for the first time by the directive for which Capacity + 1 others
\* wait, in files of any form and for any capacity.
THEOREM StackGrowsWhenFull == Spec => GrowsWhenFull
<1>1. ReaderInv /\ [Next]_vars
        => [size = Capacity /\ size' # size => Cardinality(Waiting) = Capacity + 1]_vars
  <2> SUFFICES ASSUME ReaderInv, [Next]_vars, size = Capacity, size' # size
               PROVE  Cardinality(Waiting) = Capacity + 1
    OBVIOUS
  <2> QED  BY GrowthStep
<1>2. Spec => []ReaderInv  BY ReaderInit, ReaderStep, PTL DEF Spec
<1>3. Spec => [][Next]_vars  BY DEF Spec
<1> QED  BY <1>1, <1>2, <1>3, PTL DEF GrowsWhenFull

\* What waits goes on to wait while directives are added, and the new one with it.
LEMMA WaitingGrows ==
  ASSUME Typing, Typing', IsFiniteSet(Waiting),
         NEW tag \in Tags, ReadOpen(tag) \/ ReadLeaf(tag)
  PROVE  Cardinality(Waiting') >= Cardinality(Waiting) + 1
<1> DEFINE N == Len(file)
<1>0. /\ N \in Nat /\ Len(blocks) \in Nat /\ blocks \in Seq(1 .. N)
      /\ file \in Seq(ItemIn(N))
  BY DEF Typing, TypeInv
<1>1. PICK n \in NodeIn(0) : Added(tag, n)  BY AddedIs
<1>2. PICK d \in ItemIn(N) : file' = Append(file, d) /\ d.up = Here
  BY <1>1, DirectiveIs DEF Typing, Added
<1>3. /\ Len(file') = N + 1 /\ file'[N + 1] = d
      /\ \A i \in 1 .. N : file'[i] = file[i]
  BY <1>0, <1>2, Appended
<1>4. \A k \in 1 .. Len(blocks) : k \in 1 .. Len(blocks') /\ blocks'[k] = blocks[k]
  <2>1. blocks \in Seq(Nat)
    <3>1. 1 .. N \subseteq Nat  OBVIOUS
    <3> QED  BY <1>0, <3>1, SeqMonotonic
  <2>2. blocks' = Append(blocks, N + 1) \/ blocks' = blocks  BY <1>1 DEF Added
  <2>3. CASE blocks' = Append(blocks, N + 1)
    <3>1. /\ Len(blocks') = Len(blocks) + 1
          /\ \A k \in 1 .. Len(blocks) : blocks'[k] = blocks[k]
      BY <1>0, <2>1, <2>3, Appended
    <3>2. \A k \in 1 .. Len(blocks) : k \in 1 .. Len(blocks) + 1  BY <1>0
    <3> QED  BY <3>1, <3>2
  <2>4. CASE blocks' = blocks  BY <2>4
  <2> QED  BY <2>2, <2>3, <2>4
<1>5. Opened \subseteq Opened'  BY <1>4 DEF Opened
<1>6. Waiting \subseteq Waiting'  BY <1>0, <1>3, <1>5 DEF Waiting
<1>7. N + 1 \in Waiting'
  <2>1. Here # 0 => Here \in Opened  BY <1>0 DEF Here, Opened
  <2>2. N + 1 \in 1 .. Len(file')  BY <1>0, <1>3
  <2> QED  BY <1>2, <1>3, <1>5, <2>1, <2>2 DEF Waiting
<1>8. N + 1 \notin Waiting  BY <1>0 DEF Waiting
<1>9. IsFiniteSet(Waiting')
  <2>1. Waiting' \subseteq 1 .. N + 1  BY <1>3 DEF Waiting
  <2>2. IsFiniteSet(1 .. N + 1)  BY <1>0, FS_Interval
  <2> QED  BY <2>1, <2>2, FS_Subset
<1>10. Cardinality(Waiting \cup {N + 1}) = Cardinality(Waiting) + 1
  BY <1>8, FS_AddElement
<1>11. Cardinality(Waiting \cup {N + 1}) <= Cardinality(Waiting')
  <2>1. Waiting \cup {N + 1} \subseteq Waiting'  BY <1>6, <1>7
  <2> QED  BY <1>9, <2>1, FS_Subset
<1>12. Cardinality(Waiting') \in Nat /\ Cardinality(Waiting) \in Nat
  BY <1>9, FS_CardinalityType
<1> QED  BY <1>10, <1>11, <1>12

\* The directives that wait fit into the first array and the padding behind it.
FewWaiting == Cardinality(Waiting) <= Capacity + 1

LEMMA FewStep ==
  ASSUME ReaderInv, FewWaiting', size = Capacity, [Next]_vars
  PROVE  size' = Capacity
<1> SUFFICES ASSUME size' # size PROVE FALSE  OBVIOUS
<1>1. IsFiniteSet(Waiting) /\ Cardinality(Waiting) = Capacity + 1  BY GrowthStep
<1>2. PICK tag \in Tags : ReadOpen(tag) \/ ReadLeaf(tag)  BY GrowthStep
<1>3. Typing /\ Typing'  BY ReaderStep DEF ReaderInv
<1>4. Cardinality(Waiting') >= Cardinality(Waiting) + 1  BY <1>1, <1>2, <1>3, WaitingGrows
<1>5. Cardinality(Waiting') <= Capacity + 1  BY DEF FewWaiting
<1>6. IsFiniteSet(Waiting')
  <2>1. Len(file') \in Nat /\ Waiting' \subseteq 1 .. Len(file')
    BY <1>3 DEF Waiting, Typing, TypeInv
  <2>2. IsFiniteSet(1 .. Len(file'))  BY <2>1, FS_Interval
  <2> QED  BY <2>1, <2>2, FS_Subset
<1>7. PICK c \in Nat : c = Cardinality(Waiting')  BY <1>6, FS_CardinalityType
<1> QED  BY <1>1, <1>4, <1>5, <1>7, ConfigAssumption

\* A file of which never more than Capacity + 1 directives wait for the end of their block
\* is read without loss: the condition under which what doc/config.md says holds.
THEOREM FewAreKept == Spec /\ []FewWaiting => []DirectivesKept
<1>1. Init => size = Capacity  BY DEF Init
<1>2. ReaderInv /\ FewWaiting' /\ size = Capacity /\ [Next]_vars => (size = Capacity)'
  BY FewStep
<1>3. ReaderInv /\ size = Capacity => DirectivesKept
  BY ReaderKeeps DEF TreeAsWritten
<1> QED  BY <1>1, <1>2, <1>3, ReaderInit, ReaderStep, PTL DEF Spec
=============================================================================
