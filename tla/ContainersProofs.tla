-------------------------- MODULE ContainersProofs --------------------------
(***************************************************************************)
(* Theorems about Containers, for any sizes, keys, values and strings.     *)
(***************************************************************************)
EXTENDS Containers, TLAPS, SequenceTheorems, FiniteSetTheorems

\* The cases of Next, one per operation.
LEMMA NextCases ==
  ASSUME [Next]_vars
  PROVE  \/ \E v \in Values : Add(v)
         \/ \E v \in Values, i \in 0 .. size : AddIndex(i, v)
         \/ \E k \in Keys, v \in Values : Put(k, v)
         \/ \E k \in Keys : Delete(k)
         \/ \E how \in {"char", "chars"}, src \in Strings : Join(how, src)
         \/ \E v \in Values : ValueChar(v)
         \/ \E src \in Strings : ValueChars(src)
         \/ Resize
         \/ Joined
         \/ UNCHANGED vars
BY DEF Next, ListStep, MapStep, TextStep

-----------------------------------------------------------------------------
(* Types.  That the length of a map is not negative has to wait until its  *)
(* nodes are counted.                                                      *)

Entries == [key : Keys, data : Values]

Numbers == /\ kind \in {"list", "map", "text"} /\ cap \in Nat
           /\ size \in Nat \ {0} /\ length \in Int
           /\ kind # "map" => length \in Nat

Memory == /\ ~broken => DOMAIN data = IF kind = "map" THEN {}
                                      ELSE IF lent THEN 0 .. length ELSE 0 .. size - 1
          /\ \A i \in DOMAIN data : data[i] \in Values \cup {NULL}

Chains == kind = "map" => /\ DOMAIN chain = 0 .. size - 1
                          /\ \A b \in 0 .. size - 1 : chain[b] \in Seq(Entries)

Joins == /\ call \in [how : {"none", "char", "chars"}, src : Seq(Values)]
         /\ (call = Idle) <=> (call.how = "none")

Flags == /\ lent \in BOOLEAN /\ asUsed \in BOOLEAN /\ broken \in BOOLEAN
         /\ kind # "text" => ~lent

TypeInv == Numbers /\ Memory /\ Chains /\ Joins /\ Flags

\* The array of a string: its characters, then NULs, at least one.
TextInv == kind = "text" /\ ~broken =>
             /\ length \in DOMAIN data
             /\ want = [i \in 0 .. length - 1 |-> data[i]]
             /\ \A i \in 0 .. length - 1 : data[i] \in Values
             /\ \A i \in DOMAIN data : i >= length => data[i] = NULL

\* So strcat and strcpy find the end where the length says.
LEMMA EndIsLength ==
  ASSUME TypeInv, TextInv, kind = "text", ~broken
  PROVE  End = length
<1>1. DOMAIN data \subseteq Nat /\ length \in Nat
  BY DEF TypeInv, Numbers, Memory
<1>2. length \in Nuls
  BY <1>1 DEF TextInv, Nuls
<1>3. \A i \in Nuls : length <= i
  BY <1>1, ContainersAssumption DEF ContainersAssumption, TextInv, Nuls
<1>4. End \in Nuls /\ \A j \in Nuls : End <= j
  BY <1>2, <1>3 DEF End
<1> QED
  BY <1>1, <1>2, <1>3, <1>4 DEF Nuls

\* No key is twice in a bucket, and each is in its own.
Unique == kind = "map" /\ ~broken =>
            \A b \in DOMAIN chain : \A i, j \in DOMAIN chain[b] :
              /\ (chain[b][i].key % UIntMod) % size = b
              /\ chain[b][i].key = chain[b][j].key => i = j

\* So a key has one node at most, and Node finds it.
LEMMA NodeInChain ==
  ASSUME TypeInv, Unique, kind = "map", ~broken,
         NEW k \in Keys, At(k) # {}, hash(k) \in 0 .. size - 1
  PROVE  Node(k) \in 1 .. Len(chain[hash(k)]) /\ chain[hash(k)][Node(k)].key = k
<1>1. hash(k) \in DOMAIN chain /\ chain[hash(k)] \in Seq(Entries)
  BY DEF TypeInv, Chains
<1>2. PICK j \in At(k) : TRUE
  OBVIOUS
<1>3. \A i \in At(k) : i = j
  BY <1>1, <1>2 DEF Unique, At
<1>4. \A i \in At(k) : j <= i
  BY <1>1, <1>2, <1>3 DEF At
<1>5. Node(k) \in At(k)
  BY <1>2, <1>4, Zenon DEF Node
<1> QED
  BY <1>1, <1>5 DEF At

LEMMA HashInBuckets ==
  ASSUME NEW k \in Keys, size \in Nat \ {0}
  PROVE  hash(k) \in 0 .. size - 1
<1>1. k % UIntMod \in Nat
  BY ContainersAssumption DEF ContainersAssumption
<1>2. \A x \in Nat, n \in Nat \ {0} : x % n \in 0 .. n - 1
  OBVIOUS
<1> QED
  BY <1>1, <1>2 DEF hash

LEMMA TypeInit == Init => TypeInv
<1> SUFFICES ASSUME Init PROVE TypeInv
  OBVIOUS
<1>1. Numbers
  <2>1. cap \in Nat
    BY ContainersAssumption DEF ContainersAssumption, Init, InitArraylist, InitHashmap,
       InitString, Sized
  <2>2. size = (IF cap = 0 THEN Default ELSE cap)
          \/ size = (IF cap = 0 THEN MapDefault ELSE cap)
    BY DEF Init, InitArraylist, InitHashmap, InitString, Sized
  <2>3. size \in Nat \ {0}
    BY <2>1, <2>2, ContainersAssumption DEF ContainersAssumption
  <2>4. kind \in {"list", "map", "text"} /\ length = 0
    BY DEF Init, InitArraylist, InitHashmap, InitString
  <2> QED
    BY <2>1, <2>3, <2>4 DEF Numbers
<1>2. Memory
  <2>1. CASE InitHashmap
    <3>1. DOMAIN data = {}
      BY <2>1 DEF InitHashmap
    <3> QED
      BY <2>1, <3>1 DEF InitHashmap, Memory
  <2>2. CASE InitArraylist \/ InitString
    BY <2>2 DEF Init, InitArraylist, InitString, Memory
  <2> QED
    BY <2>1, <2>2 DEF Init
<1>3. Chains
  BY EmptySeq DEF Init, InitArraylist, InitHashmap, InitString, Chains
<1>4. Joins
  BY EmptySeq DEF Init, Joins, Idle
<1>5. Flags
  BY DEF Init, Flags
<1> QED
  BY <1>1, <1>2, <1>3, <1>4, <1>5 DEF TypeInv

LEMMA GrownType == ASSUME size \in Nat \ {0} PROVE Grown \in Nat \ {0} /\ Grown >= size
BY DEF Grown

LEMMA NumbersStep == TypeInv /\ [Next]_vars => Numbers'
<1> SUFFICES ASSUME TypeInv, [Next]_vars PROVE Numbers'
  OBVIOUS
<1> USE DEF TypeInv, Numbers
<1>1. ASSUME NEW v \in Values, Add(v) PROVE Numbers'
  BY <1>1, GrownType DEF Add
<1>2. ASSUME NEW v \in Values, NEW i \in 0 .. size, AddIndex(i, v) PROVE Numbers'
  BY <1>2 DEF AddIndex
<1>3. ASSUME NEW k \in Keys, NEW v \in Values, Put(k, v) PROVE Numbers'
  BY <1>3 DEF Put
<1>4. ASSUME NEW k \in Keys, Delete(k) PROVE Numbers'
  BY <1>4 DEF Delete
<1>5. ASSUME NEW how \in {"char", "chars"}, NEW src \in Strings, Join(how, src)
      PROVE  Numbers'
  BY <1>5 DEF Join
<1>6. ASSUME NEW v \in Values, ValueChar(v) PROVE Numbers'
  BY <1>6 DEF ValueChar
<1>7. ASSUME NEW src \in Strings, ValueChars(src) PROVE Numbers'
  <2>1. Len(src) \in Nat
    BY ContainersAssumption DEF ContainersAssumption
  <2> QED
    BY <1>7, <2>1 DEF ValueChars
<1>8. ASSUME Resize PROVE Numbers'
  BY <1>8, GrownType DEF Resize
<1>9. ASSUME Joined PROVE Numbers'
  <2>1. Len(call.src) \in Nat
    BY DEF Joins
  <2> QED
    BY <1>9, <2>1 DEF Joined
<1>10. ASSUME UNCHANGED vars PROVE Numbers'
  BY <1>10 DEF vars
<1> QED
  BY <1>1, <1>2, <1>3, <1>4, <1>5, <1>6, <1>7, <1>8, <1>9, <1>10, NextCases

LEMMA MemoryStep == TypeInv /\ TextInv /\ [Next]_vars => Memory'
<1> SUFFICES ASSUME TypeInv, TextInv, [Next]_vars PROVE Memory'
  OBVIOUS
<1> USE DEF TypeInv, Numbers, Memory, Flags
<1>1. ASSUME NEW v \in Values, Add(v) PROVE Memory'
  <2> DEFINE room == IF Full THEN Grown ELSE size
  <2>1. room \in Nat \ {0} /\ room >= size
    BY GrownType
  <2>2. size' = room /\ data' = [Copied(room, size) EXCEPT ![length] = v]
    BY <1>1 DEF Add
  <2>3. DOMAIN data' = 0 .. size' - 1
    BY <2>2 DEF Copied
  <2>4. kind' = "list" /\ lent' = lent /\ kind = "list" /\ ~broken
    BY <1>1 DEF Add
  <2>5. lent = FALSE
    BY <2>4
  <2> QED
    BY <2>1, <2>2, <2>3, <2>4 DEF Copied
<1>2. ASSUME NEW v \in Values, NEW i \in 0 .. size, AddIndex(i, v) PROVE Memory'
  BY <1>2 DEF AddIndex
<1>3. ASSUME NEW k \in Keys, NEW v \in Values, Put(k, v) PROVE Memory'
  BY <1>3 DEF Put
<1>4. ASSUME NEW k \in Keys, Delete(k) PROVE Memory'
  BY <1>4 DEF Delete
<1>5. ASSUME NEW how \in {"char", "chars"}, NEW src \in Strings, Join(how, src)
      PROVE  Memory'
  BY <1>5 DEF Join
<1>6. ASSUME NEW v \in Values, ValueChar(v) PROVE Memory'
  BY <1>6 DEF ValueChar
<1>7. ASSUME NEW src \in Strings, ValueChars(src) PROVE Memory'
  <2>1. src \in Seq(Values)
    BY ContainersAssumption DEF ContainersAssumption
  <2> QED
    BY <1>7, <2>1, ElementOfSeq DEF ValueChars
<1>8. ASSUME Resize PROVE Memory'
  <2>1. End = length
    BY <1>8, EndIsLength DEF Resize
  <2>2. size' = Grown /\ data' = [i \in 0 .. Grown - 1 |-> IF i < length THEN data[i] ELSE NULL]
    BY <1>8, <2>1 DEF Resize, Copied
  <2>3. kind' = "text" /\ broken' = lent /\ lent' = lent /\ 0 .. length \subseteq DOMAIN data
    BY <1>8 DEF Resize, TextInv
  <2>4. \A i \in DOMAIN data' : data'[i] \in Values \cup {NULL}
    BY <2>2, <2>3, GrownType
  <2> QED
    BY <2>2, <2>3, <2>4
<1>9. ASSUME Joined PROVE Memory'
  <2>1. kind = "text" /\ ~broken /\ End = length /\ length \in Nat
    BY <1>9, EndIsLength DEF Joined
  <2>2. data' = [i \in DOMAIN data |->
                   IF i \in length .. length + Len(call.src) - 1
                   THEN call.src[i - length + 1]
                   ELSE IF call.how # "char" /\ i = length + Len(call.src) THEN NULL
                   ELSE data[i]]
    BY <1>9, <2>1 DEF Joined
  <2>3. call.src \in Seq(Values) /\ Len(call.src) \in Nat
    BY DEF Joins
  <2>4. ASSUME NEW i \in DOMAIN data PROVE data'[i] \in Values \cup {NULL}
    <3>1. CASE i \in length .. length + Len(call.src) - 1
      <4>1. i - length + 1 \in 1 .. Len(call.src)
        BY <3>1, <2>1, <2>3
      <4>2. call.src[i - length + 1] \in Values
        BY <4>1, <2>3, ElementOfSeq
      <4> QED
        BY <4>2, <3>1, <2>2
    <3>2. CASE i \notin length .. length + Len(call.src) - 1
      BY <3>2, <2>2
    <3> QED
      BY <3>1, <3>2
  <2>5. DOMAIN data' = DOMAIN data /\ UNCHANGED <<kind, size, lent>>
    BY <1>9, <2>2 DEF Joined
  <2>6. lent => length' = length \/ broken'
    BY <1>9, <2>3 DEF Joined
  <2> QED
    BY <2>1, <2>4, <2>5, <2>6
<1>10. ASSUME UNCHANGED vars PROVE Memory'
  BY <1>10 DEF vars
<1> QED
  BY <1>1, <1>2, <1>3, <1>4, <1>5, <1>6, <1>7, <1>8, <1>9, <1>10, NextCases

LEMMA ChainsStep == TypeInv /\ Unique /\ [Next]_vars => Chains'
<1> SUFFICES ASSUME TypeInv, Unique, [Next]_vars PROVE Chains'
  OBVIOUS
<1> USE DEF TypeInv, Chains
<1>1. ASSUME NEW v \in Values, Add(v) PROVE Chains'
  BY <1>1 DEF Add
<1>2. ASSUME NEW v \in Values, NEW i \in 0 .. size, AddIndex(i, v) PROVE Chains'
  BY <1>2 DEF AddIndex
<1>3. ASSUME NEW k \in Keys, NEW v \in Values, Put(k, v) PROVE Chains'
  <2> DEFINE b == hash(k)
             new == [key |-> k, data |-> v]
  <2>1. kind = "map" /\ UNCHANGED <<kind, size>> /\ ~broken
    BY <1>3 DEF Put
  <2>2. b \in 0 .. size - 1 /\ new \in Entries
    BY HashInBuckets DEF Numbers, Entries
  <2>3. chain[b] \in Seq(Entries) /\ DOMAIN chain = 0 .. size - 1
    BY <2>1, <2>2
  <2>4. CASE At(k) # {}
    <3>1. chain' = [chain EXCEPT ![b] = [chain[b] EXCEPT ![Node(k)] = new]]
      BY <1>3, <2>4 DEF Put
    <3>2. [chain[b] EXCEPT ![Node(k)] = new] \in Seq(Entries)
      BY <2>1, <2>2, <2>3, <2>4, NodeInChain, ExceptSeq
    <3> QED
      BY <2>1, <2>2, <2>3, <3>1, <3>2
  <2>5. CASE At(k) = {}
    <3>1. chain' = [chain EXCEPT ![b] = <<new>> \o chain[b]]
      BY <1>3, <2>5 DEF Put
    <3>2. <<new>> \o chain[b] \in Seq(Entries)
      BY <2>2, <2>3
    <3> QED
      BY <2>1, <2>2, <2>3, <3>1, <3>2
  <2> QED
    BY <2>4, <2>5
<1>4. ASSUME NEW k \in Keys, Delete(k) PROVE Chains'
  <2> DEFINE b == hash(k)
             cut == SubSeq(chain[b], 1, Node(k) - 1)
                      \o SubSeq(chain[b], Node(k) + 1, Len(chain[b]))
  <2>1. kind = "map" /\ UNCHANGED <<kind, size>> /\ ~broken
    BY <1>4 DEF Delete
  <2>2. b \in 0 .. size - 1 /\ chain[b] \in Seq(Entries)
    BY <2>1, HashInBuckets DEF Numbers
  <2>3. chain' = [chain EXCEPT ![b] = cut]
    BY <1>4 DEF Delete
  <2>4. Node(k) \in 1 .. Len(chain[b])
    BY <1>4, <2>1, <2>2, NodeInChain DEF Delete
  <2>5. cut \in Seq(Entries)
    BY <2>2, <2>4
  <2> QED
    BY <2>1, <2>2, <2>3, <2>5
<1>5. ASSUME NEW how \in {"char", "chars"}, NEW src \in Strings, Join(how, src)
      PROVE  Chains'
  BY <1>5 DEF Join
<1>6. ASSUME NEW v \in Values, ValueChar(v) PROVE Chains'
  BY <1>6 DEF ValueChar
<1>7. ASSUME NEW src \in Strings, ValueChars(src) PROVE Chains'
  BY <1>7 DEF ValueChars
<1>8. ASSUME Resize PROVE Chains'
  BY <1>8 DEF Resize
<1>9. ASSUME Joined PROVE Chains'
  BY <1>9 DEF Joined
<1>10. ASSUME UNCHANGED vars PROVE Chains'
  BY <1>10 DEF vars
<1> QED
  BY <1>1, <1>2, <1>3, <1>4, <1>5, <1>6, <1>7, <1>8, <1>9, <1>10, NextCases

LEMMA JoinsStep == TypeInv /\ [Next]_vars => Joins' /\ Flags'
<1> SUFFICES ASSUME TypeInv, [Next]_vars PROVE Joins' /\ Flags'
  OBVIOUS
<1> USE DEF TypeInv, Joins, Flags
<1>1. ASSUME NEW v \in Values, Add(v) PROVE Joins' /\ Flags'
  BY <1>1 DEF Add
<1>2. ASSUME NEW v \in Values, NEW i \in 0 .. size, AddIndex(i, v) PROVE Joins' /\ Flags'
  BY <1>2 DEF AddIndex
<1>3. ASSUME NEW k \in Keys, NEW v \in Values, Put(k, v) PROVE Joins' /\ Flags'
  BY <1>3 DEF Put
<1>4. ASSUME NEW k \in Keys, Delete(k) PROVE Joins' /\ Flags'
  BY <1>4 DEF Delete
<1>5. ASSUME NEW how \in {"char", "chars"}, NEW src \in Strings, Join(how, src)
      PROVE  Joins' /\ Flags'
  <2>1. call' = [how |-> how, src |-> src] /\ src \in Seq(Values)
    BY <1>5, ContainersAssumption DEF Join, ContainersAssumption
  <2>2. Joins'
    BY <2>1 DEF Idle
  <2>3. Flags'
    BY <1>5 DEF Join
  <2> QED
    BY <2>2, <2>3
<1>6. ASSUME NEW v \in Values, ValueChar(v) PROVE Joins' /\ Flags'
  BY <1>6 DEF ValueChar
<1>7. ASSUME NEW src \in Strings, ValueChars(src) PROVE Joins' /\ Flags'
  BY <1>7 DEF ValueChars
<1>8. ASSUME Resize PROVE Joins' /\ Flags'
  BY <1>8 DEF Resize
<1>9. ASSUME Joined PROVE Joins' /\ Flags'
  <2>1. call' = Idle /\ UNCHANGED <<kind, lent, asUsed>>
          /\ broken' = (lent /\ Len(call.src) # 0)
    BY <1>9 DEF Joined
  <2>2. Joins'
    BY <2>1, EmptySeq DEF Idle
  <2>3. Flags'
    BY <2>1
  <2> QED
    BY <2>2, <2>3
<1>10. ASSUME UNCHANGED vars PROVE Joins' /\ Flags'
  BY <1>10 DEF vars
<1> QED
  BY <1>1, <1>2, <1>3, <1>4, <1>5, <1>6, <1>7, <1>8, <1>9, <1>10, NextCases

-----------------------------------------------------------------------------
(* The string.                                                             *)

LEMMA TextInit == Init => TextInv
<1> SUFFICES ASSUME Init, kind = "text" PROVE TextInv
  BY DEF TextInv
<1>1. cap \in Nat /\ size = IF cap = 0 THEN Default ELSE cap
  BY ContainersAssumption DEF ContainersAssumption, Init, InitArraylist, InitHashmap,
     InitString, Sized
<1>2. size \in Nat /\ size > 0
  BY <1>1, ContainersAssumption DEF ContainersAssumption
<1>3. length = 0 /\ data = [i \in 0 .. size - 1 |-> NULL] /\ want = <<>>
  BY DEF Init, InitArraylist, InitHashmap, InitString
<1>4. want = [i \in 0 .. length - 1 |-> data[i]]
  BY <1>3
<1> QED
  BY <1>2, <1>3, <1>4 DEF TextInv

LEMMA TextStep1 == TypeInv /\ TextInv /\ [Next]_vars => TextInv'
<1> SUFFICES ASSUME TypeInv, TextInv, [Next]_vars, kind' = "text", ~broken'
             PROVE  TextInv'
  BY DEF TextInv
<1>1. ASSUME NEW v \in Values, Add(v) PROVE TextInv'
  BY <1>1 DEF Add
<1>2. ASSUME NEW v \in Values, NEW i \in 0 .. size, AddIndex(i, v) PROVE TextInv'
  BY <1>2 DEF AddIndex
<1>3. ASSUME NEW k \in Keys, NEW v \in Values, Put(k, v) PROVE TextInv'
  BY <1>3 DEF Put
<1>4. ASSUME NEW k \in Keys, Delete(k) PROVE TextInv'
  BY <1>4 DEF Delete
<1>5. ASSUME NEW how \in {"char", "chars"}, NEW src \in Strings, Join(how, src)
      PROVE  TextInv'
  BY <1>5 DEF Join, TextInv
<1>6. ASSUME NEW v \in Values, ValueChar(v) PROVE TextInv'
  BY <1>6 DEF ValueChar
<1>7. ASSUME NEW src \in Strings, ValueChars(src) PROVE TextInv'
  <2>1. src \in Seq(Values) /\ Len(src) \in Nat
    BY ContainersAssumption DEF ContainersAssumption
  <2>2. length' = Len(src)
          /\ data' = [i \in 0 .. Len(src) |-> IF i < Len(src) THEN src[i + 1] ELSE NULL]
          /\ want' = [i \in 0 .. Len(src) - 1 |-> src[i + 1]]
    BY <1>7 DEF ValueChars
  <2>3. \A i \in 0 .. length' - 1 : data'[i] = src[i + 1] /\ data'[i] \in Values
    BY <2>1, <2>2, ElementOfSeq
  <2>4. want' = [i \in 0 .. length' - 1 |-> data'[i]]
    BY <2>1, <2>2, <2>3
  <2>5. length' \in DOMAIN data' /\ \A i \in DOMAIN data' : i >= length' => data'[i] = NULL
    BY <2>1, <2>2
  <2> QED
    BY <2>3, <2>4, <2>5 DEF TextInv
<1>8. ASSUME Resize PROVE TextInv'
  <2>1. kind = "text" /\ ~broken /\ ~lent /\ End = length
    BY <1>8, EndIsLength DEF Resize
  <2>2. data' = [i \in 0 .. Grown - 1 |-> IF i < length THEN data[i] ELSE NULL]
          /\ length' = length /\ want' = want
    BY <1>8, <2>1 DEF Resize, Copied
  <2>3. size \in Nat \ {0} /\ length \in Nat /\ length < size
    BY <2>1 DEF TypeInv, Numbers, Memory, TextInv
  <2>4. length \in DOMAIN data' /\ \A i \in DOMAIN data' : i >= length => data'[i] = NULL
    BY <2>2, <2>3, GrownType
  <2>5. \A i \in 0 .. length - 1 : data'[i] = data[i]
    BY <2>2, <2>3, GrownType
  <2>6. want' = [i \in 0 .. length - 1 |-> data'[i]]
    BY <2>1, <2>2, <2>5 DEF TextInv
  <2> QED
    BY <2>1, <2>2, <2>4, <2>5, <2>6 DEF TextInv
<1>9. ASSUME Joined PROVE TextInv'
  <2> DEFINE n == Len(call.src)
  <2>1. kind = "text" /\ ~broken /\ End = length /\ length \in Nat
    BY <1>9, EndIsLength DEF Joined, TypeInv, Numbers
  <2>2. /\ data' = [i \in DOMAIN data |->
                      IF i \in length .. length + n - 1 THEN call.src[i - length + 1]
                      ELSE IF call.how # "char" /\ i = length + n THEN NULL
                      ELSE data[i]]
        /\ want' = [i \in 0 .. length + n - 1 |->
                      IF i < length THEN want[i] ELSE call.src[i - length + 1]]
        /\ length' = length + n /\ (lent => n = 0) /\ Fits
    BY <1>9, <2>1 DEF Joined
  <2>3. call.src \in Seq(Values) /\ n \in Nat
    BY DEF TypeInv, Joins
  <2>4. 0 .. length + n \subseteq DOMAIN data
    <3>1. CASE lent
      BY <3>1, <2>1, <2>2, <2>3 DEF TypeInv, Memory
    <3>2. CASE ~lent
      BY <3>2, <2>1, <2>2, <2>3 DEF TypeInv, Memory, Numbers, Fits
    <3> QED
      BY <3>1, <3>2
  <2>5. ASSUME NEW i \in DOMAIN data, i >= length + n PROVE data'[i] = NULL
    BY <2>1, <2>2, <2>3, <2>5 DEF TypeInv, Memory, TextInv
  <2>6. ASSUME NEW i \in 0 .. length + n - 1
        PROVE  data'[i] = want'[i] /\ data'[i] \in Values
    <3>1. CASE i < length
      <4>1. i \in 0 .. length - 1 /\ i \in DOMAIN data
        BY <3>1, <2>1, <2>3, <2>4
      <4>2. data'[i] = data[i]
        BY <4>1, <3>1, <2>1, <2>2, <2>3
      <4>3. want'[i] = want[i]
        BY <3>1, <2>2
      <4>4. want[i] = data[i] /\ data[i] \in Values
        BY <4>1, <2>1 DEF TextInv
      <4> QED
        BY <4>2, <4>3, <4>4
    <3>2. CASE i >= length
      <4>1. i \in length .. length + n - 1 /\ i - length + 1 \in 1 .. n
        BY <3>2, <2>1, <2>3
      <4>2. call.src[i - length + 1] \in Values
        BY <4>1, <2>3, ElementOfSeq
      <4>3. data'[i] = call.src[i - length + 1]
        BY <4>1, <2>2, <2>4, <2>1, <2>3
      <4>4. want'[i] = call.src[i - length + 1]
        BY <3>2, <2>2, <2>1, <2>3
      <4> QED
        BY <4>2, <4>3, <4>4
    <3> QED
      BY <3>1, <3>2, <2>1
  <2>7. want' = [i \in 0 .. length' - 1 |-> data'[i]]
    <3>1. want' = [i \in 0 .. length + n - 1 |-> want'[i]]
      BY <2>2
    <3>2. want' = [i \in 0 .. length + n - 1 |-> data'[i]]
      BY <3>1, <2>6, Zenon
    <3>3. length' = length + n
      BY <1>9 DEF Joined
    <3>4. 0 .. length + n - 1 = 0 .. length' - 1
      BY <3>3, <2>1, <2>3
    <3> QED
      BY <3>2, <3>4, Zenon
  <2>8. length' \in DOMAIN data' /\ DOMAIN data' = DOMAIN data
    BY <2>1, <2>2, <2>3, <2>4
  <2> QED
    BY <2>2, <2>5, <2>6, <2>7, <2>8 DEF TextInv
<1>10. ASSUME UNCHANGED vars PROVE TextInv'
  BY <1>10 DEF vars, TextInv
<1> QED
  BY <1>1, <1>2, <1>3, <1>4, <1>5, <1>6, <1>7, <1>8, <1>9, <1>10, NextCases

-----------------------------------------------------------------------------
(* The list.                                                               *)

ListInv == kind = "list" /\ ~broken =>
             length <= size /\ want = [i \in 0 .. length - 1 |-> data[i]]

LEMMA ListInit == Init => ListInv
<1> SUFFICES ASSUME Init, kind = "list" PROVE ListInv
  BY DEF ListInv
<1>1. length = 0 /\ want = <<>> /\ size \in Nat
  BY TypeInit DEF Init, TypeInv, Numbers
<1>2. want = [i \in 0 .. length - 1 |-> data[i]]
  BY <1>1
<1> QED
  BY <1>1, <1>2 DEF ListInv

LEMMA ListStep1 == TypeInv /\ ListInv /\ [Next]_vars => ListInv'
<1> SUFFICES ASSUME TypeInv, ListInv, [Next]_vars, kind' = "list", ~broken'
             PROVE  ListInv'
  BY DEF ListInv
<1>1. ASSUME NEW v \in Values, Add(v) PROVE ListInv'
  <2> DEFINE room == IF Full THEN Grown ELSE size
  <2>1. /\ kind = "list" /\ ~broken /\ length < room
        /\ size' = room /\ length' = length + 1
        /\ data' = [Copied(room, size) EXCEPT ![length] = v]
        /\ want' = Store(want, length, v)
    <3>1. kind = "list" /\ ~broken /\ size' = room /\ (broken' <=> length >= room)
      BY <1>1 DEF Add
    <3>2. room \in Nat /\ length \in Nat
      BY <3>1, GrownType DEF TypeInv, Numbers
    <3> QED
      BY <1>1, <3>1, <3>2 DEF Add
  <2>2. room \in Nat /\ size \in Nat /\ room >= size /\ length \in Nat /\ length <= size
          /\ want = [i \in 0 .. length - 1 |-> data[i]]
    BY <2>1, GrownType DEF TypeInv, Numbers, ListInv
  <2> HIDE DEF room
  <2>3. ASSUME NEW i \in 0 .. length PROVE data'[i] = IF i = length THEN v ELSE data[i]
    BY <2>1, <2>2 DEF Copied
  <2>4. DOMAIN want = 0 .. length - 1 /\ DOMAIN want \cup {length} = 0 .. length
    BY <2>2
  <2>5. want' = [i \in 0 .. length |-> IF i = length THEN v ELSE want[i]]
    BY <2>1, <2>4 DEF Store
  <2>6. \A i \in 0 .. length : want'[i] = data'[i]
    BY <2>2, <2>3, <2>5
  <2>7. want' = [i \in 0 .. length |-> data'[i]]
    BY <2>5, <2>6
  <2>8. length' - 1 = length /\ length' <= size'
    BY <2>1, <2>2
  <2> QED
    BY <2>7, <2>8 DEF ListInv
<1>2. ASSUME NEW v \in Values, NEW i \in 0 .. size, AddIndex(i, v) PROVE ListInv'
  <2>1. /\ kind = "list" /\ ~broken /\ UNCHANGED <<length, size>>
        /\ data' = [data EXCEPT ![i] = v]
        /\ want' = IF i < length THEN Store(want, i, v) ELSE want
    BY <1>2 DEF AddIndex
  <2>2. length \in Nat /\ length <= size /\ want = [j \in 0 .. length - 1 |-> data[j]]
          /\ size \in Nat
    BY <2>1 DEF TypeInv, Numbers, ListInv
  <2>3. \A j \in 0 .. length - 1 : j \in DOMAIN data
    BY <2>1, <2>2 DEF TypeInv, Memory, Flags
  <2>4. \A j \in 0 .. length - 1 : data'[j] = IF j = i THEN v ELSE data[j]
    BY <2>1, <2>3
  <2>5. CASE i < length
    <3>1. DOMAIN want \cup {i} = 0 .. length - 1
      BY <2>2, <2>5
    <3>2. want' = [j \in 0 .. length - 1 |-> IF j = i THEN v ELSE want[j]]
      BY <2>1, <2>5, <3>1 DEF Store
    <3>3. \A j \in 0 .. length - 1 : want'[j] = data'[j]
      BY <2>2, <2>4, <3>2
    <3> QED
      BY <2>1, <2>2, <3>2, <3>3 DEF ListInv
  <2>6. CASE i >= length
    <3>1. \A j \in 0 .. length - 1 : data'[j] = data[j]
      BY <2>2, <2>4, <2>6
    <3>2. want' = want
      BY <2>1, <2>2, <2>6
    <3>3. want' = [j \in 0 .. length - 1 |-> data'[j]]
      BY <3>1, <3>2, <2>2
    <3> QED
      BY <2>1, <2>2, <3>3 DEF ListInv
  <2> QED
    BY <2>2, <2>5, <2>6
<1>3. ASSUME NEW k \in Keys, NEW v \in Values, Put(k, v) PROVE ListInv'
  BY <1>3 DEF Put
<1>4. ASSUME NEW k \in Keys, Delete(k) PROVE ListInv'
  BY <1>4 DEF Delete
<1>5. ASSUME NEW how \in {"char", "chars"}, NEW src \in Strings, Join(how, src)
      PROVE  ListInv'
  BY <1>5 DEF Join
<1>6. ASSUME NEW v \in Values, ValueChar(v) PROVE ListInv'
  BY <1>6 DEF ValueChar
<1>7. ASSUME NEW src \in Strings, ValueChars(src) PROVE ListInv'
  BY <1>7 DEF ValueChars
<1>8. ASSUME Resize PROVE ListInv'
  BY <1>8 DEF Resize
<1>9. ASSUME Joined PROVE ListInv'
  BY <1>9 DEF Joined
<1>10. ASSUME UNCHANGED vars PROVE ListInv'
  BY <1>10 DEF vars, ListInv
<1> QED
  BY <1>1, <1>2, <1>3, <1>4, <1>5, <1>6, <1>7, <1>8, <1>9, <1>10, NextCases

-----------------------------------------------------------------------------
(* The map.                                                                *)

\* The nodes of a map are what was stored, under their keys.
Stored ==
  kind = "map" /\ ~broken =>
    /\ want = [k \in DOMAIN want |-> want[k]] /\ DOMAIN want \subseteq Keys
    /\ \A b \in DOMAIN chain : \A j \in DOMAIN chain[b] :
         chain[b][j].key \in DOMAIN want /\ want[chain[b][j].key] = chain[b][j].data
    /\ \A k \in DOMAIN want : At(k) # {}

\* elements counts them.
Counted == kind = "map" =>
             IsFiniteSet(DOMAIN want) /\ length = Cardinality(DOMAIN want)

MapInv == Unique /\ Stored /\ Counted

LEMMA MapInit == Init => MapInv
<1> SUFFICES ASSUME Init, kind = "map" PROVE MapInv
  BY DEF MapInv, Unique, Stored, Counted
<1>1. chain = [b \in 0 .. size - 1 |-> <<>>] /\ want = <<>> /\ length = 0
  BY DEF Init, InitArraylist, InitHashmap, InitString
<1>2. DOMAIN want = {} /\ \A b \in DOMAIN chain : DOMAIN chain[b] = {}
  BY <1>1
<1>3. want = [k \in DOMAIN want |-> want[k]]
  BY <1>1
<1>4. Unique /\ Stored
  BY <1>2, <1>3 DEF Unique, Stored
<1>5. Counted
  BY <1>1, <1>2, FS_EmptySet DEF Counted
<1> QED
  BY <1>4, <1>5 DEF MapInv

\* The chain of a bucket after the two kinds of put and a delete.
LEMMA ChainPut ==
  ASSUME NEW c \in Seq(Entries), NEW new \in Entries
  PROVE  LET d == <<new>> \o c
         IN  /\ DOMAIN d = 1 .. Len(c) + 1 /\ d[1] = new
             /\ \A i \in 2 .. Len(c) + 1 : d[i] = c[i - 1] /\ i - 1 \in DOMAIN c
<1>1. <<new>> \in Seq(Entries) /\ Len(<<new>>) = 1 /\ <<new>>[1] = new
  OBVIOUS
<1>2. Len(c) \in Nat /\ DOMAIN c = 1 .. Len(c)
  OBVIOUS
<1> QED
  BY <1>1, <1>2, ConcatProperties

LEMMA ChainDelete ==
  ASSUME NEW c \in Seq(Entries), NEW j \in 1 .. Len(c)
  PROVE  LET d == SubSeq(c, 1, j - 1) \o SubSeq(c, j + 1, Len(c))
         IN  /\ DOMAIN d = 1 .. Len(c) - 1
             /\ \A i \in 1 .. j - 1 : d[i] = c[i]
             /\ \A i \in j .. Len(c) - 1 : d[i] = c[i + 1]
<1> DEFINE s == SubSeq(c, 1, j - 1)
           t == SubSeq(c, j + 1, Len(c))
<1>1. Len(c) \in Nat /\ \A i \in 1 .. Len(c) : c[i] \in Entries
  BY ElementOfSeq
<1>2. /\ s \in Seq(Entries) /\ Len(s) = j - 1
      /\ \A i \in 1 .. j - 1 : s[i] = c[i]
  BY <1>1, SubSeqProperties
<1>3. /\ t \in Seq(Entries) /\ Len(t) = Len(c) - j
      /\ \A i \in 1 .. Len(c) - j : t[i] = c[j + i]
  BY <1>1, SubSeqProperties
<1> HIDE DEF s, t
<1>4. /\ DOMAIN (s \o t) = 1 .. Len(c) - 1
      /\ \A i \in 1 .. Len(c) - 1 : (s \o t)[i] = IF i <= j - 1 THEN s[i] ELSE t[i - (j - 1)]
  BY <1>1, <1>2, <1>3, ConcatProperties
<1>5. \A i \in 1 .. j - 1 : (s \o t)[i] = c[i]
  BY <1>1, <1>2, <1>4
<1>6. \A i \in j .. Len(c) - 1 : (s \o t)[i] = c[i + 1]
  BY <1>1, <1>3, <1>4
<1> QED
  BY <1>4, <1>5, <1>6 DEF s, t

LEMMA MapPut ==
  ASSUME TypeInv, MapInv, NEW k \in Keys, NEW v \in Values, Put(k, v)
  PROVE  MapInv'
<1> DEFINE b == hash(k)
           new == [key |-> k, data |-> v]
<1>1. kind = "map" /\ ~broken /\ UNCHANGED <<kind, size, broken>>
        /\ want' = Store(want, k, v)
  BY DEF Put
<1>2. /\ size \in Nat \ {0} /\ DOMAIN chain = 0 .. size - 1
      /\ \A x \in 0 .. size - 1 : chain[x] \in Seq(Entries)
  BY <1>1 DEF TypeInv, Numbers, Chains
<1>3. b \in 0 .. size - 1 /\ new \in Entries /\ new.key = k /\ new.data = v
  BY <1>2, HashInBuckets DEF Entries
<1>4. DOMAIN want' = DOMAIN want \cup {k} /\ want' = [x \in DOMAIN want' |-> want'[x]]
        /\ \A x \in DOMAIN want' : want'[x] = IF x = k THEN v ELSE want[x]
  BY <1>1 DEF Store
<1>5. b = (k % UIntMod) % size /\ size' = size
  BY <1>1 DEF hash
<1> HIDE DEF b, new
<1>6. CASE At(k) # {}
  <2> DEFINE j == Node(k)
  <2>1. j \in 1 .. Len(chain[b]) /\ chain[b][j].key = k
    BY <1>1, <1>3, <1>6, NodeInChain DEF MapInv, b
  <2>2. chain' = [chain EXCEPT ![b] = [chain[b] EXCEPT ![j] = new]] /\ length' = length
    BY <1>6 DEF Put, b, new
  <2> HIDE DEF j
  <2>3. DOMAIN chain' = DOMAIN chain
          /\ \A x \in DOMAIN chain : DOMAIN chain'[x] = DOMAIN chain[x]
    BY <1>2, <1>3, <2>2
  <2>4. \A x \in DOMAIN chain : \A i \in DOMAIN chain[x] :
          chain'[x][i] = IF x = b /\ i = j THEN new ELSE chain[x][i]
    BY <1>2, <1>3, <2>1, <2>2
  <2>5. \A x \in DOMAIN chain : \A i \in DOMAIN chain[x] :
          chain'[x][i].key = chain[x][i].key
    BY <1>3, <2>1, <2>4
  <2>6. k \in DOMAIN want /\ DOMAIN want' = DOMAIN want
    BY <1>1, <1>2, <1>3, <1>4, <2>1 DEF MapInv, Stored
  <2>7. Unique'
    <3> SUFFICES ASSUME NEW x \in DOMAIN chain, NEW i \in DOMAIN chain[x],
                        NEW m \in DOMAIN chain[x]
                 PROVE  /\ (chain'[x][i].key % UIntMod) % size = x
                        /\ chain'[x][i].key = chain'[x][m].key => i = m
      BY <1>1, <2>3 DEF Unique
    <3>1. /\ (chain[x][i].key % UIntMod) % size = x
          /\ chain[x][i].key = chain[x][m].key => i = m
      BY <1>1 DEF MapInv, Unique
    <3> QED
      BY <2>5, <3>1
  <2>8. Stored'
    <3>1. ASSUME NEW x \in DOMAIN chain, NEW i \in DOMAIN chain[x]
          PROVE  /\ chain'[x][i].key \in DOMAIN want'
                 /\ want'[chain'[x][i].key] = chain'[x][i].data
      <4>1. chain[x][i].key \in DOMAIN want /\ want[chain[x][i].key] = chain[x][i].data
        BY <1>1 DEF MapInv, Stored
      <4>2. CASE x = b /\ i = j
        BY <4>2, <1>3, <1>4, <2>4
      <4>3. CASE ~(x = b /\ i = j)
        <5>1. chain[x][i].key # k
          BY <4>3, <1>1, <1>2, <1>3, <2>1 DEF MapInv, Unique, b
        <5> QED
          BY <4>1, <4>3, <5>1, <1>4, <2>4
      <4> QED
        BY <4>2, <4>3
    <3>2. ASSUME NEW y \in DOMAIN want PROVE At(y)' # {}
      <4>1. y \in Keys /\ At(y) # {}
        BY <1>1 DEF MapInv, Stored
      <4>2. hash(y) \in DOMAIN chain
        BY <4>1, <1>2, HashInBuckets
      <4>3. PICK i \in DOMAIN chain[hash(y)] : chain[hash(y)][i].key = y
        BY <4>1 DEF At
      <4>4. i \in DOMAIN chain'[hash(y)] /\ chain'[hash(y)][i].key = y
        BY <4>2, <4>3, <2>3, <2>5
      <4> QED
        BY <4>1, <4>4, <1>5 DEF At, hash
    <3> QED
      BY <1>1, <1>4, <2>3, <2>6, <3>1, <3>2 DEF Stored, MapInv
  <2>9. Counted'
    BY <1>1, <2>2, <2>6 DEF MapInv, Counted
  <2> QED
    BY <2>7, <2>8, <2>9 DEF MapInv
<1>7. CASE At(k) = {}
  <2> DEFINE c == chain[b]
  <2>1. chain' = [chain EXCEPT ![b] = <<new>> \o c] /\ length' = length + 1
    BY <1>7 DEF Put, b, new
  <2>2. c \in Seq(Entries) /\ Len(c) \in Nat /\ DOMAIN c = 1 .. Len(c)
    BY <1>2, <1>3
  <2>3. /\ DOMAIN chain' = DOMAIN chain
        /\ \A x \in DOMAIN chain : x # b => chain'[x] = chain[x]
        /\ DOMAIN chain'[b] = 1 .. Len(c) + 1 /\ chain'[b][1] = new
        /\ \A i \in 2 .. Len(c) + 1 : chain'[b][i] = c[i - 1] /\ i - 1 \in DOMAIN c
    BY <1>2, <1>3, <2>1, <2>2, ChainPut
  <2>4. \A i \in DOMAIN c : c[i].key # k
    BY <1>7 DEF At, b
  <2>5. k \notin DOMAIN want
    BY <1>1, <1>7 DEF MapInv, Stored
  <2>6. Unique'
    <3> SUFFICES ASSUME NEW x \in DOMAIN chain, NEW i \in DOMAIN chain'[x],
                        NEW m \in DOMAIN chain'[x]
                 PROVE  /\ (chain'[x][i].key % UIntMod) % size = x
                        /\ chain'[x][i].key = chain'[x][m].key => i = m
      BY <1>1, <2>3 DEF Unique
    <3>1. \A n \in DOMAIN chain[x] : (chain[x][n].key % UIntMod) % size = x
      BY <1>1 DEF MapInv, Unique
    <3>2. \A n, l \in DOMAIN chain[x] : chain[x][n].key = chain[x][l].key => n = l
      BY <1>1 DEF MapInv, Unique
    <3>3. CASE x # b
      BY <3>1, <3>2, <3>3, <2>3
    <3>4. CASE x = b
      <4>2. i \in 1 .. Len(c) + 1 /\ m \in 1 .. Len(c) + 1
        BY <3>4, <2>3
      <4>3. (chain'[x][i].key % UIntMod) % size = x
        <5>1. CASE i = 1
          BY <5>1, <3>4, <2>3, <1>3, <1>5
        <5>2. CASE i # 1
          <6>1. chain'[x][i] = chain[x][i - 1] /\ i - 1 \in DOMAIN chain[x]
            BY <5>2, <4>2, <3>4, <2>2, <2>3
          <6> QED
            BY <6>1, <3>1
        <5> QED
          BY <5>1, <5>2
      <4>4. ASSUME chain'[x][i].key = chain'[x][m].key PROVE i = m
        <5>1. CASE i = 1 /\ m # 1
          <6>1. chain'[x][m] = c[m - 1] /\ m - 1 \in DOMAIN c
            BY <5>1, <4>2, <3>4, <2>2, <2>3
          <6> QED
            BY <6>1, <5>1, <4>4, <3>4, <2>3, <2>4, <1>3
        <5>2. CASE i # 1 /\ m = 1
          <6>1. chain'[x][i] = c[i - 1] /\ i - 1 \in DOMAIN c
            BY <5>2, <4>2, <3>4, <2>2, <2>3
          <6> QED
            BY <6>1, <5>2, <4>4, <3>4, <2>3, <2>4, <1>3
        <5>3. CASE i # 1 /\ m # 1
          <6>1. chain'[x][i] = c[i - 1] /\ i - 1 \in DOMAIN c
            BY <5>3, <4>2, <3>4, <2>2, <2>3
          <6>2. chain'[x][m] = c[m - 1] /\ m - 1 \in DOMAIN c
            BY <5>3, <4>2, <3>4, <2>2, <2>3
          <6>3. i - 1 = m - 1
            BY <6>1, <6>2, <4>4, <3>2, <3>4
          <6> QED
            BY <6>3, <4>2, <2>2
        <5> QED
          BY <5>1, <5>2, <5>3
      <4> QED
        BY <4>3, <4>4
    <3> QED
      BY <3>3, <3>4
  <2>7. Stored'
    <3>1. ASSUME NEW x \in DOMAIN chain, NEW i \in DOMAIN chain'[x]
          PROVE  /\ chain'[x][i].key \in DOMAIN want'
                 /\ want'[chain'[x][i].key] = chain'[x][i].data
      <4>1. \A m \in DOMAIN chain[x] :
              chain[x][m].key \in DOMAIN want /\ want[chain[x][m].key] = chain[x][m].data
        BY <1>1 DEF MapInv, Stored
      <4>2. CASE x = b /\ i = 1
        BY <4>2, <1>3, <1>4, <2>3
      <4>3. CASE x = b /\ i # 1
        <5>1. i \in 2 .. Len(c) + 1
          BY <4>3, <2>2, <2>3
        <5>2. chain'[x][i] = chain[x][i - 1] /\ i - 1 \in DOMAIN chain[x]
          BY <4>3, <5>1, <2>3
        <5> QED
          BY <4>1, <5>2, <1>4, <2>5
      <4>4. CASE x # b
        BY <4>1, <4>4, <1>4, <2>3, <2>5
      <4> QED
        BY <4>2, <4>3, <4>4
    <3>2. ASSUME NEW y \in DOMAIN want' PROVE At(y)' # {}
      <4>1. y \in Keys
        BY <1>1, <1>4 DEF MapInv, Stored
      <4>2. CASE y = k
        <5>1. 1 \in DOMAIN chain'[b] /\ chain'[b][1].key = k
          BY <1>3, <2>2, <2>3
        <5> QED
          BY <4>2, <5>1, <1>5 DEF At, hash
      <4>3. CASE y # k
        <5>1. At(y) # {} /\ hash(y) \in DOMAIN chain
          BY <4>1, <4>3, <1>1, <1>2, <1>4, HashInBuckets DEF MapInv, Stored
        <5>2. PICK i \in DOMAIN chain[hash(y)] : chain[hash(y)][i].key = y
          BY <5>1 DEF At
        <5>3. CASE hash(y) # b
          BY <5>1, <5>2, <5>3, <1>5, <2>3 DEF At, hash
        <5>4. CASE hash(y) = b
          <6>1. i + 1 \in 2 .. Len(c) + 1 /\ i + 1 - 1 = i
            BY <5>2, <5>4, <2>2
          <6>2. i + 1 \in DOMAIN chain'[b] /\ chain'[b][i + 1].key = y
            BY <6>1, <5>2, <5>4, <2>2, <2>3
          <6> QED
            BY <6>2, <5>4, <1>5 DEF At, hash
        <5> QED
          BY <5>3, <5>4
      <4> QED
        BY <4>2, <4>3
    <3> QED
      BY <1>1, <1>4, <2>3, <3>1, <3>2 DEF Stored, MapInv
  <2>8. Counted'
    <3>1. IsFiniteSet(DOMAIN want) /\ length = Cardinality(DOMAIN want)
      BY <1>1 DEF MapInv, Counted
    <3>2. IsFiniteSet(DOMAIN want \cup {k})
            /\ Cardinality(DOMAIN want \cup {k}) = Cardinality(DOMAIN want) + 1
      BY <3>1, <2>5, FS_AddElement
    <3> QED
      BY <1>4, <2>1, <3>1, <3>2 DEF Counted
  <2> QED
    BY <2>6, <2>7, <2>8 DEF MapInv
<1> QED
  BY <1>6, <1>7

LEMMA MapDelete ==
  ASSUME TypeInv, MapInv, NEW k \in Keys, Delete(k)
  PROVE  MapInv'
<1> DEFINE b == hash(k)
           j == Node(k)
           c == chain[b]
<1>1. kind = "map" /\ ~broken /\ UNCHANGED <<kind, size>> /\ At(k) # {}
        /\ want' = [x \in DOMAIN want \ {k} |-> want[x]]
  BY DEF Delete
<1>2. /\ size \in Nat \ {0} /\ DOMAIN chain = 0 .. size - 1
      /\ \A x \in 0 .. size - 1 : chain[x] \in Seq(Entries)
  BY <1>1 DEF TypeInv, Numbers, Chains
<1>3. b \in 0 .. size - 1
  BY <1>2, HashInBuckets
<1>4. b = (k % UIntMod) % size /\ size' = size
  BY <1>1 DEF hash
<1>5. j \in 1 .. Len(c) /\ c[j].key = k
  BY <1>1, <1>3, NodeInChain DEF MapInv
<1>6. chain' = [chain EXCEPT ![b] = SubSeq(c, 1, j - 1) \o SubSeq(c, j + 1, Len(c))]
        /\ length' = length - 1
  BY DEF Delete
<1> HIDE DEF b, j
<1>7. c \in Seq(Entries) /\ Len(c) \in Nat /\ DOMAIN c = 1 .. Len(c)
  BY <1>2, <1>3
<1>8. /\ DOMAIN chain' = DOMAIN chain
      /\ \A x \in DOMAIN chain : x # b => chain'[x] = chain[x]
      /\ DOMAIN chain'[b] = 1 .. Len(c) - 1
      /\ \A i \in 1 .. j - 1 : chain'[b][i] = c[i]
      /\ \A i \in j .. Len(c) - 1 : chain'[b][i] = c[i + 1]
  BY <1>2, <1>3, <1>5, <1>6, <1>7, ChainDelete
<1>9. k \in DOMAIN want
  BY <1>1, <1>2, <1>3, <1>5, <1>7 DEF MapInv, Stored
<1>10. \A m \in DOMAIN c : c[m].key = k => m = j
  BY <1>1, <1>2, <1>3, <1>5, <1>7 DEF MapInv, Unique
\* Each node that is left was a node before, at the same place or at the next.
<1>11. ASSUME NEW x \in DOMAIN chain, NEW i \in DOMAIN chain'[x]
       PROVE  LET m == IF x = b /\ i >= j THEN i + 1 ELSE i
              IN  /\ m \in DOMAIN chain[x] /\ chain'[x][i] = chain[x][m]
                  /\ x = b => m # j
  <2>1. CASE x # b
    BY <2>1, <1>8
  <2>2. CASE x = b /\ i >= j
    BY <2>2, <1>5, <1>7, <1>8
  <2>3. CASE x = b /\ i < j
    BY <2>3, <1>5, <1>7, <1>8
  <2> QED
    BY <2>1, <2>2, <2>3, <1>5, <1>7, <1>8
<1>12. Unique'
  <2> SUFFICES ASSUME NEW x \in DOMAIN chain, NEW i \in DOMAIN chain'[x],
                      NEW l \in DOMAIN chain'[x]
               PROVE  /\ (chain'[x][i].key % UIntMod) % size = x
                      /\ chain'[x][i].key = chain'[x][l].key => i = l
    BY <1>1, <1>8 DEF Unique
  <2> DEFINE m(n) == IF x = b /\ n >= j THEN n + 1 ELSE n
  <2>1. /\ m(i) \in DOMAIN chain[x] /\ chain'[x][i] = chain[x][m(i)]
        /\ m(l) \in DOMAIN chain[x] /\ chain'[x][l] = chain[x][m(l)]
    BY <1>11
  <2>2. m(i) = m(l) => i = l
    <3>1. x = b => i \in Int /\ l \in Int /\ j \in Int
      BY <1>5, <1>7, <1>8
    <3> QED
      BY <3>1
  <2>3. \A n, o \in DOMAIN chain[x] :
          /\ (chain[x][n].key % UIntMod) % size = x
          /\ chain[x][n].key = chain[x][o].key => n = o
    BY <1>1 DEF MapInv, Unique
  <2> HIDE DEF m
  <2>4. (chain'[x][i].key % UIntMod) % size = x
    BY <2>1, <2>3, Zenon
  <2>5. chain'[x][i].key = chain'[x][l].key => m(i) = m(l)
    BY <2>1, <2>3, Zenon
  <2> QED
    BY <2>2, <2>4, <2>5
<1>13. Stored'
  <2>1. ASSUME NEW x \in DOMAIN chain, NEW i \in DOMAIN chain'[x]
        PROVE  /\ chain'[x][i].key \in DOMAIN want'
               /\ want'[chain'[x][i].key] = chain'[x][i].data
    <3>1. PICK m \in DOMAIN chain[x] : chain'[x][i] = chain[x][m] /\ (x = b => m # j)
      BY <1>11
    <3>2. chain[x][m].key \in DOMAIN want /\ want[chain[x][m].key] = chain[x][m].data
      BY <1>1 DEF MapInv, Stored
    <3>3. chain[x][m].key # k
      <4>1. CASE x = b
        BY <4>1, <3>1, <1>10
      <4>2. CASE x # b
        BY <4>2, <1>1, <1>4 DEF MapInv, Unique
      <4> QED
        BY <4>1, <4>2
    <3> QED
      BY <3>1, <3>2, <3>3, <1>1
  <2>2. ASSUME NEW y \in DOMAIN want, y # k PROVE At(y)' # {}
    <3>1. y \in Keys /\ At(y) # {}
      BY <1>1 DEF MapInv, Stored
    <3>2. hash(y) \in DOMAIN chain
      BY <3>1, <1>2, HashInBuckets
    <3>3. PICK i \in DOMAIN chain[hash(y)] : chain[hash(y)][i].key = y
      BY <3>1 DEF At
    <3>4. CASE hash(y) # b
      BY <3>2, <3>3, <3>4, <1>4, <1>8 DEF At, hash
    <3>5. CASE hash(y) = b
      <4>1. i \in 1 .. Len(c) /\ i # j
        BY <2>2, <3>3, <3>5, <1>5, <1>7
      <4>2. CASE i < j
        <5>1. i \in DOMAIN chain'[b] /\ chain'[b][i].key = y
          BY <4>1, <4>2, <3>3, <3>5, <1>5, <1>7, <1>8
        <5> QED
          BY <5>1, <3>5, <1>4 DEF At, hash
      <4>3. CASE i > j
        <5>1. i - 1 \in j .. Len(c) - 1 /\ i - 1 + 1 = i /\ i - 1 \in 1 .. Len(c) - 1
          BY <4>1, <4>3, <1>5, <1>7
        <5>2. i - 1 \in DOMAIN chain'[b] /\ chain'[b][i - 1].key = y
          BY <5>1, <3>3, <3>5, <1>8
        <5> QED
          BY <5>2, <3>5, <1>4 DEF At, hash
      <4> QED
        BY <4>1, <4>2, <4>3, <1>5
    <3> QED
      BY <3>4, <3>5
  <2>3. want' = [x \in DOMAIN want' |-> want'[x]] /\ DOMAIN want' = DOMAIN want \ {k}
    BY <1>1
  <2>4. DOMAIN want \subseteq Keys
    BY <1>1 DEF MapInv, Stored
  <2> QED
    BY <1>8, <2>1, <2>2, <2>3, <2>4 DEF Stored
<1>14. Counted'
  <2>1. IsFiniteSet(DOMAIN want) /\ length = Cardinality(DOMAIN want)
    BY <1>1 DEF MapInv, Counted
  <2>2. IsFiniteSet(DOMAIN want \ {k})
          /\ Cardinality(DOMAIN want \ {k}) = Cardinality(DOMAIN want) - 1
    BY <2>1, <1>9, FS_RemoveElement
  <2>3. DOMAIN want' = DOMAIN want \ {k}
    BY <1>1
  <2> QED
    BY <1>6, <2>1, <2>2, <2>3 DEF Counted
<1> QED
  BY <1>12, <1>13, <1>14 DEF MapInv

LEMMA MapStep1 == TypeInv /\ MapInv /\ [Next]_vars => MapInv'
<1> SUFFICES ASSUME TypeInv, MapInv, [Next]_vars PROVE MapInv'
  OBVIOUS
<1>1. CASE kind' # "map"
  BY <1>1 DEF MapInv, Unique, Stored, Counted
<1>2. CASE UNCHANGED <<kind, size, length, chain, want, broken>>
  BY <1>2 DEF MapInv, Unique, Stored, Counted, At, hash
<1>3. ASSUME NEW k \in Keys, NEW v \in Values, Put(k, v) PROVE MapInv'
  BY <1>3, MapPut
<1>4. ASSUME NEW k \in Keys, Delete(k) PROVE MapInv'
  BY <1>4, MapDelete
<1>5. ASSUME kind # "map", UNCHANGED kind PROVE MapInv'
  BY <1>1, <1>5
<1>6. ASSUME NEW v \in Values, Add(v) PROVE MapInv'
  BY <1>5, <1>6 DEF Add
<1>7. ASSUME NEW v \in Values, NEW i \in 0 .. size, AddIndex(i, v) PROVE MapInv'
  BY <1>5, <1>7 DEF AddIndex
<1>8. ASSUME NEW how \in {"char", "chars"}, NEW src \in Strings, Join(how, src)
      PROVE  MapInv'
  BY <1>5, <1>8 DEF Join
<1>9. ASSUME NEW v \in Values, ValueChar(v) PROVE MapInv'
  BY <1>5, <1>9 DEF ValueChar
<1>10. ASSUME NEW src \in Strings, ValueChars(src) PROVE MapInv'
  BY <1>5, <1>10 DEF ValueChars
<1>11. ASSUME Resize PROVE MapInv'
  BY <1>5, <1>11 DEF Resize
<1>12. ASSUME Joined PROVE MapInv'
  BY <1>5, <1>12 DEF Joined
<1>13. ASSUME UNCHANGED vars PROVE MapInv'
  BY <1>2, <1>13 DEF vars
<1> QED
  BY <1>3, <1>4, <1>6, <1>7, <1>8, <1>9, <1>10, <1>11, <1>12, <1>13, NextCases

-----------------------------------------------------------------------------
(* The inductive invariant: the types, and for each container that its     *)
(* memory is what was stored.                                              *)

Faithful == TypeInv /\ TextInv /\ ListInv /\ MapInv

LEMMA FaithfulInvariant == Spec => []Faithful
<1>1. Init => Faithful
  BY TypeInit, TextInit, ListInit, MapInit DEF Faithful
<1>2. Faithful /\ [Next]_vars => Faithful'
  <2> SUFFICES ASSUME Faithful, [Next]_vars PROVE Faithful'
    OBVIOUS
  <2>1. TypeInv'
    BY NumbersStep, MemoryStep, ChainsStep, JoinsStep DEF Faithful, MapInv, TypeInv
  <2>2. TextInv' /\ ListInv' /\ MapInv'
    BY TextStep1, ListStep1, MapStep1 DEF Faithful
  <2> QED
    BY <2>1, <2>2 DEF Faithful
<1> QED
  BY <1>1, <1>2, PTL DEF Spec

\* The containers are well typed: an array is as long as its size says, and a map
\* has no fewer than no elements (init_..., resize and the operations of util/).
THEOREM Typing == Spec => []TypeOK
<1>1. Faithful => TypeOK
  <2> SUFFICES ASSUME Faithful PROVE TypeOK
    OBVIOUS
  <2>1. length \in Nat
    BY FS_CardinalityType DEF Faithful, TypeInv, Numbers, MapInv, Counted
  <2>2. (call = Idle) = (call.how = "none")
    BY DEF Faithful, TypeInv, Joins
  <2> QED
    BY <2>1, <2>2 DEF Faithful, TypeInv, Numbers, Memory, Chains, Joins, Flags, Entries,
       TypeOK
<1> QED
  BY <1>1, FaithfulInvariant, PTL

\* A string ends in a NUL within its array after any joins and resizes
\* (dynamic_string.c).
THEOREM StringsEnd == Spec => []Terminated
<1>1. Faithful => Terminated
  BY DEF Faithful, TextInv, Terminated, TypeInv, Numbers
<1> QED
  BY <1>1, FaithfulInvariant, PTL

\* What Lookup finds is what was stored.
LEMMA LookupIsStored ==
  ASSUME Faithful, kind = "map", ~broken, NEW k \in Keys
  PROVE  /\ Lookup(k) # NULL <=> k \in DOMAIN want
         /\ k \in DOMAIN want => Lookup(k) = want[k]
<1>1. hash(k) \in DOMAIN chain /\ hash(k) \in 0 .. size - 1
        /\ chain[hash(k)] \in Seq(Entries)
  BY HashInBuckets DEF Faithful, TypeInv, Numbers, Chains
<1>2. CASE At(k) = {}
  BY <1>2 DEF Lookup, Faithful, MapInv, Stored
<1>3. CASE At(k) # {}
  <2>1. Node(k) \in 1 .. Len(chain[hash(k)]) /\ chain[hash(k)][Node(k)].key = k
    BY <1>1, <1>3, NodeInChain DEF Faithful, MapInv
  <2>2. Node(k) \in DOMAIN chain[hash(k)]
    BY <1>1, <2>1
  <2>3. k \in DOMAIN want /\ want[k] = chain[hash(k)][Node(k)].data
    BY <1>1, <2>1, <2>2 DEF Faithful, MapInv, Stored
  <2>4. chain[hash(k)][Node(k)].data \in Values
    <3>1. chain[hash(k)][Node(k)] \in Entries
      BY <1>1, <2>1, ElementOfSeq
    <3> QED
      BY <3>1 DEF Entries
  <2>5. Lookup(k) = want[k] /\ Lookup(k) # NULL
    BY <1>3, <2>3, <2>4, ContainersAssumption DEF Lookup, ContainersAssumption
  <2> QED
    BY <2>3, <2>5
<1> QED
  BY <1>2, <1>3

\* A container gives back what was stored in it, whatever it grew through and
\* whichever keys share a bucket (get_arraylist, get_hashmap, get_string).
THEOREM GivesBack == Spec => []HoldsWhatWasStored
<1>1. Faithful => HoldsWhatWasStored
  <2> SUFFICES ASSUME Faithful, ~broken PROVE Content = want
    BY DEF HoldsWhatWasStored
  <2>1. CASE kind = "list"
    <3>1. length \in Nat /\ want = [i \in 0 .. length - 1 |-> data[i]]
      BY <2>1 DEF Faithful, TypeInv, Numbers, ListInv
    <3>2. \A i \in 0 .. length - 1 : Get(i) = data[i]
      BY <3>1 DEF Get
    <3>3. Content = [i \in 0 .. length - 1 |-> Get(i)]
      BY <2>1 DEF Content
    <3> QED
      BY <3>1, <3>2, <3>3
  <2>2. CASE kind = "map"
    <3>1. want = [k \in DOMAIN want |-> want[k]] /\ DOMAIN want \subseteq Keys
      BY <2>2 DEF Faithful, MapInv, Stored
    <3>2. {k \in Keys : Lookup(k) # NULL} = DOMAIN want
      BY <2>2, <3>1, LookupIsStored
    <3>3. \A k \in DOMAIN want : Lookup(k) = want[k]
      BY <2>2, <3>1, LookupIsStored
    <3>4. Content = [k \in DOMAIN want |-> Lookup(k)]
      BY <2>2, <3>2 DEF Content
    <3> QED
      BY <3>1, <3>3, <3>4
  <2>3. CASE kind = "text"
    <3>1. length \in Nat /\ End = length /\ want = [i \in 0 .. length - 1 |-> data[i]]
      BY <2>3, EndIsLength DEF Faithful, TypeInv, Numbers, TextInv
    <3>2. GetString = [i \in 0 .. length - 1 |-> data[i]]
      BY <3>1 DEF GetString
    <3> QED
      BY <2>3, <3>1, <3>2 DEF Content
  <2> QED
    BY <2>1, <2>2, <2>3 DEF Faithful, TypeInv, Numbers
<1> QED
  BY <1>1, FaithfulInvariant, PTL

\* The chains of a map stay in order and elements counts their nodes
\* (put_hashmap, delete_hashmap).
THEOREM ChainsStayInOrder == Spec => []ChainsInOrder
<1>1. Faithful => ChainsInOrder
  <2> SUFFICES ASSUME Faithful, kind = "map", ~broken
               PROVE  /\ \A b \in DOMAIN chain : \A i, j \in DOMAIN chain[b] :
                           /\ hash(chain[b][i].key) = b
                           /\ chain[b][i].key = chain[b][j].key => i = j
                      /\ length = Cardinality({k \in Keys : Lookup(k) # NULL})
    BY DEF ChainsInOrder
  <2>1. {k \in Keys : Lookup(k) # NULL} = DOMAIN want
    BY LookupIsStored DEF Faithful, MapInv, Stored
  <2>2. length = Cardinality(DOMAIN want)
    BY DEF Faithful, MapInv, Counted
  <2> QED
    BY <2>1, <2>2 DEF Faithful, MapInv, Unique, hash
<1> QED
  BY <1>1, FaithfulInvariant, PTL

-----------------------------------------------------------------------------
(* The memory of the containers, as the server uses them.                  *)

\* What keeps a list within its array: one of the default size always grows, and
\* one that was made for some elements gets no more.
UseInv == asUsed => /\ ~broken
                    /\ kind = "text" => ~lent
                    /\ kind = "list" => /\ length <= size
                                        /\ cap = 0 => size > 1
                                        /\ cap # 0 => size = cap

LEMMA UseInit == Init => UseInv
<1> SUFFICES ASSUME Init PROVE UseInv
  OBVIOUS
<1>1. cap \in Nat /\ length = 0 /\ ~broken /\ ~lent /\ size \in Nat
  BY TypeInit DEF Init, TypeInv, Numbers
<1>2. kind = "list" => (cap = 0 => size > 1) /\ (cap # 0 => size = cap)
  BY ContainersAssumption DEF ContainersAssumption, Init, InitArraylist, InitHashmap,
     InitString, Sized
<1> QED
  BY <1>1, <1>2 DEF UseInv

LEMMA UseStep == TypeInv /\ UseInv /\ [Next]_vars => UseInv'
<1> SUFFICES ASSUME TypeInv, UseInv, [Next]_vars, asUsed' PROVE UseInv'
  BY DEF UseInv
<1>1. ASSUME NEW v \in Values, Add(v) PROVE UseInv'
  <2>1. kind = "list" /\ UNCHANGED <<kind, cap, lent>> /\ length' = length + 1
    BY <1>1 DEF Add
  <2>2. /\ size' = IF length >= size THEN Grown ELSE size
        /\ broken' <=> length >= size'
        /\ asUsed /\ (cap # 0 => length < cap)
    BY <1>1 DEF Add, Full
  <2>3. /\ size \in Nat /\ length \in Nat /\ cap \in Nat /\ length <= size
        /\ (cap = 0 => size > 1) /\ (cap # 0 => size = cap)
    BY <2>1, <2>2 DEF UseInv, TypeInv, Numbers
  <2>4. size' \in Nat /\ length < size' /\ (cap = 0 => size' > 1) /\ (cap # 0 => size' = cap)
    BY <2>2, <2>3 DEF Grown
  <2>5. ~broken' /\ length' <= size'
    BY <2>1, <2>2, <2>3, <2>4
  <2> QED
    BY <2>1, <2>4, <2>5 DEF UseInv
<1>2. ASSUME NEW v \in Values, NEW i \in 0 .. size, AddIndex(i, v) PROVE UseInv'
  BY <1>2 DEF AddIndex
<1>3. ASSUME NEW k \in Keys, NEW v \in Values, Put(k, v) PROVE UseInv'
  BY <1>3 DEF Put, UseInv
<1>4. ASSUME NEW k \in Keys, Delete(k) PROVE UseInv'
  BY <1>4 DEF Delete
<1>5. ASSUME NEW how \in {"char", "chars"}, NEW src \in Strings, Join(how, src)
      PROVE  UseInv'
  BY <1>5 DEF Join, UseInv
<1>6. ASSUME NEW v \in Values, ValueChar(v) PROVE UseInv'
  BY <1>6 DEF ValueChar
<1>7. ASSUME NEW src \in Strings, ValueChars(src) PROVE UseInv'
  BY <1>7 DEF ValueChars
<1>8. ASSUME Resize PROVE UseInv'
  BY <1>8 DEF Resize, UseInv
<1>9. ASSUME Joined PROVE UseInv'
  <2>1. kind = "text" /\ UNCHANGED <<kind, lent, asUsed>>
          /\ (broken' <=> lent /\ Len(call.src) # 0)
    BY <1>9 DEF Joined
  <2> QED
    BY <2>1 DEF UseInv
<1>10. ASSUME UNCHANGED vars PROVE UseInv'
  BY <1>10 DEF vars, UseInv
<1> QED
  BY <1>1, <1>2, <1>3, <1>4, <1>5, <1>6, <1>7, <1>8, <1>9, <1>10, NextCases

\* The calls the server makes keep to the container's own memory, whatever is
\* stored and however often the array is enlarged (the resizes of arraylist.c and
\* dynamic_string.c).
THEOREM MemorySafe == Spec => []SafeAsUsed
<1>1. UseInv => SafeAsUsed
  BY DEF UseInv, SafeAsUsed
<1>2. Faithful => TypeInv
  BY DEF Faithful
<1> QED
  BY <1>1, <1>2, UseInit, UseStep, FaithfulInvariant, PTL DEF Spec
=============================================================================
