----------------------------- MODULE Containers -----------------------------
(***************************************************************************)
(* The containers of util/: the array list, the hash map with its chains,  *)
(* and the string that grows.  They share nothing, so a behaviour is the   *)
(* life of one of them: created with some size, then called in any order.  *)
(*                                                                         *)
(* want is what the callers have stored, the function the container stands *)
(* for.  broken says that a call has used memory that is not the           *)
(* container's, or left it pointing to such, or without the NUL it needs:  *)
(* nothing is said of what follows.  asUsed says that the calls so far are *)
(* calls the server makes.                                                 *)
(***************************************************************************)
EXTENDS Integers, Sequences, FiniteSets

CONSTANTS Values,     \* what is stored: pointers, or characters but NUL
          NULL,       \* NULL, or NUL
          Strings,    \* what is joined to a string or becomes one
          Keys,       \* the keys of a map: any int
          Sizes,      \* the arguments of init_...
          Default,    \* ARRAYLIST_ and STRING_DEFAULT_INITIAL_CAPACITY
          MapDefault, \* HASHMAP_DEFAULT_INITIAL_CAPACITY
          UIntMod,    \* 2 ^ 32
          MaxStored   \* bound: elements of a list, characters of a string

ASSUME ContainersAssumption ==
  /\ NULL \notin Values /\ Strings \subseteq Seq(Values) /\ Keys \subseteq Int
  /\ Sizes \subseteq Nat /\ Default \in Nat /\ Default > 1
  /\ MapDefault \in Nat \ {0} /\ UIntMod \in Nat \ {0} /\ MaxStored \in Nat

VARIABLES kind,     \* "list", "map" or "text"
          cap,      \* the size it was created with
          size,     \* its size now
          length,   \* elements of a list or map, characters of a string
          data,     \* the array of a list or string
          chain,    \* the nodes in each bucket of a map, from the head
          call,     \* the join in progress
          lent,     \* the string is an array of the caller
          want, asUsed, broken

vars == <<kind, cap, size, length, data, chain, call, lent, want, asUsed, broken>>

Idle == [how |-> "none", src |-> <<>>]

Sized(default) == /\ cap \in Sizes
                  /\ size = IF cap = 0 THEN default ELSE cap

InitArraylist == /\ kind = "list" /\ Sized(Default)
                 /\ data = [i \in 0 .. size - 1 |-> NULL] /\ chain = <<>>

InitHashmap == /\ kind = "map" /\ Sized(MapDefault)
               /\ data = <<>> /\ chain = [b \in 0 .. size - 1 |-> <<>>]

InitString == /\ kind = "text" /\ Sized(Default)
              /\ data = [i \in 0 .. size - 1 |-> NULL] /\ chain = <<>>

\* INIT_STRING is the only way the server makes a string.
Init == /\ InitArraylist \/ InitHashmap \/ InitString
        /\ length = 0 /\ call = Idle /\ lent = FALSE
        /\ want = <<>> /\ broken = FALSE
        /\ asUsed = (kind = "text" => cap = 0)

Store(f, k, v) == [x \in DOMAIN f \cup {k} |-> IF x = k THEN v ELSE f[x]]

\* Faulty variant: the old size is not added.
GrownScaled == (3 * size) \div 4

\* Faulty variant: the size is the default one again.
GrownToDefault == Default

\* Both resizes: size + size * 0.75, a double that is stored in an int.
Grown == (7 * size) \div 4

\* Faulty variant: the loop over the old array ends one early.
CopiedShort(room, n) == [i \in 0 .. room - 1 |-> IF i < n - 1 THEN data[i] ELSE NULL]

\* The new array, zeroed, with what was in the old one.
Copied(room, n) == [i \in 0 .. room - 1 |-> IF i < n THEN data[i] ELSE NULL]

-----------------------------------------------------------------------------
(* The array list.                                                         *)

\* Faulty variant: the array is full one element late.
FullLate == length > size

Full == length >= size

\* add_arraylist: resize when the array is full, then store.  An array of one
\* does not grow.  A list made for n elements gets no more than n in the server.
Add(v) ==
  /\ kind = "list" /\ ~broken /\ length < MaxStored
  /\ LET room == IF Full THEN Grown ELSE size
     IN  /\ size' = room
         /\ data' = [Copied(room, size) EXCEPT ![length] = v]
         /\ broken' = (length >= room)
  /\ length' = length + 1
  /\ want' = Store(want, length, v)
  /\ asUsed' = (asUsed /\ (cap # 0 => length < cap))
  /\ UNCHANGED <<kind, cap, chain, call, lent>>

\* add_index_arraylist, which returns for any other index and takes the size
\* itself for one; no element is counted.
AddIndex(i, v) ==
  /\ kind = "list" /\ ~broken /\ i \in 0 .. size
  /\ data' = [data EXCEPT ![i] = v] /\ broken' = (i = size)
  /\ want' = IF i < length THEN Store(want, i, v) ELSE want
  /\ asUsed' = FALSE
  /\ UNCHANGED <<kind, cap, size, length, chain, call, lent>>

\* get_arraylist, within the array.
Get(i) == IF length <= 0 THEN NULL ELSE data[i]

-----------------------------------------------------------------------------
(* The hash map.  An int key is made unsigned for the remainder.           *)

hash(k) == (k % UIntMod) % size

\* Faulty variant: only the head of the chain is looked at.
AtHead(k) == {j \in {1} \cap DOMAIN chain[hash(k)] : chain[hash(k)][j].key = k}

\* Where the key is in the chain of its bucket.
At(k) == {j \in DOMAIN chain[hash(k)] : chain[hash(k)][j].key = k}
Node(k) == CHOOSE j \in At(k) : \A i \in At(k) : j <= i

\* put_hashmap: the node of the key gets the value, or a new node the head.
Put(k, v) ==
  /\ kind = "map" /\ ~broken
  /\ LET b == hash(k)
         new == [key |-> k, data |-> v]
     IN  IF At(k) # {}
         THEN chain' = [chain EXCEPT ![b][Node(k)] = new] /\ UNCHANGED length
         ELSE chain' = [chain EXCEPT ![b] = <<new>> \o @] /\ length' = length + 1
  /\ want' = Store(want, k, v)
  /\ UNCHANGED <<kind, cap, size, data, call, lent, asUsed, broken>>

\* delete_hashmap: a node is unlinked from the one before it.  The head has
\* none: it is freed, and the bucket goes on pointing to it.
Delete(k) ==
  /\ kind = "map" /\ ~broken /\ At(k) # {}
  /\ LET j == Node(k)
     IN  /\ chain' = [chain EXCEPT ![hash(k)] = SubSeq(@, 1, j - 1)
                                                 \o SubSeq(@, j + 1, Len(@))]
         /\ broken' = (j = 1)
  /\ length' = length - 1
  /\ want' = [x \in DOMAIN want \ {k} |-> want[x]]
  /\ asUsed' = FALSE
  /\ UNCHANGED <<kind, cap, size, data, call, lent>>

\* get_hashmap.
Lookup(k) == IF At(k) = {} THEN NULL ELSE chain[hash(k)][Node(k)].data

-----------------------------------------------------------------------------
(* The string: joins call themselves again after each resize.              *)

\* Where strcat appends and strcpy stops: at the first NUL.
Nuls == {i \in DOMAIN data : data[i] = NULL}
End == CHOOSE i \in Nuls : \A j \in Nuls : i <= j

\* get_string: a copy by strncpy, without the NUL.
GetString == [i \in 0 .. length - 1 |-> IF i < End THEN data[i] ELSE NULL]

\* join_char, join_chars and join_string are called; the server joins characters.
Join(how, src) ==
  /\ kind = "text" /\ ~broken /\ call = Idle
  /\ how = "char" => Len(src) = 1
  /\ length + Len(src) <= MaxStored
  /\ call' = [how |-> how, src |-> src]
  /\ asUsed' = (asUsed /\ how = "char")
  /\ UNCHANGED <<kind, cap, size, length, data, chain, lent, want, broken>>

\* Faulty variant: a string may fill its array and leave no room for its NUL.
FitsExactly == length + Len(call.src) <= size

Fits == length + Len(call.src) < size

\* resize: an array of one stays as it is, and the join recurses for ever.
Resize ==
  /\ kind = "text" /\ ~broken /\ call # Idle /\ ~Fits
  /\ size' = Grown /\ data' = Copied(Grown, End) /\ broken' = lent
  /\ UNCHANGED <<kind, cap, length, chain, call, lent, want, asUsed>>

\* A character goes where the length says, a string where strcat finds the end.
Joined ==
  /\ kind = "text" /\ ~broken /\ call # Idle /\ Fits
  /\ LET at == IF call.how = "char" THEN length ELSE End
         n == Len(call.src)
     IN  /\ data' = [i \in DOMAIN data |->
                       IF i \in at .. at + n - 1 THEN call.src[i - at + 1]
                       ELSE IF call.how # "char" /\ i = at + n THEN NULL
                       ELSE data[i]]
         /\ length' = length + n
         /\ want' = [i \in 0 .. length + n - 1 |->
                       IF i < length THEN want[i] ELSE call.src[i - length + 1]]
         /\ broken' = (lent /\ n # 0)
  /\ call' = Idle
  /\ UNCHANGED <<kind, cap, size, chain, lent, asUsed>>

\* value_char makes an array of one character that no NUL ends.
ValueChar(v) ==
  /\ kind = "text" /\ ~broken /\ call = Idle
  /\ length' = 0 /\ data' = [i \in {0} |-> v]
  /\ broken' = TRUE /\ asUsed' = FALSE
  /\ UNCHANGED <<kind, cap, size, chain, call, lent, want>>

\* value_chars takes over the caller's array, and not its size.  The next join
\* writes behind that array or frees it.
ValueChars(src) ==
  /\ kind = "text" /\ ~broken /\ call = Idle /\ Len(src) <= MaxStored
  /\ length' = Len(src)
  /\ data' = [i \in 0 .. Len(src) |-> IF i < Len(src) THEN src[i + 1] ELSE NULL]
  /\ want' = [i \in 0 .. Len(src) - 1 |-> src[i + 1]]
  /\ lent' = TRUE /\ asUsed' = FALSE
  /\ UNCHANGED <<kind, cap, size, chain, call, broken>>

-----------------------------------------------------------------------------
ListStep == \E v \in Values : Add(v) \/ \E i \in 0 .. size : AddIndex(i, v)
MapStep == \E k \in Keys : Delete(k) \/ \E v \in Values : Put(k, v)
TextStep == \/ \E how \in {"char", "chars"}, src \in Strings : Join(how, src)
            \/ \E v \in Values : ValueChar(v)
            \/ \E src \in Strings : ValueChars(src)

Next == ListStep \/ MapStep \/ TextStep \/ Resize \/ Joined

Spec == Init /\ [][Next]_vars

\* A join that has been called runs on.
FairSpec == Spec /\ WF_vars(Resize \/ Joined)

-----------------------------------------------------------------------------
\* The type invariant: an array is as long as its size says, but for one the
\* caller has lent.
TypeOK ==
  /\ kind \in {"list", "map", "text"} /\ cap \in Nat
  /\ size \in Nat \ {0} /\ length \in Nat
  /\ ~broken => DOMAIN data = IF kind = "map" THEN {}
                              ELSE IF lent THEN 0 .. length ELSE 0 .. size - 1
  /\ \A i \in DOMAIN data : data[i] \in Values \cup {NULL}
  /\ kind = "map" => /\ DOMAIN chain = 0 .. size - 1
                     /\ \A b \in 0 .. size - 1 :
                          chain[b] \in Seq([key : Keys, data : Values])
  /\ call \in [how : {"none", "char", "chars"}, src : Seq(Values)]
  /\ (call = Idle) = (call.how = "none")
  /\ lent \in BOOLEAN /\ asUsed \in BOOLEAN /\ broken \in BOOLEAN

\* What a container gives back: the elements by index, the values by key, the
\* characters up to the NUL.
Content ==
  CASE kind = "list" -> [i \in 0 .. length - 1 |-> Get(i)]
    [] kind = "map" -> [k \in {k \in Keys : Lookup(k) # NULL} |-> Lookup(k)]
    [] kind = "text" -> GetString

\* A container gives back what was stored in it, whatever it grew through and
\* whichever keys share a bucket.
HoldsWhatWasStored == ~broken => Content = want

\* The array of a string has room for the NUL that ends it, whichever joins
\* wrote into it, so that no function of string.h runs past its end.
Terminated == kind = "text" /\ ~broken => length \in DOMAIN data /\ data[length] = NULL

\* No key is twice in a map, each is in its own bucket, and elements counts the
\* nodes.
ChainsInOrder ==
  kind = "map" /\ ~broken =>
    /\ \A b \in DOMAIN chain : \A i, j \in DOMAIN chain[b] :
         /\ hash(chain[b][i].key) = b
         /\ chain[b][i].key = chain[b][j].key => i = j
    /\ length = Cardinality({k \in Keys : Lookup(k) # NULL})

\* The calls the server makes touch no memory but the container's own: lists of
\* the default size or with as many elements as they were made for, maps that
\* nothing is deleted from, and strings built of characters.
SafeAsUsed == asUsed => ~broken

\* A join returns, except on a string made for a single character.
JoinReturns == call # Idle ~> (call = Idle \/ broken \/ size = 1)
=============================================================================
