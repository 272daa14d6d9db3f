--------------------------- MODULE RequestProofs ---------------------------
(***************************************************************************)
(* Proofs about Request for any threads, locations, addresses and bounds:  *)
(* the types, that the racing increments of request_count never give an    *)
(* index outside the list of servers, that requests which do not overlap   *)
(* take the servers in turn, and that a request is served by the best      *)
(* location of its listener.                                               *)
(***************************************************************************)
EXTENDS Request, TLAPS

\* What the configuration says of a location.
LEMMA LocationType ==
  ASSUME NEW l \in LocationIds
  PROVE  /\ Locations[l].servers \in Nat
         /\ Locations[l].strategy \in Strategies
         /\ Locations[l].isStatic \in BOOLEAN
         /\ Locations[l].matchType \in MatchTypes
         /\ Locations[l].pattern \in Seq(STRING) \ {<<>>}
<1>1. Locations[l] \in Location  BY RequestAssumption DEF LocationIds
<1> QED  BY <1>1 DEF Location

\* C's ++ and % stay within the ints, % within the list for a count from 0 on.
LEMMA IncType == ASSUME NEW n \in Ints PROVE CInc(n) \in Ints
BY RequestAssumption DEF CInc, Ints

LEMMA RemType ==
  ASSUME NEW n \in Int, NEW m \in Nat \ {0}
  PROVE  /\ CRem(n, m) \in Int
         /\ n >= 0 => CRem(n, m) \in 0 .. m - 1
<1>1. n % m \in 0 .. m - 1 /\ (-n) % m \in 0 .. m - 1  OBVIOUS
<1> QED  BY <1>1 DEF CRem

\* Taking a prefix of the bytes leaves bytes, and no more than the prefix.
LEMMA PrefixType ==
  ASSUME NEW s \in Seq(Bytes), NEW n \in 0 .. Len(s)
  PROVE  /\ SubSeq(s, 1, n) \in Seq(Bytes) /\ Len(SubSeq(s, 1, n)) = n
         /\ SubSeq(s, n + 1, Len(s)) \in Seq(Bytes)
OBVIOUS

\* Steps that leave the readers, or the counters, alone.
LEMMA ReadersKept == ReadersOK /\ UNCHANGED readVars => ReadersOK'
BY DEF ReadersOK, readVars

LEMMA CountersKept ==
  ASSUME CountersOK, UNCHANGED balanceVars,
         \A t \in Threads : pc'[t] = "store" => pc[t] = "store"
  PROVE  CountersOK'
BY DEF CountersOK, balanceVars

\* A thread is moved on, and the target with it stays what it is.
LEMMA Moved ==
  ASSUME ControlOK, NEW t \in Threads, NEW l \in Labels, Goto(t, l),
         UNCHANGED <<map, clientVars, matchVars>>, proc' \in {"up", "crash"},
         l \in {"accept", "request", "match", "close"} \/ Serving(t)
  PROVE  /\ ControlOK'
         /\ pc'[t] = l /\ \A s \in Threads \ {t} : pc'[s] = pc[s]
<1> USE DEF ControlOK, Goto, clientVars, matchVars
<1>1. pc' \in [Threads -> Labels] /\ pc'[t] = l /\ \A s \in Threads \ {t} : pc'[s] = pc[s]
  OBVIOUS
<1>2. ASSUME NEW s \in Threads, Serving(s)' PROVE sdi'[s] \in LocationIds
  BY <1>1, <1>2 DEF Serving
<1> QED  BY <1>1, <1>2

\* select_server goes to one of three routines.
LEMMA Selected ==
  ASSUME ControlOK, NEW t \in Threads, SelectServer(t)
  PROVE  \E l \in {"load", "connect", "hash"} : Goto(t, l)
<1>1. sdi[t] \in LocationIds  BY DEF ControlOK, SelectServer, Serving
<1>2. Target(t).strategy \in Strategies  BY <1>1, LocationType DEF Target
<1>3. PICK l \in Branches(Target(t).strategy) : Goto(t, l)  BY DEF SelectServer
<1>4. l \in {"load", "connect", "hash"}
  BY <1>2, <1>3 DEF Strategies, Branches
<1> QED  BY <1>3, <1>4

\* A crash leaves every thread where it is.
LEMMA Stopped ==
  ASSUME ControlOK, Crash, UNCHANGED <<map, clientVars, matchVars>>
  PROVE  ControlOK'
BY DEF ControlOK, Crash, clientVars, matchVars, Serving

\* A line that has been read: the thread moves on, its next line is empty.
LEMMA LineReadType ==
  ASSUME ControlOK, NEW t \in Threads, NEW l, LineRead(t, l), Reading(t),
         UNCHANGED <<map, proc, clientVars, sdi>>
  PROVE  /\ ControlOK'
         /\ line' = [line EXCEPT ![t] = <<>>]
         /\ \A s \in Threads : pc'[s] = "store" => pc[s] = "store"
<1> USE DEF ControlOK, clientVars
<1>1. line' = [line EXCEPT ![t] = <<>>]  BY DEF LineRead
<1>2. CASE pc[t] = "request"
  <2>1. /\ pc' = [pc EXCEPT ![t] = "match"] /\ kind' = [kind EXCEPT ![t] = "EXACT"]
        /\ found' = [found EXCEPT ![t] = FALSE]
    BY <1>2 DEF LineRead, Goto
  <2>2. /\ pc' \in [Threads -> Labels] /\ found' \in [Threads -> BOOLEAN]
        /\ kind' \in [Threads -> MatchTypes \cup {"no more"}]
    BY <2>1 DEF Labels, MatchTypes
  <2> QED  BY <1>1, <2>1, <2>2 DEF Serving
<1>3. CASE pc[t] = "headers"
  <2>1. UNCHANGED <<kind, found>> /\ (pc' = pc \/ pc' = [pc EXCEPT ![t] = "close"])
    BY <1>3 DEF LineRead, Return, Goto
  <2>2. pc' \in [Threads -> Labels]  BY <2>1 DEF Labels
  <2> QED  BY <1>1, <2>1, <2>2 DEF Serving
<1> QED  BY <1>2, <1>3 DEF Reading

\* Every variable stays within its type: no buffer or line of a reader
\* overflows, the counters stay ints, and a thread that serves has a target.
THEOREM Typing == Spec => []TypeOK
<1> USE RequestAssumption
<1>1. Init => TypeOK
  <2> SUFFICES ASSUME Init PROVE TypeOK  OBVIOUS
  <2>1. ControlOK
    BY DEF Init, ControlOK, Sending, Labels, MatchTypes, NoTarget, Serving
  <2>2. ReadersOK  BY DEF Init, ReadersOK
  <2>3. CountersOK  BY DEF Init, CountersOK, StartCounts
  <2> QED  BY <2>1, <2>2, <2>3 DEF TypeOK
<1>2. ASSUME TypeOK, [Next]_vars PROVE TypeOK'
  <2>0. ControlOK /\ ReadersOK /\ CountersOK  BY <1>2 DEF TypeOK
  <2>1. CASE UNCHANGED vars
    BY <2>0, <2>1 DEF vars, TypeOK, ControlOK, ReadersOK, CountersOK, Serving
  <2>2. ASSUME NEW t \in Threads, Accept(t) PROVE TypeOK'
    <3>0. /\ client' \in [Threads -> Sending \cup {"gone", "done", "closed", "reset"}]
          /\ pc' \in [Threads -> Labels]
      BY <2>0, <2>2 DEF Accept, ControlOK, Goto, Labels, Sending
    <3>1. ControlOK' /\ \A s \in Threads : pc'[s] = "store" => pc[s] = "store"
      <4>0. conns \in Nat /\ sent \in Nat  BY <2>0 DEF ControlOK
      <4>1. conns' \in Nat  BY <2>2, <4>0 DEF Accept
      <4>2. /\ UNCHANGED <<map, proc, sent, matchVars>>
            /\ pc' = [pc EXCEPT ![t] = "request"]
        BY <2>2 DEF Accept, Goto
      <4> QED  BY <2>0, <3>0, <4>1, <4>2 DEF ControlOK, matchVars, Serving
    <3> QED  BY <2>0, <2>2, <3>1, ReadersKept, CountersKept DEF Accept, TypeOK
  <2>3. ASSUME NEW t \in Threads, Leave(t) PROVE TypeOK'
    <3>0. client' \in [Threads -> Sending \cup {"gone", "done", "closed", "reset"}]
      BY <2>0, <2>3 DEF Leave, ControlOK
    <3>1. ControlOK'
      BY <2>0, <2>3, <3>0 DEF Leave, ControlOK, matchVars, Serving
    <3>2. ReadersOK'
      <4>1. <<>> \in Seq(Bytes)  OBVIOUS
      <4>2. sock' \in [Threads -> Seq(Bytes)]
        BY <2>0, <2>3, <4>1 DEF Leave, ReadersOK
      <4> QED  BY <2>0, <2>3, <4>2 DEF Leave, ReadersOK
    <3> QED  BY <2>0, <2>3, <3>1, <3>2, CountersKept DEF Leave, TypeOK
  <2>4. ASSUME NEW t \in Threads, NEW b \in Bytes, Send(t, b) PROVE TypeOK'
    <3>1. After(client[t], b) \in Sending \cup {"done"}
      BY <2>4 DEF Send, After, Sending, Bytes
    <3>0. client' \in [Threads -> Sending \cup {"gone", "done", "closed", "reset"}]
      BY <2>0, <2>4, <3>1 DEF Send, ControlOK
    <3>2. ControlOK'
      <4>0. sent \in Nat  BY <2>0 DEF ControlOK
      <4>1. sent' \in Nat  BY <2>4, <4>0 DEF Send
      <4>2. UNCHANGED <<map, proc, conns, pc, matchVars>>  BY <2>4 DEF Send
      <4> QED  BY <2>0, <3>0, <4>1, <4>2 DEF ControlOK, matchVars, Serving
    <3>3. ReadersOK'  BY <2>0, <2>4 DEF Send, ReadersOK
    <3> QED  BY <2>0, <2>4, <3>2, <3>3, CountersKept DEF Send, TypeOK
  <2>5. ASSUME NEW t \in Threads, Close(t) PROVE TypeOK'
    <3>1. ControlOK' /\ \A s \in Threads : pc'[s] = "store" => pc[s] = "store"
      BY <2>0, <2>5 DEF Close, ControlOK, Goto, Serving, Labels, MatchTypes
    <3>2. ReadersOK'  BY <2>0, <2>5 DEF Close, ReadersOK
    <3> QED  BY <2>0, <2>5, <3>1, <3>2, CountersKept DEF Close, TypeOK
  <2>6. ASSUME NEW t \in Threads, Refill(t) PROVE TypeOK'
    <3> DEFINE n == IF Len(sock[t]) < BufSize THEN Len(sock[t]) ELSE BufSize
    <3>1. sock[t] \in Seq(Bytes)  BY <2>0 DEF ReadersOK
    <3>2. n \in 0 .. Len(sock[t]) /\ n <= BufSize  BY <3>1
    <3>3. /\ rio' = [rio EXCEPT ![t] = SubSeq(sock[t], 1, n)]
          /\ sock' = [sock EXCEPT ![t] = SubSeq(sock[t], n + 1, Len(sock[t]))]
          /\ UNCHANGED line
      BY <2>6 DEF Refill
    <3> HIDE DEF n
    <3>4. /\ SubSeq(sock[t], 1, n) \in Seq(Bytes) /\ Len(SubSeq(sock[t], 1, n)) <= BufSize
          /\ SubSeq(sock[t], n + 1, Len(sock[t])) \in Seq(Bytes)
      BY <3>1, <3>2, PrefixType
    <3>5. ReadersOK'  BY <2>0, <3>3, <3>4 DEF ReadersOK
    <3>6. ControlOK'
      BY <2>0, <2>6 DEF Refill, ControlOK, clientVars, matchVars, Serving
    <3> QED  BY <2>0, <2>6, <3>5, <3>6, CountersKept DEF Refill, TypeOK
  <2>7. ASSUME NEW t \in Threads, ReadByte(t) PROVE TypeOK'
    <3> DEFINE b == Head(rio[t])
               l == Append(line[t], b)
    <3>1. /\ rio[t] \in Seq(Bytes) /\ rio[t] # <<>> /\ Len(rio[t]) <= BufSize
          /\ line[t] \in Seq(Bytes) /\ Len(line[t]) < MaxLine - 1
      BY <2>0, <2>7 DEF ReadersOK, ReadByte
    <3>2. b \in Bytes  BY <3>1
    <3>3. Tail(rio[t]) \in Seq(Bytes) /\ Len(Tail(rio[t])) <= BufSize  BY <3>1
    <3>4. l \in Seq(Bytes) /\ Len(l) = Len(line[t]) + 1  BY <3>1, <3>2
    <3>5. rio' = [rio EXCEPT ![t] = Tail(rio[t])] /\ UNCHANGED sock
      BY <2>7 DEF ReadByte
    <3>6. CASE LineRead(t, l)
      <4>1. /\ ControlOK' /\ line' = [line EXCEPT ![t] = <<>>]
            /\ \A s \in Threads : pc'[s] = "store" => pc[s] = "store"
        BY <2>0, <2>7, <3>6, LineReadType DEF ReadByte
      <4>2. ReadersOK'  BY <2>0, <3>3, <3>5, <4>1 DEF ReadersOK
      <4> QED  BY <2>0, <2>7, <4>1, <4>2, CountersKept DEF ReadByte, TypeOK
    <3>7. CASE /\ Len(l) # MaxLine - 1 /\ line' = [line EXCEPT ![t] = l]
               /\ UNCHANGED <<pc, uri, kind, found>>
      <4> HIDE DEF l
      <4>0. l \in Seq(Bytes) /\ Len(l) < MaxLine - 1
        <5>1. Len(l) = Len(line[t]) + 1 /\ Len(line[t]) \in Nat  BY <3>1, <3>4
        <5> QED  BY <3>1, <3>4, <3>7, <5>1
      <4>1. ReadersOK'  BY <2>0, <3>3, <3>5, <3>7, <4>0 DEF ReadersOK
      <4>2. ControlOK'
        BY <2>0, <2>7, <3>7 DEF ReadByte, ControlOK, clientVars, Serving
      <4> QED  BY <2>0, <2>7, <3>7, <4>1, <4>2, CountersKept DEF ReadByte, TypeOK
    <3> QED  BY <2>7, <3>6, <3>7 DEF ReadByte
  <2>8. ASSUME NEW t \in Threads, EndOfStream(t) PROVE TypeOK'
    <3>1. CASE LineRead(t, line[t])
      <4>1. /\ ControlOK' /\ line' = [line EXCEPT ![t] = <<>>]
            /\ \A s \in Threads : pc'[s] = "store" => pc[s] = "store"
        BY <2>0, <2>8, <3>1, LineReadType DEF EndOfStream
      <4>2. ReadersOK'  BY <2>0, <2>8, <4>1 DEF ReadersOK, EndOfStream
      <4> QED  BY <2>0, <2>8, <4>1, <4>2, CountersKept DEF EndOfStream, TypeOK
    <3>2. CASE Return(t) /\ UNCHANGED <<line, uri, kind, found>>
      <4>1. ControlOK' /\ \A s \in Threads : pc'[s] = "store" => pc[s] = "store"
        BY <2>0, <2>8, <3>2, Moved
        DEF EndOfStream, Return, ControlOK, matchVars, clientVars, Labels
      <4> QED
        BY <2>0, <2>8, <3>2, <4>1, ReadersKept, CountersKept
        DEF EndOfStream, TypeOK, readVars
    <3> QED  BY <2>8, <3>1, <3>2 DEF EndOfStream
  <2>9. ASSUME NEW t \in Threads, MatchKind(t) PROVE TypeOK'
    <3>1. /\ \/ /\ \E l \in LocationIds : sdi' = [sdi EXCEPT ![t] = l]
                /\ found' = [found EXCEPT ![t] = TRUE]
                /\ pc' = [pc EXCEPT ![t] = "serve"]
                /\ kind' = kind
             \/ /\ kind' = [kind EXCEPT ![t] = NextKind(kind[t])]
                /\ UNCHANGED <<sdi, found, pc>>
      BY <2>9 DEF MatchKind, Hits, Goto
    <3>2. NextKind(kind[t]) \in MatchTypes \cup {"no more"}
      BY <2>0, <2>9 DEF MatchKind, NextKind, MatchTypes, ControlOK
    <3>3. ControlOK' /\ \A s \in Threads : pc'[s] = "store" => pc[s] = "store"
      <4>1. CASE UNCHANGED <<sdi, found, pc>>
        BY <2>0, <2>9, <3>1, <3>2, <4>1 DEF MatchKind, ControlOK, clientVars, Serving
      <4>2. CASE /\ found' = [found EXCEPT ![t] = TRUE]
                 /\ pc' = [pc EXCEPT ![t] = "serve"] /\ kind' = kind
                 /\ \E l \in LocationIds : sdi' = [sdi EXCEPT ![t] = l]
        <5>1. PICK l \in LocationIds : sdi' = [sdi EXCEPT ![t] = l]
          BY <4>2
        <5>2. found' \in [Threads -> BOOLEAN] /\ pc' \in [Threads -> Labels]
          BY <2>0, <4>2 DEF ControlOK, Labels
        <5> QED  BY <2>0, <2>9, <4>2, <5>1, <5>2 DEF MatchKind, ControlOK, clientVars, Serving
      <4> QED  BY <3>1, <4>1, <4>2
    <3> QED  BY <2>0, <2>9, <3>3, ReadersKept, CountersKept DEF MatchKind, TypeOK
  <2>10. ASSUME NEW t \in Threads, MatchList(t) PROVE TypeOK'
    BY <2>0, <2>10, Stopped, ReadersKept, CountersKept DEF MatchList, Crash, TypeOK
  <2>11. ASSUME NEW t \in Threads, NotFound(t) PROVE TypeOK'
    <3>1. CASE sdi[t] # NoTarget /\ Goto(t, "serve") /\ UNCHANGED proc
      <4>1. ControlOK' /\ \A s \in Threads : pc'[s] = "store" => pc[s] = "store"
        BY <2>0, <2>11, <3>1
        DEF NotFound, ControlOK, Goto, clientVars, matchVars, Serving, Labels
      <4> QED  BY <2>0, <2>11, <4>1, ReadersKept, CountersKept DEF NotFound, TypeOK
    <3>2. CASE Return(t) /\ UNCHANGED proc
      <4>1. ControlOK' /\ \A s \in Threads : pc'[s] = "store" => pc[s] = "store"
        BY <2>0, <2>11, <3>2
        DEF NotFound, Return, ControlOK, Goto, clientVars, matchVars, Serving, Labels
      <4> QED  BY <2>0, <2>11, <4>1, ReadersKept, CountersKept DEF NotFound, TypeOK
    <3>3. CASE Crash
      BY <2>0, <2>11, <3>3, Stopped, ReadersKept, CountersKept DEF NotFound, Crash, TypeOK
    <3> QED  BY <2>11, <3>1, <3>2, <3>3 DEF NotFound
  <2>12. ASSUME NEW t \in Threads, Serving(t), NEW l \in Labels \ {"store"}, Goto(t, l),
                UNCHANGED <<map, proc, clientVars, readVars, matchVars, balanceVars>>
         PROVE  TypeOK'
    <3>1. ControlOK' /\ \A s \in Threads : pc'[s] = "store" => pc[s] = "store"
      BY <2>0, <2>12, Moved DEF ControlOK
    <3> QED  BY <2>0, <2>12, <3>1, ReadersKept, CountersKept DEF TypeOK
  <2>13. ASSUME NEW t \in Threads, ServeStatic(t) \/ SelectServer(t) \/ Connect(t)
         PROVE  TypeOK'
    <3>1. CASE ServeStatic(t) \/ Connect(t)
      BY <2>12, <3>1 DEF ServeStatic, Connect, Serving, Return, Labels
    <3>2. CASE SelectServer(t)
      <4>1. PICK l \in {"load", "connect", "hash"} : Goto(t, l)
        BY <2>0, <3>2, Selected
      <4>2. l \in Labels \ {"store"} /\ Serving(t)
        BY <3>2 DEF Labels, SelectServer, Serving
      <4> QED  BY <2>12, <3>2, <4>1, <4>2 DEF SelectServer
    <3> QED  BY <2>13, <3>1, <3>2
  <2>14. ASSUME NEW t \in Threads, Load(t) PROVE TypeOK'
    <3>1. sdi[t] \in LocationIds  BY <2>0, <2>14 DEF ControlOK, Load, Serving
    <3>2. ControlOK' /\ \A s \in Threads \ {t} : pc'[s] = pc[s]
      BY <2>0, <2>14, Moved DEF Load, Serving, Labels, ControlOK
    <3>3. CountersOK'
      BY <2>0, <2>14, <3>1, <3>2 DEF Load, CountersOK, Ints
    <3> QED  BY <2>0, <2>14, <3>2, <3>3, ReadersKept DEF Load, TypeOK
  <2>15. ASSUME NEW t \in Threads, Store(t) PROVE TypeOK'
    <3>1. sdi[t] \in LocationIds /\ reg[t] \in Ints
      BY <2>0, <2>15 DEF ControlOK, CountersOK, Store, Serving
    <3>2. /\ ControlOK' /\ pc'[t] = "index"
          /\ \A s \in Threads \ {t} : pc'[s] = pc[s]
      BY <2>0, <2>15, Moved DEF Store, Serving, Labels, ControlOK
    <3>3. CInc(reg[t]) \in Ints  BY <3>1, IncType
    <3>4. CountersOK'
      BY <2>0, <2>15, <3>1, <3>2, <3>3 DEF Store, CountersOK
    <3> QED  BY <2>0, <2>15, <3>2, <3>4, ReadersKept DEF Store, TypeOK
  <2>16. ASSUME NEW t \in Threads, pc[t] \in {"index", "hash", "pick"},
                \E n \in Int : reg' = [reg EXCEPT ![t] = n],
                \/ Goto(t, "pick") /\ UNCHANGED proc
                \/ Goto(t, "connect") /\ UNCHANGED proc
                \/ Crash,
                UNCHANGED <<map, clientVars, readVars, matchVars, count, calls,
                            overlap>>
         PROVE  TypeOK'
    <3>0. Serving(t) /\ proc \in {"up", "crash"} /\ {"pick", "connect"} \subseteq Labels
      BY <2>0, <2>16 DEF Serving, Labels, ControlOK
    <3>1. ControlOK' /\ \A s \in Threads : pc'[s] = "store" => pc[s] = "store" /\ s # t
      <4>1. CASE Crash
        BY <2>0, <2>16, <4>1, Stopped DEF Crash
      <4>2. CASE Goto(t, "pick") /\ UNCHANGED proc
        BY <2>0, <2>16, <3>0, <4>2, Moved
      <4>3. CASE Goto(t, "connect") /\ UNCHANGED proc
        BY <2>0, <2>16, <3>0, <4>3, Moved
      <4> QED  BY <2>16, <4>1, <4>2, <4>3
    <3>2. CountersOK'  BY <2>0, <2>16, <3>1 DEF CountersOK
    <3> QED  BY <2>0, <2>16, <3>1, <3>2, ReadersKept DEF TypeOK
  <2>17. ASSUME NEW t \in Threads, Crash,
                UNCHANGED <<map, clientVars, readVars, matchVars, balanceVars>>
         PROVE  TypeOK'
    BY <2>0, <2>17, Stopped, ReadersKept, CountersKept DEF Crash, TypeOK
  <2>18. ASSUME NEW t \in Threads, Index(t) PROVE TypeOK'
    <3>1. CASE Target(t).servers = 0
      BY <2>17, <2>18, <3>1 DEF Index, balanceVars
    <3>2. CASE Target(t).servers # 0
      <4>1. sdi[t] \in LocationIds  BY <2>0, <2>18 DEF ControlOK, Index, Serving
      <4>2. Target(t).servers \in Nat \ {0} /\ count[sdi[t]] \in Int
        BY <2>0, <3>2, <4>1, LocationType DEF CountersOK, Target, Ints
      <4>3. CRem(count[sdi[t]], Target(t).servers) \in Int
        BY <4>2, RemType
      <4> QED  BY <2>16, <2>18, <3>2, <4>3 DEF Index
    <3> QED  BY <3>1, <3>2
  <2>19. ASSUME NEW t \in Threads, Hash(t) PROVE TypeOK'
    <3>1. CASE Goto(t, "spin") /\ UNCHANGED <<proc, reg>>
      BY <2>12, <2>19, <3>1 DEF Hash, Serving, Labels, balanceVars
    <3>2. CASE Crash /\ UNCHANGED reg
      BY <2>17, <2>19, <3>2 DEF Hash, balanceVars
    <3>3. CASE reg' = [reg EXCEPT ![t] = 0] /\ Goto(t, "pick") /\ UNCHANGED proc
      <4>1. \E n \in Int : reg' = [reg EXCEPT ![t] = n]
        <5> WITNESS 0 \in Int
        <5> QED  BY <3>3
      <4> QED  BY <2>16, <2>19, <3>3, <4>1 DEF Hash
    <3> QED  BY <2>19, <3>1, <3>2, <3>3 DEF Hash
  <2>20. ASSUME NEW t \in Threads, Pick(t) PROVE TypeOK'
    <3>1. \E n \in Int : reg' = [reg EXCEPT ![t] = n]
      <4> WITNESS 0 \in Int
      <4> QED  BY <2>20 DEF Pick
    <3>2. (Goto(t, "connect") /\ UNCHANGED proc) \/ Crash  BY <2>20 DEF Pick
    <3> QED  BY <2>16, <2>20, <3>1, <3>2 DEF Pick
  <2> QED
    BY <1>2, <2>1, <2>2, <2>3, <2>4, <2>5, <2>6, <2>7, <2>8, <2>9, <2>10, <2>11,
       <2>13, <2>14, <2>15, <2>18, <2>19, <2>20
    DEF Next, ThreadStep, ClientStep, Read, Match, RoundRobin, Serve
<1> QED  BY <1>1, <1>2, PTL DEF Spec

-----------------------------------------------------------------------------
(* The index in the list.                                                  *)

\* A proxy whose counter started at 0 and has not come round.
Counting(l) == calls[l] <= IntMax /\ Locations[l].strategy # "unset"

\* The counter, and every copy of it that will be stored, is no further than
\* the number of calls; a stale copy only sets the counter back.
CountInv == /\ \A l \in LocationIds : Counting(l) => count[l] \in 0 .. calls[l]
            /\ \A t \in Threads : pc[t] = "store" /\ Counting(sdi[t])
                                 => reg[t] \in 0 .. calls[sdi[t]] - 1

\* With it, every index that was computed is in the list.
IndexInv == CountInv /\ IndexInList

\* The steps before and after the balancing leave what it uses alone, and every
\* thread that is balancing or about to.
Balancing == {"store", "index", "pick"}

LEMMA Elsewhere ==
  ASSUME ControlOK, NEW t \in Threads,
         \/ Accept(t) \/ Leave(t) \/ Read(t) \/ Match(t) \/ Close(t)
         \/ ServeStatic(t) \/ SelectServer(t) \/ Connect(t)
         \/ \E b \in Bytes : Send(t, b)
  PROVE  /\ UNCHANGED balanceVars
         /\ \A s \in Threads : pc[s] \in Balancing \/ pc'[s] \in Balancing
                                => pc'[s] = pc[s] /\ sdi'[s] = sdi[s]
<1>0. /\ pc \in [Threads -> Labels] /\ sdi \in [Threads -> LocationIds \cup {NoTarget}]
  BY DEF ControlOK
<1> USE DEF Balancing
<1>1. CASE Accept(t)  BY <1>0, <1>1 DEF Accept, Goto, matchVars
<1>2. CASE Leave(t)   BY <1>0, <1>2 DEF Leave, matchVars
<1>3. CASE \E b \in Bytes : Send(t, b)  BY <1>0, <1>3 DEF Send, matchVars
<1>4. CASE Refill(t)  BY <1>0, <1>4 DEF Refill, matchVars
<1>5. CASE ReadByte(t)
  BY <1>0, <1>5 DEF ReadByte, LineRead, Goto, Return, Reading
<1>6. CASE EndOfStream(t)
  BY <1>0, <1>6 DEF EndOfStream, LineRead, Goto, Return, Reading
<1>7. CASE MatchKind(t)
  <2>1. pc[t] = "match" /\ UNCHANGED balanceVars  BY <1>7 DEF MatchKind
  <2>2. \/ pc' = [pc EXCEPT ![t] = "serve"]
           /\ \E l \in LocationIds : sdi' = [sdi EXCEPT ![t] = l]
        \/ UNCHANGED <<sdi, pc>>
    BY <1>7 DEF MatchKind, Goto, Hits
  <2> QED  BY <1>0, <2>1, <2>2
<1>8. CASE MatchList(t)  BY <1>0, <1>8 DEF MatchList, Crash, matchVars
<1>9. CASE NotFound(t)
  BY <1>0, <1>9 DEF NotFound, Crash, Goto, Return, matchVars
<1>10. CASE Close(t)  BY <1>0, <1>10 DEF Close, Goto
<1>11. CASE ServeStatic(t)
  BY <1>0, <1>11 DEF ServeStatic, Goto, Return, matchVars
<1>12. CASE SelectServer(t)
  <2>1. UNCHANGED <<balanceVars, sdi>> /\ pc[t] = "serve"
    BY <1>12 DEF SelectServer, matchVars
  <2>2. \E l \in {"load", "connect", "hash"} : pc' = [pc EXCEPT ![t] = l]
    BY <1>12, Selected DEF Goto
  <2> QED  BY <1>0, <2>1, <2>2
<1>13. CASE Connect(t)  BY <1>0, <1>13 DEF Connect, Goto, matchVars
<1> QED
  BY <1>1, <1>2, <1>3, <1>4, <1>5, <1>6, <1>7, <1>8, <1>9, <1>10, <1>11, <1>12, <1>13
  DEF Read, Match

\* Steps that leave the counters and the targets of counting threads alone.
LEMMA IndexKept ==
  ASSUME IndexInv, UNCHANGED balanceVars,
         \A t \in Threads : pc'[t] \in {"store", "pick"}
                              => pc'[t] = pc[t] /\ sdi'[t] = sdi[t]
  PROVE  IndexInv'
<1> USE DEF balanceVars
<1>1. CountInv'  BY DEF IndexInv, CountInv, Counting
<1>2. IndexInList'
  BY DEF IndexInv, IndexInList, Balanced, InList, Target
<1> QED  BY <1>1, <1>2 DEF IndexInv

\* Whatever the threads that increment request_count overwrite of each other's
\* work, the index handed to get_arraylist is in the list of servers, for
\* every number of threads and servers, up to INT_MAX calls.
THEOREM IndexIsInList == Spec => []IndexInList
<1> USE RequestAssumption
<1>1. Init => IndexInv
  <2> SUFFICES ASSUME Init PROVE IndexInv  OBVIOUS
  <2>1. /\ \A l \in LocationIds : calls[l] = 0
        /\ \A l \in LocationIds : Locations[l].strategy # "unset" => count[l] = 0
        /\ \A t \in Threads : pc[t] = "accept"
    BY DEF Init, StartCounts
  <2> QED  BY <2>1 DEF IndexInv, CountInv, IndexInList, Counting
<1>2. ASSUME TypeOK, IndexInv, [Next]_vars PROVE IndexInv'
  <2>0. /\ pc \in [Threads -> Labels] /\ sdi \in [Threads -> LocationIds \cup {NoTarget}]
        /\ \A t \in Threads : Serving(t) => sdi[t] \in LocationIds
        /\ count \in [LocationIds -> Ints] /\ calls \in [LocationIds -> Nat]
        /\ reg \in [Threads -> Int]
    BY <1>2 DEF TypeOK, ControlOK, CountersOK
  <2>1. CASE UNCHANGED vars
    BY <1>2, <2>1, IndexKept DEF vars, balanceVars
  <2>2. ASSUME NEW t \in Threads,
               \/ Accept(t) \/ Leave(t) \/ Read(t) \/ Match(t) \/ Close(t)
               \/ ServeStatic(t) \/ SelectServer(t) \/ Connect(t)
               \/ \E b \in Bytes : Send(t, b)
        PROVE  IndexInv'
    <3>1. /\ UNCHANGED balanceVars
          /\ \A s \in Threads : pc'[s] \in {"store", "pick"}
                                => pc'[s] = pc[s] /\ sdi'[s] = sdi[s]
      BY <1>2, <2>2, Elsewhere DEF TypeOK, Balancing
    <3> QED  BY <1>2, <3>1, IndexKept
  <2>3. ASSUME NEW t \in Threads, Load(t) PROVE IndexInv'
    <3>1. /\ sdi[t] \in LocationIds /\ UNCHANGED <<sdi, count>>
          /\ reg' = [reg EXCEPT ![t] = count[sdi[t]]]
          /\ calls' = [calls EXCEPT ![sdi[t]] = calls[sdi[t]] + 1]
          /\ pc' = [pc EXCEPT ![t] = "store"]
      BY <2>0, <2>3 DEF Load, Serving, Goto, matchVars
    <3>2. \A l \in LocationIds : /\ calls[l] \in Nat /\ calls'[l] \in Nat
                                 /\ calls[l] <= calls'[l]
      BY <2>0, <3>1
    <3>3. ASSUME NEW l \in LocationIds, Counting(l)' PROVE count'[l] \in 0 .. calls'[l]
      <4>1. count[l] \in 0 .. calls[l]
        BY <1>2, <3>2, <3>3 DEF IndexInv, CountInv, Counting
      <4> QED  BY <3>1, <3>2, <4>1
    <3>4. ASSUME NEW s \in Threads, pc'[s] = "store", Counting(sdi[s])'
          PROVE  reg'[s] \in 0 .. calls'[sdi'[s]] - 1
      <4>1. CASE s = t
        <5>1. calls'[sdi[t]] = calls[sdi[t]] + 1  BY <2>0, <3>1
        <5>2. count[sdi[t]] \in 0 .. calls[sdi[t]]
          BY <1>2, <3>1, <3>2, <3>4, <4>1 DEF IndexInv, CountInv, Counting
        <5>3. reg'[s] = count[sdi[t]]  BY <2>0, <3>1, <4>1
        <5> QED  BY <3>1, <3>2, <4>1, <5>1, <5>2, <5>3
      <4>2. CASE s # t
        <5>1. pc[s] = "store" /\ reg'[s] = reg[s]  BY <2>0, <3>1, <3>4, <4>2
        <5>2. sdi[s] \in LocationIds  BY <2>0, <5>1 DEF Serving
        <5>3. reg[s] \in 0 .. calls[sdi[s]] - 1
          BY <1>2, <3>1, <3>2, <3>4, <5>1, <5>2 DEF IndexInv, CountInv, Counting
        <5> QED  BY <3>1, <3>2, <5>1, <5>2, <5>3
      <4> QED  BY <4>1, <4>2
    <3>5. ASSUME NEW s \in Threads, pc'[s] = "pick", Balanced(sdi[s])' PROVE InList(s)'
      <4>1. s # t /\ pc[s] = "pick" /\ reg'[s] = reg[s]  BY <2>0, <3>1, <3>5
      <4>2. sdi[s] \in LocationIds  BY <2>0, <4>1 DEF Serving
      <4>3. Balanced(sdi[s])  BY <3>1, <3>2, <3>5, <4>2 DEF Balanced
      <4> QED
        BY <1>2, <3>1, <4>1, <4>3 DEF IndexInv, IndexInList, InList, Target
    <3> QED  BY <3>3, <3>4, <3>5 DEF IndexInv, CountInv, IndexInList
  <2>4. ASSUME NEW t \in Threads, Store(t) PROVE IndexInv'
    <3>1. /\ sdi[t] \in LocationIds /\ UNCHANGED <<sdi, reg, calls>>
          /\ count' = [count EXCEPT ![sdi[t]] = CInc(reg[t])]
          /\ pc' = [pc EXCEPT ![t] = "index"] /\ pc[t] = "store"
      BY <2>0, <2>4 DEF Store, Serving, Goto, matchVars
    <3>2. ASSUME NEW l \in LocationIds, Counting(l)' PROVE count'[l] \in 0 .. calls'[l]
      <4>1. Counting(l) /\ count[l] \in 0 .. calls[l]
        BY <1>2, <3>1, <3>2 DEF IndexInv, CountInv, Counting
      <4>2. CASE l = sdi[t]
        <5>1. reg[t] \in 0 .. calls[l] - 1 /\ calls[l] \in Nat /\ calls[l] <= IntMax
          BY <1>2, <2>0, <3>1, <4>1, <4>2 DEF IndexInv, CountInv, Counting
        <5>2. CInc(reg[t]) = reg[t] + 1  BY <5>1 DEF CInc
        <5> QED  BY <2>0, <3>1, <4>2, <5>1, <5>2
      <4> QED  BY <2>0, <3>1, <4>1, <4>2
    <3>3. ASSUME NEW s \in Threads, pc'[s] \in {"store", "pick"}
          PROVE  s # t /\ pc'[s] = pc[s]
      BY <2>0, <3>1, <3>3
    <3>4. CountInv'
      BY <1>2, <3>1, <3>2, <3>3 DEF IndexInv, CountInv, Counting
    <3>5. IndexInList'
      BY <1>2, <3>1, <3>3 DEF IndexInv, IndexInList, Balanced, InList, Target
    <3> QED  BY <3>4, <3>5 DEF IndexInv
  <2>5. ASSUME NEW t \in Threads, NEW i \in Int, reg' = [reg EXCEPT ![t] = i],
               pc' = [pc EXCEPT ![t] = "pick"], pc[t] # "store",
               Balanced(sdi[t]) => i \in 0 .. Target(t).servers - 1,
               UNCHANGED <<sdi, count, calls>>
        PROVE  IndexInv'
    <3>1. \A s \in Threads : pc'[s] = "store" => pc[s] = "store" /\ reg'[s] = reg[s]
      BY <2>0, <2>5
    <3>2. CountInv'  BY <1>2, <2>5, <3>1 DEF IndexInv, CountInv, Counting
    <3>3. ASSUME NEW s \in Threads, pc'[s] = "pick", Balanced(sdi[s])' PROVE InList(s)'
      <4>1. Balanced(sdi[s])  BY <2>5, <3>3 DEF Balanced
      <4>2. CASE s = t  BY <2>0, <2>5, <4>1, <4>2 DEF InList, Target
      <4>3. CASE s # t
        <5>1. pc[s] = "pick" /\ reg'[s] = reg[s]  BY <2>0, <2>5, <3>3, <4>3
        <5> QED
          BY <1>2, <2>5, <4>1, <5>1 DEF IndexInv, IndexInList, InList, Target
      <4> QED  BY <4>2, <4>3
    <3> QED  BY <3>2, <3>3 DEF IndexInv, IndexInList
  <2>6. ASSUME NEW t \in Threads, UNCHANGED <<sdi, count, calls>>,
               pc[t] # "store", \A s \in Threads \ {t} : pc'[s] = pc[s],
               pc'[t] \notin {"store", "pick"} \/ (pc' = pc /\ reg' = reg),
               \A s \in Threads \ {t} : reg'[s] = reg[s]
        PROVE  IndexInv'
    BY <1>2, <2>6
    DEF IndexInv, CountInv, IndexInList, Counting, Balanced, InList, Target
  <2>7. ASSUME NEW t \in Threads, Index(t) PROVE IndexInv'
    <3>1. /\ sdi[t] \in LocationIds /\ UNCHANGED <<sdi, count, calls>>
          /\ pc[t] = "index"
      BY <2>0, <2>7 DEF Index, Serving, matchVars
    <3>2. CASE Target(t).servers = 0
      BY <2>6, <2>7, <3>1, <3>2 DEF Index, Crash
    <3>3. CASE Target(t).servers # 0
      <4>1. Target(t).servers \in Nat \ {0} /\ count[sdi[t]] \in Int
        BY <2>0, <3>1, <3>3, LocationType DEF Target, Ints
      <4> DEFINE i == CRem(count[sdi[t]], Target(t).servers)
      <4>2. i \in Int /\ (count[sdi[t]] >= 0 => i \in 0 .. Target(t).servers - 1)
        BY <4>1, RemType
      <4>3. Balanced(sdi[t]) => count[sdi[t]] >= 0
        <5>1. Balanced(sdi[t]) => count[sdi[t]] \in 0 .. calls[sdi[t]]
          BY <1>2, <3>1 DEF IndexInv, CountInv, Counting, Balanced
        <5>2. calls[sdi[t]] \in Nat  BY <2>0, <3>1
        <5> QED  BY <5>1, <5>2
      <4>4. /\ reg' = [reg EXCEPT ![t] = i] /\ pc' = [pc EXCEPT ![t] = "pick"]
        BY <2>7, <3>3 DEF Index, Goto
      <4> HIDE DEF i
      <4> QED  BY <2>5, <3>1, <4>2, <4>3, <4>4
    <3> QED  BY <3>2, <3>3
  <2>8. ASSUME NEW t \in Threads, Hash(t) PROVE IndexInv'
    <3>1. /\ sdi[t] \in LocationIds /\ UNCHANGED <<sdi, count, calls>>
          /\ pc[t] = "hash"
      BY <2>0, <2>8 DEF Hash, Serving, matchVars
    <3>2. CASE Goto(t, "spin") /\ UNCHANGED reg
      BY <2>0, <2>6, <3>1, <3>2 DEF Goto
    <3>3. CASE UNCHANGED <<pc, reg>>
      BY <2>6, <3>1, <3>3
    <3>4. CASE /\ Target(t).servers # 0 /\ reg' = [reg EXCEPT ![t] = 0]
               /\ Goto(t, "pick")
      <4>1. 0 \in 0 .. Target(t).servers - 1
        <5>1. Target(t).servers \in Nat \ {0}  BY <3>1, <3>4, LocationType DEF Target
        <5> QED  BY <5>1
      <4>2. /\ pc' = [pc EXCEPT ![t] = "pick"] /\ reg' = [reg EXCEPT ![t] = 0]
            /\ UNCHANGED <<sdi, count, calls>>
        BY <3>1, <3>4 DEF Goto
      <4>3. 0 \in Int /\ pc[t] # "store"  BY <3>1
      <4> DEFINE i == 0
      <4>4. Balanced(sdi[t]) => i \in 0 .. Target(t).servers - 1  BY <4>1
      <4>5. i \in Int /\ reg' = [reg EXCEPT ![t] = i]  BY <4>2
      <4> HIDE DEF i
      <4> QED  BY <2>5, <4>2, <4>3, <4>4, <4>5
    <3> QED  BY <2>8, <3>2, <3>3, <3>4 DEF Hash, Crash
  <2>9. ASSUME NEW t \in Threads, Pick(t) PROVE IndexInv'
    <3>1. /\ UNCHANGED <<sdi, count, calls>> /\ pc[t] = "pick"
          /\ reg' = [reg EXCEPT ![t] = 0]
          /\ \/ pc' = [pc EXCEPT ![t] = "connect"]
             \/ pc' = pc /\ ~InList(t)
      BY <2>9 DEF Pick, matchVars, Goto, Crash
    <3>2. \A s \in Threads \ {t} : reg'[s] = reg[s] /\ pc'[s] = pc[s]
      BY <2>0, <3>1
    <3>3. CountInv'
      BY <1>2, <2>0, <3>1, <3>2 DEF IndexInv, CountInv, Counting
    <3>4. ASSUME NEW s \in Threads, pc'[s] = "pick", Balanced(sdi[s])' PROVE InList(s)'
      <4>1. Balanced(sdi[s])  BY <3>1, <3>4 DEF Balanced
      <4>2. s # t \/ ~InList(t)  BY <2>0, <3>1, <3>4
      <4>3. pc[s] = "pick"  BY <2>0, <3>1, <3>2, <3>4
      <4>4. InList(s)  BY <1>2, <4>1, <4>3 DEF IndexInv, IndexInList
      <4> QED  BY <3>1, <3>2, <4>2, <4>4 DEF InList, Target
    <3> QED  BY <3>3, <3>4 DEF IndexInv, IndexInList
  <2> QED
    BY <1>2, <2>1, <2>2, <2>3, <2>4, <2>7, <2>8, <2>9
    DEF Next, ThreadStep, ClientStep, RoundRobin, Serve
<1>3. IndexInv => IndexInList  BY DEF IndexInv
<1> QED  BY <1>1, <1>2, <1>3, Typing, PTL DEF Spec

-----------------------------------------------------------------------------
(* The servers in turn.                                                    *)

\* On a proxy whose calls never overlapped there is at most one call at a time,
\* and the counter is the number of calls but for the one about to store it.
TurnInv ==
  \A l \in LocationIds \ overlap :
    /\ \A s, t \in InFlight(l) : s = t
    /\ Counting(l) =>
         /\ \A t \in InFlight(l) :
              pc[t] = "store" => count[l] = calls[l] - 1 /\ reg[t] = count[l]
         /\ (\A t \in InFlight(l) : pc[t] # "store") => count[l] = calls[l]

\* Steps outside round_robin, and its return, leave it alone.
LEMMA TurnKept ==
  ASSUME TurnInv, UNCHANGED <<count, calls, overlap>>,
         \A t \in Threads : pc'[t] \in {"store", "index"} =>
           pc'[t] = pc[t] /\ sdi'[t] = sdi[t] /\ reg'[t] = reg[t],
         \A t \in Threads : pc[t] = "store" => pc'[t] = "store" /\ sdi'[t] = sdi[t]
  PROVE  TurnInv'
<1> SUFFICES ASSUME NEW l \in LocationIds, l \notin overlap
             PROVE  /\ \A s, t \in InFlight(l)' : s = t
                    /\ Counting(l) =>
                         /\ \A t \in InFlight(l)' :
                              pc'[t] = "store" => count[l] = calls[l] - 1
                                                  /\ reg'[t] = count[l]
                         /\ (\A t \in InFlight(l)' : pc'[t] # "store")
                              => count[l] = calls[l]
  BY DEF TurnInv, Counting
<1>1. InFlight(l)' \subseteq InFlight(l)  BY DEF InFlight
<1>2. \A s, t \in InFlight(l)' : s = t  BY <1>1 DEF TurnInv
<1>3. ASSUME Counting(l), NEW t \in InFlight(l)', pc'[t] = "store"
      PROVE  count[l] = calls[l] - 1 /\ reg'[t] = count[l]
  <2>1. t \in InFlight(l) /\ pc[t] = "store" /\ reg'[t] = reg[t]
    BY <1>1, <1>3 DEF InFlight
  <2> QED  BY <1>3, <2>1 DEF TurnInv
<1>4. ASSUME Counting(l), \A t \in InFlight(l)' : pc'[t] # "store"
      PROVE  count[l] = calls[l]
  <2>1. ASSUME NEW t \in InFlight(l), pc[t] = "store" PROVE FALSE
    <3>1. t \in InFlight(l)' /\ pc'[t] = "store"  BY <2>1 DEF InFlight
    <3> QED  BY <1>4, <3>1
  <2> QED  BY <1>4, <2>1 DEF TurnInv
<1> QED  BY <1>2, <1>3, <1>4


\* A call of round_robin begins.
LEMMA TurnLoad ==
  ASSUME TypeOK, TurnInv, NEW t \in Threads, Load(t)
  PROVE  TurnInv'
<1>0. /\ pc \in [Threads -> Labels] /\ sdi[t] \in LocationIds /\ UNCHANGED <<sdi, count>>
      /\ pc[t] = "load" /\ pc' = [pc EXCEPT ![t] = "store"]
      /\ reg' = [reg EXCEPT ![t] = count[sdi[t]]]
      /\ calls' = [calls EXCEPT ![sdi[t]] = calls[sdi[t]] + 1]
      /\ overlap' = overlap \cup {l \in {sdi[t]} : InFlight(l) # {}}
      /\ calls \in [LocationIds -> Nat] /\ reg \in [Threads -> Int]
  BY DEF TypeOK, ControlOK, CountersOK, Load, Serving, Goto, matchVars
<1> SUFFICES ASSUME NEW l \in LocationIds, l \notin overlap'
             PROVE  /\ \A r, s \in InFlight(l)' : r = s
                    /\ Counting(l)' =>
                         /\ \A s \in InFlight(l)' :
                              pc'[s] = "store" => count'[l] = calls'[l] - 1
                                                  /\ reg'[s] = count'[l]
                         /\ (\A s \in InFlight(l)' : pc'[s] # "store")
                              => count'[l] = calls'[l]
  BY DEF TurnInv
<1>1. l \notin overlap  BY <1>0
<1>2. CASE l = sdi[t]
  <2>1. InFlight(l) = {}  BY <1>0, <1>2
  <2>2. InFlight(l)' = {t}
    <3>1. t \in InFlight(l)'  BY <1>0, <1>2 DEF InFlight
    <3>2. ASSUME NEW s \in InFlight(l)', s # t PROVE s \in InFlight(l)
      BY <1>0, <3>2 DEF InFlight
    <3> QED  BY <2>1, <3>1, <3>2
  <2>3. pc'[t] = "store" /\ reg'[t] = count[l] /\ count'[l] = count[l]
    BY <1>0, <1>2
  <2>4. ASSUME Counting(l)' PROVE count[l] = calls'[l] - 1
    <3>1. calls[l] \in Nat /\ calls'[l] = calls[l] + 1  BY <1>0, <1>2
    <3>2. Counting(l)
      <4>1. calls'[l] <= IntMax /\ Locations[l].strategy # "unset"
        BY <2>4 DEF Counting
      <4>2. calls[l] <= IntMax  BY <3>1, <4>1, RequestAssumption
      <4> QED  BY <4>1, <4>2 DEF Counting
    <3>3. count[l] = calls[l]  BY <1>1, <2>1, <3>2 DEF TurnInv
    <3> QED  BY <3>1, <3>3
  <2> QED  BY <2>2, <2>3, <2>4
<1>3. CASE l # sdi[t]
  <2>1. calls'[l] = calls[l] /\ count'[l] = count[l]  BY <1>0, <1>3
  <2>2. InFlight(l)' = InFlight(l)  BY <1>0, <1>3 DEF InFlight
  <2>3. \A s \in InFlight(l) : pc'[s] = pc[s] /\ reg'[s] = reg[s]
    BY <1>0, <1>3 DEF InFlight
  <2>4. Counting(l)' => Counting(l)  BY <2>1 DEF Counting
  <2>5. \A r, s \in InFlight(l) : r = s  BY <1>1 DEF TurnInv
  <2>6. Counting(l) =>
          /\ \A s \in InFlight(l) :
               pc[s] = "store" => count[l] = calls[l] - 1 /\ reg[s] = count[l]
          /\ (\A s \in InFlight(l) : pc[s] # "store") => count[l] = calls[l]
    BY <1>1 DEF TurnInv
  <2> QED  BY <2>1, <2>2, <2>3, <2>4, <2>5, <2>6
<1> QED  BY <1>2, <1>3

\* The incremented counter is stored.
LEMMA TurnStore ==
  ASSUME TypeOK, TurnInv, NEW t \in Threads, Store(t)
  PROVE  TurnInv'
<1>0. /\ pc \in [Threads -> Labels] /\ sdi[t] \in LocationIds
      /\ UNCHANGED <<sdi, reg, calls, overlap>>
      /\ pc[t] = "store" /\ pc' = [pc EXCEPT ![t] = "index"]
      /\ count' = [count EXCEPT ![sdi[t]] = CInc(reg[t])]
      /\ count \in [LocationIds -> Ints] /\ calls \in [LocationIds -> Nat]
  BY DEF TypeOK, ControlOK, CountersOK, Store, Serving, Goto, matchVars
<1> SUFFICES ASSUME NEW l \in LocationIds, l \notin overlap
             PROVE  /\ \A r, s \in InFlight(l)' : r = s
                    /\ Counting(l) =>
                         /\ \A s \in InFlight(l)' :
                              pc'[s] = "store" => count'[l] = calls[l] - 1
                                                  /\ reg[s] = count'[l]
                         /\ (\A s \in InFlight(l)' : pc'[s] # "store")
                              => count'[l] = calls[l]
  BY <1>0 DEF TurnInv, Counting
<1>1. InFlight(l)' = InFlight(l)  BY <1>0 DEF InFlight
<1>2. \A r, s \in InFlight(l) : r = s  BY DEF TurnInv
<1>3. CASE l = sdi[t]
  <2>1. t \in InFlight(l)  BY <1>0, <1>3 DEF InFlight
  <2>2. InFlight(l) = {t} /\ pc'[t] = "index"  BY <1>0, <1>2, <2>1
  <2>3. ASSUME Counting(l) PROVE count'[l] = calls[l]
    <3>1. count[l] = calls[l] - 1 /\ reg[t] = count[l]
      BY <1>0, <2>1, <2>3 DEF TurnInv
    <3>2. calls[l] \in Nat /\ calls[l] <= IntMax  BY <1>0, <2>3 DEF Counting
    <3>3. CInc(reg[t]) = calls[l]  BY <3>1, <3>2, RequestAssumption DEF CInc
    <3>4. count'[l] = CInc(reg[t])  BY <1>0, <1>3
    <3> QED  BY <3>3, <3>4
  <2> QED  BY <1>1, <1>2, <2>2, <2>3
<1>4. CASE l # sdi[t]
  <2>1. count'[l] = count[l] /\ \A s \in InFlight(l) : pc'[s] = pc[s]
    BY <1>0, <1>4 DEF InFlight
  <2>2. Counting(l) =>
          /\ \A s \in InFlight(l) :
               pc[s] = "store" => count[l] = calls[l] - 1 /\ reg[s] = count[l]
          /\ (\A s \in InFlight(l) : pc[s] # "store") => count[l] = calls[l]
    BY DEF TurnInv
  <2> QED  BY <1>1, <1>2, <2>1, <2>2
<1> QED  BY <1>3, <1>4

\* So every step keeps it.
LEMMA TurnStep ==
  ASSUME TypeOK, TurnInv, [Next]_vars
  PROVE  TurnInv'
<1>0. ControlOK /\ pc \in [Threads -> Labels] /\ reg \in [Threads -> Int]
  BY DEF TypeOK, ControlOK, CountersOK
<1>1. CASE UNCHANGED vars
  <2>1. UNCHANGED <<pc, sdi, reg, count, calls, overlap>>  BY <1>1 DEF vars
  <2> QED  BY <2>1, TurnKept
<1>2. ASSUME NEW t \in Threads,
             \/ Accept(t) \/ Leave(t) \/ Read(t) \/ Match(t) \/ Close(t)
             \/ ServeStatic(t) \/ SelectServer(t) \/ Connect(t)
             \/ \E b \in Bytes : Send(t, b)
      PROVE  TurnInv'
  <2>1. /\ UNCHANGED balanceVars
        /\ \A s \in Threads : pc[s] \in Balancing \/ pc'[s] \in Balancing
                              => pc'[s] = pc[s] /\ sdi'[s] = sdi[s]
    BY <1>0, <1>2, Elsewhere
  <2>2. UNCHANGED <<count, calls, overlap, reg>>  BY <2>1 DEF balanceVars
  <2>3. \A s \in Threads : pc'[s] \in {"store", "index"} =>
          pc'[s] = pc[s] /\ sdi'[s] = sdi[s] /\ reg'[s] = reg[s]
    BY <2>1, <2>2 DEF Balancing
  <2>4. \A s \in Threads : pc[s] = "store" => pc'[s] = "store" /\ sdi'[s] = sdi[s]
    BY <2>1 DEF Balancing
  <2> QED  BY <2>2, <2>3, <2>4, TurnKept
<1>3. ASSUME NEW t \in Threads, Index(t) \/ Hash(t) \/ Pick(t)
      PROVE  TurnInv'
  <2>1. /\ UNCHANGED <<count, calls, overlap, sdi>>
        /\ pc[t] \in {"index", "hash", "pick"}
        /\ \/ UNCHANGED pc
           \/ \E l \in {"spin", "pick", "connect"} : pc' = [pc EXCEPT ![t] = l]
        /\ \/ UNCHANGED reg
           \/ pc'[t] # "index" /\ \E n : reg' = [reg EXCEPT ![t] = n]
    <3>1. CASE Index(t)
      BY <1>0, <3>1 DEF Index, Crash, Goto, matchVars
    <3>2. CASE Hash(t)
      BY <1>0, <3>2 DEF Hash, Crash, Goto, matchVars
    <3>3. CASE Pick(t)
      BY <1>0, <3>3 DEF Pick, Crash, Goto, matchVars
    <3> QED  BY <1>3, <3>1, <3>2, <3>3
  <2>2. \A s \in Threads : pc'[s] \in {"store", "index"} =>
          pc'[s] = pc[s] /\ sdi'[s] = sdi[s] /\ reg'[s] = reg[s]
    BY <1>0, <2>1
  <2>3. \A s \in Threads : pc[s] = "store" => pc'[s] = "store" /\ sdi'[s] = sdi[s]
    BY <1>0, <2>1
  <2> QED  BY <2>1, <2>2, <2>3, TurnKept
<1> QED
  BY <1>1, <1>2, <1>3, TurnLoad, TurnStore
  DEF Next, ThreadStep, ClientStep, RoundRobin, Serve

\* Only the step that computes it hands an index to get_arraylist after
\* round_robin.
LEMMA IndexStep ==
  ASSUME TypeOK, [Next]_vars, NEW t \in Threads, pc[t] = "index", pc'[t] = "pick"
  PROVE  Index(t)
<1>0. ControlOK /\ pc \in [Threads -> Labels]  BY DEF TypeOK, ControlOK
<1>1. CASE UNCHANGED vars  BY <1>1 DEF vars
<1>2. ASSUME NEW s \in Threads,
             \/ Accept(s) \/ Leave(s) \/ Read(s) \/ Match(s) \/ Close(s)
             \/ ServeStatic(s) \/ SelectServer(s) \/ Connect(s)
             \/ \E b \in Bytes : Send(s, b)
      PROVE  FALSE
  BY <1>0, <1>2, Elsewhere DEF Balancing
<1>3. ASSUME NEW s \in Threads, Load(s) \/ Store(s) \/ Hash(s) \/ Pick(s)
      PROVE  FALSE
  BY <1>0, <1>3 DEF Load, Store, Hash, Pick, Crash, Goto
<1>4. ASSUME NEW s \in Threads, Index(s) PROVE s = t
  BY <1>0, <1>4 DEF Index, Crash, Goto
<1> QED
  BY <1>1, <1>2, <1>3, <1>4
  DEF Next, ThreadStep, ClientStep, RoundRobin, Serve

\* request_count takes the servers of a proxy in turn while no two calls of
\* round_robin on it overlap, whichever and however many threads make them, up
\* to INT_MAX calls.
THEOREM InTurn == Spec => ServersInTurn
<1>1. Init => TurnInv
  <2> SUFFICES ASSUME Init PROVE TurnInv  OBVIOUS
  <2>1. /\ \A l \in LocationIds : calls[l] = 0 /\ InFlight(l) = {}
        /\ \A l \in LocationIds : Locations[l].strategy # "unset" => count[l] = 0
    BY DEF Init, StartCounts, InFlight
  <2> QED  BY <2>1 DEF TurnInv, Counting
<1>2. TypeOK /\ TurnInv /\ [Next]_vars => TurnInv'  BY TurnStep
<1>3. ASSUME TypeOK, TurnInv, [Next]_vars, NEW t \in Threads,
             pc[t] = "index", pc'[t] = "pick", Balanced(sdi[t]), sdi[t] \notin overlap
      PROVE  reg'[t] = calls[sdi[t]] % Target(t).servers
  <2>1. Index(t)  BY <1>3, IndexStep
  <2>2. sdi[t] \in LocationIds /\ reg \in [Threads -> Int] /\ calls \in [LocationIds -> Nat]
    BY <1>3 DEF TypeOK, ControlOK, CountersOK, Serving
  <2>3. t \in InFlight(sdi[t]) /\ Counting(sdi[t])
    BY <1>3 DEF InFlight, Counting, Balanced
  <2>4. count[sdi[t]] = calls[sdi[t]]
    <3>1. \A s \in InFlight(sdi[t]) : s = t  BY <1>3, <2>2, <2>3 DEF TurnInv
    <3>2. \A s \in InFlight(sdi[t]) : pc[s] # "store"  BY <1>3, <3>1
    <3> QED  BY <1>3, <2>2, <2>3, <3>2 DEF TurnInv
  <2>5. reg'[t] = CRem(count[sdi[t]], Target(t).servers)
    <3>1. pc' # pc  BY <1>3
    <3> QED  BY <2>1, <2>2, <3>1 DEF Index, Crash
  <2>6. calls[sdi[t]] >= 0  BY <2>2
  <2> QED  BY <2>4, <2>5, <2>6 DEF CRem
<1>4. TypeOK /\ TurnInv /\ [Next]_vars
        => [\A t \in Threads :
              pc[t] = "index" /\ pc'[t] = "pick" /\ Balanced(sdi[t])
                /\ sdi[t] \notin overlap
                => reg'[t] = calls[sdi[t]] % Target(t).servers]_vars
  BY <1>3
<1> QED  BY <1>1, <1>2, <1>4, Typing, PTL DEF Spec, ServersInTurn

-----------------------------------------------------------------------------
(* Which location serves a request.                                        *)

\* The location of a thread matches, and there is no better one.
Best(t) ==
  /\ Meant(sdi[t], uri[t]) \/ Overreaches(sdi[t], uri[t])
  /\ \A l \in LocationIds : Meant(l, uri[t]) =>
       /\ Locations[l].matchType \notin Stronger(Target(t).matchType)
       /\ Locations[l].matchType = Target(t).matchType => l >= sdi[t]

\* No location of the kinds that were tried so far matches, and none at all.
NoneSoFar(t) ==
  \A l \in LocationIds :
    Locations[l].matchType \in Stronger(kind[t])
      => ~Matches(Locations[l].matchType, Locations[l].pattern, uri[t])

Unmatched(t) ==
  \A l \in LocationIds : ~Matches(Locations[l].matchType, Locations[l].pattern, uri[t])

\* The inductive invariant: the kinds behind the one being tried have no match,
\* and a thread that goes on without a location has been through all of them.
AnswerInv(t) ==
  /\ pc[t] \in {"accept", "request", "match"} => found[t] = FALSE
  /\ \/ pc[t] \in {"accept", "request"}
     \/ pc[t] = "match" /\ kind[t] # "no more"
     => answer[t] = <<>>
  /\ pc[t] = "match" /\ map = "LMS" =>
       IF kind[t] = "no more" THEN Unmatched(t) ELSE NoneSoFar(t)
  /\ Serving(t) /\ found[t] => Best(t)
  /\ map = "LMS" /\ ~found[t] /\ (Serving(t) \/ answer[t] # <<>>) => Unmatched(t)

\* Every thread has an address and an answer.
FramesOK == uri \in [Threads -> Seq(STRING)] /\ DOMAIN answer = Threads

\* An address that means a location matches it, and one that matches a location
\* means it, unless the location overreaches.
LEMMA MeantMatches ==
  ASSUME NEW l \in LocationIds, NEW u \in Seq(STRING), Meant(l, u)
  PROVE  Matches(Locations[l].matchType, Locations[l].pattern, u)
<1> DEFINE p == Locations[l].pattern
<1>1. p \in Seq(STRING) /\ p # <<>> /\ Locations[l].matchType \in MatchTypes
  BY LocationType
<1>2. Means(Locations[l].matchType, p, u)  BY DEF Meant
<1> HIDE DEF p
<1>3. ASSUME OccursAt(p, u, 0) PROVE StartsAlike(p, u)
  <2>1. Len(p) \in Nat \ {0} /\ Len(u) \in Nat  BY <1>1
  <2>2. 1 \in 1 .. Len(p) /\ 0 + Len(p) <= Len(u)  BY <1>3, <2>1 DEF OccursAt
  <2>3. u[0 + 1] = p[1]  BY <1>3, <2>2 DEF OccursAt
  <2> QED  BY <2>1, <2>2, <2>3 DEF StartsAlike
<1>4. Matches(Locations[l].matchType, p, u)
  BY <1>1, <1>2, <1>3 DEF Means, Matches, MatchTypes
<1> QED  BY <1>4 DEF p

LEMMA MatchesMeant ==
  ASSUME NEW l \in LocationIds, NEW u \in Seq(STRING),
         Matches(Locations[l].matchType, Locations[l].pattern, u)
  PROVE  Meant(l, u) \/ Overreaches(l, u)
BY LocationType DEF Meant, Means, Matches, Overreaches, MatchTypes

\* A thread whose request does not change.
LEMMA SameRequest ==
  ASSUME NEW t \in Threads, AnswerInv(t), map' = map, pc'[t] = pc[t],
         uri'[t] = uri[t], kind'[t] = kind[t], found'[t] = found[t],
         sdi'[t] = sdi[t], answer'[t] = answer[t]
  PROVE  AnswerInv(t)'
BY DEF AnswerInv, NoneSoFar, Unmatched, Best, Serving, Target

\* A thread that serves goes on with the same target.
LEMMA SameTarget ==
  ASSUME ControlOK, NEW s \in Threads, Serving(s), \A t \in Threads : AnswerInv(t),
         UNCHANGED <<map, matchVars, answer>>,
         \/ UNCHANGED pc
         \/ \E l \in {"load", "store", "index", "hash", "spin", "pick", "connect",
                      "headers", "close"} : Goto(s, l)
  PROVE  \A t \in Threads : AnswerInv(t)'
<1> SUFFICES ASSUME NEW t \in Threads PROVE AnswerInv(t)'  OBVIOUS
<1>0. UNCHANGED <<uri, kind, found, sdi, answer, map>>  BY DEF matchVars
<1>1. CASE pc'[t] = pc[t]  BY <1>0, <1>1, SameRequest
<1>2. CASE pc'[t] # pc[t]
  <2>1. t = s /\ pc'[t] \in {"load", "store", "index", "hash", "spin", "pick", "connect",
                             "headers", "close"}
    BY <1>2 DEF Goto, ControlOK
  <2>2. AnswerInv(t) /\ Serving(t)  BY <2>1
  <2>3. found[t] => Best(t)'
    BY <1>0, <2>2 DEF AnswerInv, Best, Target
  <2>4. map = "LMS" /\ ~found[t] => Unmatched(t)'
    BY <1>0, <2>2 DEF AnswerInv, Unmatched
  <2> QED  BY <1>0, <2>1, <2>3, <2>4 DEF AnswerInv
<1> QED  BY <1>1, <1>2

\* The kinds before the next one to be tried are those before this one, and this.
LEMMA NextStronger ==
  ASSUME NEW k \in MatchTypes, NextKind(k) # "no more"
  PROVE  Stronger(NextKind(k)) = Stronger(k) \cup {k}
BY DEF MatchTypes, NextKind, Stronger

LEMMA LastKind ==
  ASSUME NEW k \in MatchTypes, NextKind(k) = "no more"
  PROVE  MatchTypes = Stronger(k) \cup {k}
BY DEF MatchTypes, NextKind, Stronger

\* A kind is tried.
LEMMA MatchKindAnswer ==
  ASSUME ControlOK, FramesOK, NEW s \in Threads, MatchKind(s), \A t \in Threads : AnswerInv(t)
  PROVE  \A t \in Threads : AnswerInv(t)'
<1> SUFFICES ASSUME NEW t \in Threads PROVE AnswerInv(t)'  OBVIOUS
<1>0. UNCHANGED <<map, uri, answer>>  BY DEF MatchKind
<1>1. CASE t # s
  <2>1. /\ pc'[t] = pc[t] /\ kind'[t] = kind[t]
        /\ found'[t] = found[t] /\ sdi'[t] = sdi[t]
    BY <1>1 DEF MatchKind, Goto, ControlOK
  <2> QED  BY <1>0, <2>1, SameRequest
<1>2. CASE t = s
  <2>0. /\ pc[t] = "match" /\ kind[t] \in MatchTypes /\ found[t] = FALSE
        /\ answer[t] = <<>> /\ (map = "LMS" => NoneSoFar(t))
    BY <1>2 DEF MatchKind, ControlOK, AnswerInv
  <2>1. CASE map = "LMS" /\ Hits(kind[t], uri[t]) # {}
    <3>1. PICK l \in Hits(kind[t], uri[t]) : /\ \A m \in Hits(kind[t], uri[t]) : l <= m
                                             /\ sdi' = [sdi EXCEPT ![t] = l]
      BY <1>2, <2>1 DEF MatchKind
    <3>2. /\ found' = [found EXCEPT ![t] = TRUE] /\ pc' = [pc EXCEPT ![t] = "serve"]
          /\ kind' = kind
      BY <1>2, <2>1 DEF MatchKind, Goto
    <3>3. sdi'[t] = l /\ found'[t] = TRUE /\ pc'[t] = "serve"
      BY <3>1, <3>2 DEF ControlOK
    <3>4. /\ l \in LocationIds /\ Locations[l].matchType = kind[t]
          /\ Matches(kind[t], Locations[l].pattern, uri[t])
      BY <3>1 DEF Hits
    <3>5. ASSUME NEW m \in LocationIds, Meant(m, uri[t])
          PROVE  /\ Locations[m].matchType \notin Stronger(kind[t])
                 /\ Locations[m].matchType = kind[t] => m >= l
      <4>0. Matches(Locations[m].matchType, Locations[m].pattern, uri[t])
        BY <3>5, MeantMatches DEF FramesOK
      <4>1. Locations[m].matchType \notin Stronger(kind[t])
        BY <2>0, <2>1, <4>0 DEF NoneSoFar
      <4>2. ASSUME Locations[m].matchType = kind[t] PROVE m >= l
        <5>1. m \in Hits(kind[t], uri[t])  BY <4>0, <4>2 DEF Hits
        <5>2. l \in Nat /\ m \in Nat  BY <3>4, RequestAssumption DEF LocationIds
        <5> QED  BY <3>1, <5>1, <5>2
      <4> QED  BY <4>1, <4>2
    <3>6. Meant(l, uri[t]) \/ Overreaches(l, uri[t])
      BY <3>4, MatchesMeant DEF FramesOK
    <3>7. uri'[t] = uri[t] /\ Target(t)' = Locations[l]
      BY <1>0, <3>3 DEF Target
    <3>8. Best(t)'  BY <3>3, <3>4, <3>5, <3>6, <3>7 DEF Best
    <3> QED  BY <1>0, <2>0, <3>3, <3>8 DEF AnswerInv
  <2>2. CASE ~(map = "LMS" /\ Hits(kind[t], uri[t]) # {})
    <3>1. kind' = [kind EXCEPT ![t] = NextKind(@)] /\ UNCHANGED <<sdi, found, pc>>
      BY <1>2, <2>2 DEF MatchKind
    <3>2. kind'[t] = NextKind(kind[t])  BY <3>1 DEF ControlOK
    <3>3. ASSUME map = "LMS", NextKind(kind[t]) # "no more" PROVE NoneSoFar(t)'
      <4>1. Stronger(kind'[t]) = Stronger(kind[t]) \cup {kind[t]}
        BY <2>0, <3>2, <3>3, NextStronger
      <4>2. \A l \in LocationIds :
              Locations[l].matchType = kind[t]
                => ~Matches(Locations[l].matchType, Locations[l].pattern, uri[t])
        BY <2>2, <3>3 DEF Hits
      <4> QED  BY <1>0, <2>0, <3>3, <4>1, <4>2 DEF NoneSoFar
    <3>4. ASSUME map = "LMS", NextKind(kind[t]) = "no more" PROVE Unmatched(t)'
      <4>1. MatchTypes = Stronger(kind[t]) \cup {kind[t]}
        BY <2>0, <3>4, LastKind
      <4>2. \A l \in LocationIds :
              Locations[l].matchType = kind[t]
                => ~Matches(Locations[l].matchType, Locations[l].pattern, uri[t])
        BY <2>2, <3>4 DEF Hits
      <4>3. \A l \in LocationIds : Locations[l].matchType \in MatchTypes
        BY LocationType
      <4> QED  BY <1>0, <2>0, <3>4, <4>1, <4>2, <4>3 DEF NoneSoFar, Unmatched
    <3> QED  BY <1>0, <2>0, <3>1, <3>2, <3>3, <3>4 DEF AnswerInv, Serving
  <2> QED  BY <2>1, <2>2
<1> QED  BY <1>1, <1>2

\* A line is read: of a request, which is about to be matched, or of its headers.
LEMMA LineReadAnswer ==
  ASSUME ControlOK, FramesOK, NEW s \in Threads, NEW l, Reading(s), LineRead(s, l),
         UNCHANGED <<map, sdi, answer>>, \A t \in Threads : AnswerInv(t)
  PROVE  \A t \in Threads : AnswerInv(t)'
<1> SUFFICES ASSUME NEW t \in Threads PROVE AnswerInv(t)'  OBVIOUS
<1>1. CASE pc[s] = "request"
  <2>1. PICK u \in Uris : /\ uri' = [uri EXCEPT ![s] = u]
                          /\ kind' = [kind EXCEPT ![s] = "EXACT"]
                          /\ found' = [found EXCEPT ![s] = FALSE]
                          /\ pc' = [pc EXCEPT ![s] = "match"]
    BY <1>1 DEF LineRead, Goto
  <2>2. CASE t # s
    <3>1. /\ pc'[t] = pc[t] /\ kind'[t] = kind[t] /\ found'[t] = found[t]
          /\ uri'[t] = uri[t]
      BY <2>1, <2>2 DEF ControlOK, FramesOK
    <3> QED  BY <3>1, SameRequest
  <2>3. CASE t = s
    <3>1. pc'[t] = "match" /\ kind'[t] = "EXACT" /\ found'[t] = FALSE
      BY <2>1, <2>3 DEF ControlOK
    <3>2. answer[t] = <<>>  BY <1>1, <2>3 DEF AnswerInv
    <3>3. NoneSoFar(t)'  BY <3>1 DEF NoneSoFar, Stronger
    <3> QED  BY <3>1, <3>2, <3>3 DEF AnswerInv, Serving
  <2> QED  BY <2>2, <2>3
<1>2. CASE pc[s] = "headers"
  <2>1. UNCHANGED <<uri, kind, found>> /\ (pc' = pc \/ Goto(s, "close"))
    BY <1>2 DEF LineRead, Return
  <2>2. Serving(s) /\ UNCHANGED matchVars  BY <1>2, <2>1 DEF Serving, matchVars
  <2> QED  BY <2>1, <2>2, SameTarget
<1> QED  BY <1>1, <1>2 DEF Reading

\* Every step of a thread or a client keeps it.
LEMMA StepAnswer ==
  ASSUME ControlOK, FramesOK, [Next]_vars, \A t \in Threads : AnswerInv(t)
  PROVE  FramesOK' /\ \A t \in Threads : AnswerInv(t)'
<1>1. FramesOK'
  <2>1. \/ UNCHANGED uri
        \/ \E s \in Threads, u \in Uris \cup {<<>>} : uri' = [uri EXCEPT ![s] = u]
    BY DEF Next, vars, ThreadStep, ClientStep, Read, Match, Serve, RoundRobin,
       Accept, Close, Send, Leave, Refill, ReadByte, EndOfStream, LineRead, MatchKind,
       MatchList, NotFound, ServeStatic, SelectServer, Load, Store, Index, Hash, Pick,
       Connect, matchVars
  <2>2. UNCHANGED answer \/ DOMAIN answer' = Threads
    BY DEF FramesOK, Next, vars, ThreadStep, ClientStep, Read, Match, Serve, RoundRobin,
       Accept, Close, Send, Leave, Refill, ReadByte, EndOfStream, MatchKind,
       MatchList, NotFound, ServeStatic, SelectServer, Load, Store, Index, Hash, Pick,
       Connect
  <2>3. <<>> \in Seq(STRING) /\ Uris \subseteq Seq(STRING)
    <3>1. <<>> \in Seq(STRING)  OBVIOUS
    <3> QED  BY <3>1, RequestAssumption
  <2>4. uri' \in [Threads -> Seq(STRING)]  BY <2>1, <2>3 DEF FramesOK
  <2> QED  BY <2>2, <2>4 DEF FramesOK
<1>2. ASSUME UNCHANGED vars PROVE \A t \in Threads : AnswerInv(t)'
  <2>1. UNCHANGED <<map, pc, uri, kind, found, sdi, answer>>
    BY <1>2 DEF vars
  <2> QED  BY <2>1, SameRequest
<1>3. ASSUME NEW s \in Threads, Accept(s) PROVE \A t \in Threads : AnswerInv(t)'
  <2> SUFFICES ASSUME NEW t \in Threads PROVE AnswerInv(t)'  OBVIOUS
  <2>0. UNCHANGED <<map, uri, kind, found, sdi, answer>>  BY <1>3 DEF Accept, matchVars
  <2>1. CASE t # s
    <3>1. pc'[t] = pc[t]  BY <1>3, <2>1 DEF Accept, Goto, ControlOK
    <3> QED  BY <2>0, <3>1, SameRequest
  <2>2. CASE t = s
    <3>1. pc[t] = "accept" /\ pc'[t] = "request"
      BY <1>3, <2>2 DEF Accept, Goto, ControlOK
    <3> QED  BY <2>0, <3>1 DEF AnswerInv, Serving
  <2> QED  BY <2>1, <2>2
<1>4. ASSUME NEW s \in Threads, Leave(s) \/ Refill(s) \/ MatchList(s)
                                \/ \E b \in Bytes : Send(s, b)
      PROVE  \A t \in Threads : AnswerInv(t)'
  <2>1. UNCHANGED <<map, pc, uri, kind, found, sdi, answer>>
    BY <1>4 DEF Leave, Refill, MatchList, Send, Crash, matchVars
  <2> QED  BY <2>1, SameRequest
<1>5. ASSUME NEW s \in Threads, ReadByte(s) PROVE \A t \in Threads : AnswerInv(t)'
  <2>1. Reading(s) /\ UNCHANGED <<map, sdi, answer>>  BY <1>5 DEF ReadByte
  <2>2. \/ \E l : LineRead(s, l)
        \/ UNCHANGED <<pc, uri, kind, found>>
    BY <1>5 DEF ReadByte
  <2> QED  BY <2>1, <2>2, LineReadAnswer, SameRequest
<1>6. ASSUME NEW s \in Threads, EndOfStream(s) PROVE \A t \in Threads : AnswerInv(t)'
  <2>1. Reading(s) /\ UNCHANGED <<map, sdi, answer>>  BY <1>6 DEF EndOfStream
  <2>2. \/ LineRead(s, line[s])
        \/ pc[s] = "request" /\ Goto(s, "close") /\ UNCHANGED <<uri, kind, found>>
    BY <1>6 DEF EndOfStream, Return
  <2>3. CASE LineRead(s, line[s])  BY <2>1, <2>3, LineReadAnswer
  <2>4. ASSUME pc[s] = "request", Goto(s, "close"), UNCHANGED <<uri, kind, found>>,
               NEW t \in Threads
        PROVE  AnswerInv(t)'
    <3>1. CASE t # s
      <4>1. pc'[t] = pc[t]  BY <2>4, <3>1 DEF Goto, ControlOK
      <4> QED  BY <2>1, <2>4, <4>1, SameRequest
    <3>2. CASE t = s
      <4>1. pc'[t] = "close"  BY <2>4, <3>2 DEF Goto, ControlOK
      <4> QED  BY <2>1, <2>4, <3>2, <4>1 DEF AnswerInv, Serving
    <3> QED  BY <3>1, <3>2
  <2> QED  BY <2>2, <2>3, <2>4
<1>7. ASSUME NEW s \in Threads, NotFound(s), NEW t \in Threads PROVE AnswerInv(t)'
  <2>0. pc[s] = "match" /\ UNCHANGED <<map, uri, kind, found, sdi>>
        /\ (UNCHANGED pc \/ Goto(s, "serve") \/ Goto(s, "close"))
        /\ \E a : answer' = [answer EXCEPT ![s] = a]
    BY <1>7 DEF NotFound, Return, Crash, matchVars
  <2>1. CASE t # s
    <3>1. pc'[t] = pc[t] /\ answer'[t] = answer[t]
      BY <2>0, <2>1 DEF Goto, ControlOK, FramesOK
    <3> QED  BY <2>0, <3>1, SameRequest
  <2>2. CASE t = s /\ pc' # pc
    <3>1. found[t] = FALSE /\ pc'[t] \in {"serve", "close"}
      BY <2>0, <2>2 DEF Goto, ControlOK, AnswerInv
    <3>2. map = "LMS" => Unmatched(t)'
      BY <1>7, <2>0, <2>2 DEF NotFound, AnswerInv, Unmatched
    <3> QED  BY <2>0, <3>1, <3>2 DEF AnswerInv
  <2>3. CASE t = s /\ pc' = pc
    <3>1. map = "LMS" => Unmatched(t)'
      BY <1>7, <2>0, <2>3 DEF NotFound, AnswerInv, Unmatched
    <3> QED  BY <1>7, <2>0, <2>3, <3>1 DEF NotFound, AnswerInv, Serving
  <2> QED  BY <2>1, <2>2, <2>3
<1>8. ASSUME NEW s \in Threads, ServeStatic(s), NEW t \in Threads PROVE AnswerInv(t)'
  <2>0. PICK a \in {ErrorPage} \cup FileAnswers :
             answer' = [answer EXCEPT ![s] = @ \o a]
    BY <1>8 DEF ServeStatic
  <2>1. pc[s] = "serve" /\ Goto(s, "close") /\ UNCHANGED <<map, uri, kind, found, sdi>>
    BY <1>8 DEF ServeStatic, Return, matchVars
  <2>2. CASE t # s
    <3>1. pc'[t] = pc[t] /\ answer'[t] = answer[t]
      BY <2>0, <2>1, <2>2 DEF Goto, ControlOK, FramesOK
    <3> QED  BY <2>1, <3>1, SameRequest
  <2>3. CASE t = s
    <3>1. pc'[t] = "close" /\ found'[t] = found[t]
      BY <2>1, <2>3 DEF Goto, ControlOK
    <3>2. map = "LMS" /\ ~found[t] => Unmatched(t)'
      BY <2>1, <2>3 DEF AnswerInv, Serving, Unmatched
    <3> QED  BY <2>1, <3>1, <3>2 DEF AnswerInv, Serving
  <2> QED  BY <2>2, <2>3
<1>9. ASSUME NEW s \in Threads,
             SelectServer(s) \/ RoundRobin(s) \/ Hash(s) \/ Pick(s) \/ Connect(s)
      PROVE  \A t \in Threads : AnswerInv(t)'
  <2>1. Serving(s) /\ UNCHANGED <<map, matchVars, answer>>
    BY <1>9 DEF SelectServer, RoundRobin, Load, Store, Index, Hash, Pick, Connect, Serving
  <2>2. \/ UNCHANGED pc
        \/ \E l \in {"load", "store", "index", "hash", "spin", "pick", "connect",
                     "headers", "close"} : Goto(s, l)
    <3>1. CASE SelectServer(s)  BY <3>1, Selected
    <3>2. CASE RoundRobin(s) \/ Hash(s) \/ Pick(s) \/ Connect(s)
      BY <3>2 DEF RoundRobin, Load, Store, Index, Hash, Pick, Connect, Crash
    <3> QED  BY <1>9, <3>1, <3>2
  <2> QED  BY <2>1, <2>2, SameTarget
<1>10. ASSUME NEW s \in Threads, Close(s), NEW t \in Threads PROVE AnswerInv(t)'
  <2>0. /\ uri' = [uri EXCEPT ![s] = <<>>] /\ kind' = [kind EXCEPT ![s] = "EXACT"]
        /\ found' = [found EXCEPT ![s] = FALSE] /\ answer' = [answer EXCEPT ![s] = <<>>]
        /\ pc' = [pc EXCEPT ![s] = "accept"] /\ UNCHANGED <<map, sdi>>
    BY <1>10 DEF Close, Goto
  <2>1. CASE t # s
    <3>1. /\ pc'[t] = pc[t] /\ uri'[t] = uri[t] /\ kind'[t] = kind[t]
          /\ found'[t] = found[t] /\ answer'[t] = answer[t]
      BY <2>0, <2>1 DEF ControlOK, FramesOK
    <3> QED  BY <2>0, <3>1, SameRequest
  <2>2. CASE t = s
    <3>1. pc'[t] = "accept" /\ found'[t] = FALSE /\ answer'[t] = <<>>
      BY <2>0, <2>2 DEF ControlOK, FramesOK
    <3> QED  BY <3>1 DEF AnswerInv, Serving
  <2> QED  BY <2>1, <2>2
<1>11. ASSUME NEW s \in Threads, MatchKind(s) PROVE \A t \in Threads : AnswerInv(t)'
  BY <1>11, MatchKindAnswer
<1> QED
  BY <1>1, <1>2, <1>3, <1>4, <1>5, <1>6, <1>7, <1>8, <1>9, <1>10, <1>11
     DEF Next, ThreadStep, ClientStep, Read, Match, Serve

\* What the invariant says of the answers and their locations, in every state.
THEOREM Answering == Spec => [](FramesOK /\ \A t \in Threads : AnswerInv(t))
<1>1. Init => FramesOK /\ \A t \in Threads : AnswerInv(t)
  BY DEF Init, FramesOK, AnswerInv, Serving
<1>2. TypeOK /\ (FramesOK /\ \A t \in Threads : AnswerInv(t)) /\ [Next]_vars
        => (FramesOK /\ \A t \in Threads : AnswerInv(t))'
  BY StepAnswer DEF TypeOK
<1> QED  BY <1>1, <1>2, Typing, PTL DEF Spec

\* match_proxy picks the location with the strongest kind that matches, and of
\* that kind the first, whatever the other threads do in between.
THEOREM ServedByTheBest == Spec => []BestLocation
<1>1. FramesOK /\ (\A t \in Threads : AnswerInv(t)) => BestLocation
  <2> SUFFICES ASSUME FramesOK, NEW t \in Threads, AnswerInv(t)
               PROVE  /\ Serving(t) /\ found[t] => Best(t)
                      /\ map = "LMS" /\ ~found[t] /\ answer[t] # <<>> =>
                           \A l \in LocationIds : ~Meant(l, uri[t])
    BY DEF Best, BestLocation
  <2>1. Unmatched(t) => \A l \in LocationIds : ~Meant(l, uri[t])
    BY MeantMatches DEF Unmatched, FramesOK
  <2> QED  BY <2>1 DEF AnswerInv
<1> QED  BY <1>1, Answering, PTL
=============================================================================
