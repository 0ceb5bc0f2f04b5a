--------------------------- MODULE SdkProxyProofs ---------------------------
(***************************************************************************)
(* What the proxy guarantees for any number of requests and of message     *)
(* numbers, provided that a number is free again by the time it is the     *)
(* oldest (Timely), and that the SDK has no interface query open while     *)
(* Blaze asks its own (SdkQueries = {}).  Neither is idle: without the     *)
(* second, Blaze takes any answer to an interface query for its own        *)
(* (read_proxy.rs:34).                                                     *)
(*                                                                         *)
(* As long as no answer has been lost, both sides get their own and the    *)
(* transforms are exact.  A lost answer leaves its transform behind, and   *)
(* the next packet with its number, whoever's it is, then goes to the SDK  *)
(* under the wrong one.  What is left is a bound on the transforms, and    *)
(* that Blaze still reads its own answers only.                            *)
(***************************************************************************)
EXTENDS SdkProxy, SequenceTheorems, FiniteSetTheorems, TLAPS

(* A queue whose elements are all where the queue is, one for each request. *)
Lodged(q, a, place) == \A i \in 1 .. Len(q) : q[i].txn \in Txn /\ a[q[i].txn] = place
Once(q) == \A i, j \in 1 .. Len(q) : q[i].txn = q[j].txn => i = j

\* The packet carries the number registered for its request.
Stamped(p, n) == IF p.txn = Query THEN p.num = 0 ELSE p.num = n[p.txn]
AllStamped(q, n) == \A i \in 1 .. Len(q) : Stamped(q[i], n)

(* The parts of the inductive invariant.                                    *)

\* Each kind of request takes its own way.
SdkPlaces   == {"idle", "sdkSend", "proxy", "toWrite", "line", "toRead", "cur", "sdkReceive"}
BlazePlaces == {"idle", "prepared", "regular", "toWrite", "line", "toRead", "cur", "regularRead"}
QueryOpen   == {"asked", "regular", "toWrite", "line", "toRead"}
QueryPlaces == QueryOpen \cup {"idle", "regularRead", "done"}

\* Where a request may get when an answer was taken for another's.
Stray == IF lost = 0 THEN {} ELSE {"sdkReceive", "misread"}

WayInv ==
  /\ \A t \in SdkTxn : at[t] \in SdkPlaces \cup Stray
  /\ \A b \in BlazeTxn : at[b] \in BlazePlaces \cup Stray
  /\ at[Query] \in QueryPlaces

\* The interface query is announced from before it is sent until it is answered, and for
\* ever if the answer is lost.
QueryInv ==
  /\ at[Query] \in QueryOpen => tokens > 0
  /\ lost = 0 => tokens = IF at[Query] \in QueryOpen THEN 1 ELSE 0

\* Two requests under way never have the same number.
NumberInv ==
  \A u, v \in Owned :
    at[u] \in UnderWay /\ at[v] \in UnderWay /\ id[u] = id[v] => u = v

SdkSendInv ==
  /\ Lodged(sdkSend, at, "sdkSend") /\ Once(sdkSend)
  /\ \A i \in 1 .. Len(sdkSend) :
       sdkSend[i].txn \in SdkTxn /\ sdkSend[i] = SdkPacket(sdkSend[i].txn)

RegularInv == Lodged(regular, at, "regular") /\ Once(regular) /\ AllStamped(regular, id)

ProxyInv ==
  /\ wp.pc = "idle" => wp = Idle
  /\ wp.pc # "idle" =>
       /\ wp.pkt \in Packet /\ wp.pkt.txn \in SdkTxn
       /\ at[wp.pkt.txn] = "proxy"
       /\ wp.pkt.num = id[wp.pkt.txn]
       /\ wp.old = SdkNum[wp.pkt.txn]
  /\ \A t \in SdkTxn : at[t] = "proxy" => wp.pc # "idle" /\ wp.pkt.txn = t

ToWriteInv == Lodged(toWrite, at, "toWrite") /\ Once(toWrite) /\ AllStamped(toWrite, id)

LineInv == \A p \in line : p.txn \in Txn /\ at[p.txn] = "line" /\ Stamped(p, id)

ToReadInv ==
  /\ \A i \in 1 .. Len(toRead) :
       \/ toRead[i] = LeftPacket
       \/ toRead[i].txn \in Txn /\ at[toRead[i].txn] = "toRead" /\ Stamped(toRead[i], id)
  /\ \A i, j \in 1 .. Len(toRead) :
       toRead[i].txn = toRead[j].txn => i = j \/ toRead[i].txn = Leftover

\* What was left over comes first and is over before a lookup happens.
FirstInv ==
  /\ first = None => toRead # << >> /\ toRead[1] = LeftPacket /\ ~ second
  /\ first # None => first = LeftPacket
  /\ second => \A i \in 1 .. Len(toRead) : toRead[i].txn # Leftover
  /\ cur # None => second
  /\ \A i, j \in 1 .. Len(toRead) : i < j /\ toRead[j].txn = Leftover => toRead[i].txn = Leftover

CurInv == cur # None => cur.txn \in Owned /\ at[cur.txn] = "cur" /\ cur.num = id[cur.txn]

\* What the SDK is about to read: left over, or one answer for a request, which is its own
\* if none has been lost.
SdkReceiveInv ==
  /\ \A i \in 1 .. Len(sdkReceive) :
       \/ sdkReceive[i] = LeftPacket
       \/ /\ sdkReceive[i].txn \in Owned /\ at[sdkReceive[i].txn] = "sdkReceive"
          /\ lost = 0 => /\ sdkReceive[i].txn \in SdkTxn
                         /\ sdkReceive[i] = SdkPacket(sdkReceive[i].txn)
  /\ \A i, j \in 1 .. Len(sdkReceive) :
       sdkReceive[i].txn = sdkReceive[j].txn => i = j \/ sdkReceive[i].txn = Leftover

RegularReadInv ==
  /\ Lodged(regularRead, at, "regularRead") /\ Once(regularRead)
  /\ AllStamped(regularRead, id)
  /\ \A i \in 1 .. Len(regularRead) : regularRead[i].txn \notin SdkTxn

Watched(t) == \E i \in 1 .. Len(watch) : watch[i].new = id[t]

\* Every match is the right one if nothing has been lost; in any case there is one for each
\* request of the SDK that waits, and one more at most for each loss.
WatchInv ==
  /\ lost = 0 => WatchedExactly
  /\ \A t \in SdkTxn : Awaited(t) => Watched(t)
  /\ IsFiniteSet(SdkTxn) => LeakBounded

IInv ==
  /\ TypeOK
  /\ WayInv /\ QueryInv /\ NumberInv
  /\ SdkSendInv /\ RegularInv /\ ProxyInv /\ ToWriteInv /\ LineInv
  /\ ToReadInv /\ FirstInv /\ CurInv
  /\ SdkReceiveInv /\ RegularReadInv
  /\ WatchInv


-----------------------------------------------------------------------------
(* Removing one element from a sequence.                                    *)

LEMMA RemoveAtProperties ==
  ASSUME NEW S, NEW s \in Seq(S), NEW i \in 1 .. Len(s)
  PROVE  /\ RemoveAt(s, i) \in Seq(S)
         /\ Len(RemoveAt(s, i)) = Len(s) - 1
         /\ \A j \in 1 .. Len(s) - 1 :
              RemoveAt(s, i)[j] = IF j < i THEN s[j] ELSE s[j + 1]
<1> DEFINE l == SubSeq(s, 1, i - 1)  r == SubSeq(s, i + 1, Len(s))
<1>0. Len(s) \in Nat /\ \A j \in 1 .. Len(s) : s[j] \in S BY LenProperties, ElementOfSeq
<1>1. l \in Seq(S) /\ Len(l) = i - 1 /\ \A j \in 1 .. i - 1 : l[j] = s[j]
  BY <1>0, SubSeqProperties
<1>2. r \in Seq(S) /\ Len(r) = Len(s) - i /\ \A j \in 1 .. Len(s) - i : r[j] = s[i + j]
  BY <1>0, SubSeqProperties
<1> HIDE DEF l, r
<1>3. RemoveAt(s, i) = l \o r BY DEF RemoveAt, l, r
<1>4. /\ l \o r \in Seq(S)
      /\ Len(l \o r) = Len(l) + Len(r)
      /\ \A j \in 1 .. Len(l) + Len(r) :
           (l \o r)[j] = IF j <= Len(l) THEN l[j] ELSE r[j - Len(l)]
  BY <1>1, <1>2, ConcatProperties
<1>5. Len(l) + Len(r) = Len(s) - 1 BY <1>0, <1>1, <1>2
<1>6. ASSUME NEW j \in 1 .. Len(s) - 1
      PROVE  (l \o r)[j] = IF j < i THEN s[j] ELSE s[j + 1]
  <2>1. CASE j < i BY <1>0, <1>1, <1>2, <1>4, <1>5, <2>1
  <2>2. CASE ~ (j < i)
    <3>1. (l \o r)[j] = r[j - (i - 1)] BY <1>0, <1>1, <1>4, <1>5, <2>2
    <3>2. j - (i - 1) \in 1 .. Len(s) - i BY <1>0, <2>2
    <3>3. r[j - (i - 1)] = s[i + (j - (i - 1))] BY <1>2, <3>2
    <3>4. i + (j - (i - 1)) = j + 1 BY <1>0
    <3> QED BY <2>2, <3>1, <3>3, <3>4
  <2> QED BY <2>1, <2>2
<1> QED BY <1>3, <1>4, <1>5, <1>6

-----------------------------------------------------------------------------
(* Type correctness.                                                        *)

LEMMA TouchType ==
  ASSUME order \in Seq(Ids), Len(order) = NumIds, Touch
  PROVE  order' \in Seq(Ids) /\ Len(order') = NumIds /\ Oldest \in Ids
<1> NumIds \in Nat \ {0} BY ProxyAssumption
<1>1. Oldest \in Ids BY DEF Oldest
<1>2. Tail(order) \in Seq(Ids) /\ Len(Tail(order)) = NumIds - 1 BY DEF Oldest
<1> QED BY <1>1, <1>2 DEF Touch

LEMMA RegisterType ==
  ASSUME TypeOK, NEW u, Register(u)
  PROVE  order' \in Seq(Ids) /\ Len(order') = NumIds /\ Oldest \in Ids /\ id' \in [Owned -> Ids]
BY TouchType DEF TypeOK, Register

LEMMA CloseType ==
  ASSUME TypeOK, NEW u, NEW place \in Places, Close(u, place)
  PROVE  at' \in [Txn -> Places] /\ id' \in [Owned -> Ids]
<1> 0 \in Ids BY ProxyAssumption DEF Ids
<1> QED BY DEF TypeOK, Close

LEMMA TypeInit == Init => TypeOK
<1> SUFFICES ASSUME Init PROVE TypeOK OBVIOUS
<1> USE ProxyAssumption, NoneAssumption
<1>1. order \in Seq(Ids) /\ Len(order) = NumIds BY DEF Init, Ids
<1>2. toRead \in Seq(Packet) BY DEF Init, Packet, LeftPacket
<1>3. at \in [Txn -> Places] BY DEF Init, Places
<1>4. id \in [Owned -> Ids] BY DEF Init, Ids
<1>5. lost \in 0 .. MaxLost BY DEF Init
<1>6. wp \in [pc : {"idle", "rewritten", "pushed"}, pkt : Packet \cup {None}, old : Nat]
  BY DEF Init, Idle
<1>7. wp.pc = "idle" BY DEF Init, Idle
<1>8. /\ sdkSend \in Seq(Packet) /\ regular \in Seq(Packet) /\ toWrite \in Seq(Packet)
      /\ sdkReceive \in Seq(Packet) /\ regularRead \in Seq(Packet)
      /\ watch \in Seq(Transform)
  BY DEF Init
<1>9. line \in SUBSET Packet /\ tokens \in Nat BY DEF Init
<1>10. first \in Packet \cup {None} /\ second \in BOOLEAN /\ cur \in Packet \cup {None}
  BY DEF Init
<1> QED BY <1>1, <1>2, <1>3, <1>4, <1>5, <1>6, <1>7, <1>8, <1>9, <1>10 DEF TypeOK

LEMMA AtType ==
  ASSUME TypeOK, NEW u, NEW place \in Places
  PROVE  [at EXCEPT ![u] = place] \in [Txn -> Places]
BY DEF TypeOK

LEMMA AllPlaces ==
  /\ "prepared" \in Places /\ "regular" \in Places /\ "proxy" \in Places
  /\ "toWrite" \in Places /\ "line" \in Places /\ "toRead" \in Places
  /\ "cur" \in Places /\ "idle" \in Places /\ "asked" \in Places
  /\ "sdkSend" \in Places /\ "sdkReceive" \in Places /\ "regularRead" \in Places
  /\ "misread" \in Places /\ "done" \in Places
BY DEF Places, UnderWay

LEMMA ToSdkType ==
  ASSUME TypeOK, NEW p \in Packet, ToSdk(p)
  PROVE  sdkReceive' \in Seq(Packet) /\ regularRead' \in Seq(Packet) /\ at' \in [Txn -> Places]
<1>1. sdkReceive' \in Seq(Packet) /\ regularRead' \in Seq(Packet) BY DEF TypeOK, ToSdk
<1>2. at' \in [Txn -> Places] BY AtType, AllPlaces DEF TypeOK, ToSdk
<1> QED BY <1>1, <1>2

LEMMA ToBlazeType ==
  ASSUME TypeOK, NEW p \in Packet, ToBlaze(p)
  PROVE  sdkReceive' \in Seq(Packet) /\ regularRead' \in Seq(Packet) /\ at' \in [Txn -> Places]
<1>1. sdkReceive' \in Seq(Packet) /\ regularRead' \in Seq(Packet) BY DEF TypeOK, ToBlaze
<1>2. at' \in [Txn -> Places] BY AtType, AllPlaces DEF TypeOK, ToBlaze
<1> QED BY <1>1, <1>2

LEMMA TypeNext == TypeOK /\ [Next]_vars => TypeOK'
<1> SUFFICES ASSUME TypeOK, [Next]_vars PROVE TypeOK' OBVIOUS
<1> USE ProxyAssumption, NoneAssumption
<1>0. 0 \in Ids BY DEF Ids
<1>1. ASSUME NEW t \in SdkTxn, SdkWrite(t) PROVE TypeOK'
  <2>1. PICK p \in Packet : p = SdkPacket(t) BY DEF SdkPacket, Packet, Txn, Owned
  <2>2. Append(sdkSend, p) \in Seq(Packet) /\ Append(sdkReceive, p) \in Seq(Packet)
    BY DEF TypeOK
  <2>3. sdkSend \in Seq(Packet) /\ sdkReceive \in Seq(Packet) BY DEF TypeOK
  <2>4. sdkSend' \in Seq(Packet) /\ sdkReceive' \in Seq(Packet)
    BY ONLY <1>1, <2>1, <2>2, <2>3, Zenon DEF SdkWrite
  <2>2a. at' \in [Txn -> Places] BY <1>1, AtType, AllPlaces DEF SdkWrite
  <2> QED BY <1>1, <2>2a, <2>4 DEF SdkWrite, TypeOK, readers
<1>2. CASE SdkRead
  <2>1. sdkReceive' \in Seq(Packet) BY <1>2 DEF SdkRead, TypeOK
  <2>2. at' \in [Txn -> Places] /\ id' \in [Owned -> Ids]
    BY <1>2, CloseType, AllPlaces DEF SdkRead
  <2> QED BY <1>2, <2>1, <2>2 DEF SdkRead, TypeOK, readers
<1>3. ASSUME NEW b \in BlazeTxn, BlazePrepare(b) PROVE TypeOK'
  <2>1. at' \in [Txn -> Places] BY <1>3, AtType, AllPlaces DEF BlazePrepare, TypeOK
  <2> QED BY <1>3, <2>1, RegisterType DEF BlazePrepare, TypeOK, readers
<1>4. ASSUME NEW b \in BlazeTxn, BlazeSend(b) PROVE TypeOK'
  <2>1. [num |-> id[b], txn |-> b] \in Packet
    BY <1>4 DEF TypeOK, Packet, Txn, Owned, Ids
  <2>2. regular' \in Seq(Packet)
    BY <1>4, <2>1 DEF BlazeSend, TypeOK
  <2>2a. at' \in [Txn -> Places] BY <1>4, AtType, AllPlaces DEF BlazeSend
  <2> QED BY <1>4, <2>2, <2>2a DEF BlazeSend, TypeOK, readers
<1>5. CASE AskQuery
  <2>1. tokens' \in Nat
    BY <1>5 DEF AskQuery, TypeOK
  <2>1a. at' \in [Txn -> Places] BY <1>5, AtType, AllPlaces DEF AskQuery
  <2> QED BY <1>5, <2>1, <2>1a DEF AskQuery, TypeOK, readers
<1>6. CASE SendQuery
  <2>1. [num |-> 0, txn |-> Query] \in Packet BY DEF Packet, Txn
  <2>2. regular' \in Seq(Packet)
    BY <1>6, <2>1 DEF SendQuery, TypeOK
  <2>2a. at' \in [Txn -> Places] BY <1>6, AtType, AllPlaces DEF SendQuery
  <2> QED BY <1>6, <2>2, <2>2a DEF SendQuery, TypeOK, readers
<1>7. CASE BlazeRead
  <2>1. regularRead' \in Seq(Packet) BY <1>7 DEF BlazeRead, TypeOK
  <2>2. at' \in [Txn -> Places] /\ id' \in [Owned -> Ids]
    BY <1>7, CloseType, AllPlaces DEF BlazeRead
  <2> QED BY <1>7, <2>1, <2>2 DEF BlazeRead, TypeOK, readers
<1>8. CASE WriteRegular
  <2>1. regular' \in Seq(Packet) /\ toWrite' \in Seq(Packet)
    BY <1>8 DEF WriteRegular, TypeOK
  <2>1a. at' \in [Txn -> Places] BY <1>8, AtType, AllPlaces DEF WriteRegular
  <2> QED BY <1>8, <2>1, <2>1a DEF WriteRegular, TypeOK, readers
<1>9. CASE WriteTake
  <2> DEFINE p == Head(sdkSend)
  <2>1. p \in Packet /\ sdkSend' \in Seq(Packet) BY <1>9 DEF WriteTake, TypeOK
  <2>2. Oldest \in Ids /\ order' \in Seq(Ids) /\ Len(order') = NumIds /\ id' \in [Owned -> Ids]
    BY <1>9, RegisterType DEF WriteTake
  <2>3. [p EXCEPT !.num = Oldest] \in Packet /\ p.num \in Nat
    <3>1. Oldest \in Nat BY <2>2 DEF Ids
    <3> QED BY <2>1, <3>1 DEF Packet
  <2>4. wp' \in [pc : {"idle", "rewritten", "pushed"}, pkt : Packet \cup {None}, old : Nat]
        /\ wp'.pkt # None
    BY <1>9, <2>3 DEF WriteTake
  <2>5. at' \in [Txn -> Places] BY <1>9, AtType, AllPlaces DEF WriteTake, TypeOK
  <2> QED BY <1>9, <2>1, <2>2, <2>4, <2>5 DEF WriteTake, TypeOK, readers
<1>10. CASE WritePush
  <2>1. wp.pkt \in Packet /\ wp.old \in Nat BY <1>10 DEF WritePush, TypeOK
  <2>2. [old |-> wp.old, new |-> wp.pkt.num, txn |-> wp.pkt.txn] \in Transform
    BY <2>1 DEF Packet, Transform
  <2>3. watch' \in Seq(Transform) BY <1>10, <2>2 DEF WritePush, TypeOK
  <2>4. wp' \in [pc : {"idle", "rewritten", "pushed"}, pkt : Packet \cup {None}, old : Nat]
        /\ wp'.pkt # None
    BY <1>10, <2>1 DEF WritePush, TypeOK
  <2> QED BY <1>10, <2>3, <2>4 DEF WritePush, TypeOK, clients, readers
<1>11. CASE WriteSend
  <2>1. wp.pkt \in Packet BY <1>11 DEF WriteSend, TypeOK
  <2>2. toWrite' \in Seq(Packet)
    BY <1>11, <2>1 DEF WriteSend, TypeOK
  <2>2a. at' \in [Txn -> Places] BY <1>11, AtType, AllPlaces DEF WriteSend
  <2>3. wp' \in [pc : {"idle", "rewritten", "pushed"}, pkt : Packet \cup {None}, old : Nat]
        /\ wp'.pc = "idle"
    BY <1>11 DEF WriteSend, Idle
  <2> QED BY <1>11, <2>2, <2>3, <2>2a DEF WriteSend, TypeOK, clients, readers
<1>12. CASE Transmit
  <2>1. line' \in SUBSET Packet /\ toWrite' \in Seq(Packet)
    BY <1>12 DEF Transmit, TypeOK
  <2>1a. at' \in [Txn -> Places] BY <1>12, AtType, AllPlaces DEF Transmit
  <2> QED BY <1>12, <2>1, <2>1a DEF Transmit, TypeOK, clients, readers
<1>13. ASSUME NEW u \in Txn, Answer(u) PROVE TypeOK'
  <2>1. line' \in SUBSET Packet /\ toRead' \in Seq(Packet)
    BY <1>13 DEF Answer, TypeOK
  <2>1a. at' \in [Txn -> Places] BY <1>13, AtType, AllPlaces DEF Answer
  <2> QED BY <1>13, <2>1, <2>1a DEF Answer, TypeOK, clients
<1>14. ASSUME NEW u \in Txn, Lose(u) PROVE TypeOK'
  <2>1. line' \in SUBSET Packet BY <1>14 DEF Lose, TypeOK
  <2>2. at' \in [Txn -> Places] /\ id' \in [Owned -> Ids] BY <1>14, CloseType, AllPlaces DEF Lose
  <2>3. lost' \in 0 .. MaxLost BY <1>14 DEF Lose, TypeOK
  <2> QED BY <1>14, <2>1, <2>2, <2>3 DEF Lose, TypeOK, clients, readers
<1>15. ASSUME NEW u \in Owned, GiveUp(u) PROVE TypeOK'
  <2>1. at' \in [Txn -> Places] /\ id' \in [Owned -> Ids] BY <1>15, CloseType, AllPlaces DEF GiveUp
  <2> QED BY <1>15, <2>1 DEF GiveUp, TypeOK, clients, readers
<1>16. CASE ReadPacket
  <2> DEFINE d == Head(toRead)
  <2>1. d \in Packet /\ toRead' \in Seq(Packet) BY <1>16 DEF ReadPacket, TypeOK
  <2> HIDE DEF d
  <2>2. CASE ReadQuery(d)
    <3>1. sdkReceive' \in Seq(Packet) /\ regularRead' \in Seq(Packet) /\ at' \in [Txn -> Places]
      BY <2>1, <2>2, ToBlazeType DEF ReadQuery
    <3>2. tokens' \in Nat BY <2>2 DEF ReadQuery, TypeOK
    <3> QED BY <1>16, <2>1, <2>2, <3>1, <3>2 DEF ReadPacket, ReadQuery, TypeOK
  <2>3. CASE ReadFirst(d)
    <3>1. sdkReceive' \in Seq(Packet) /\ regularRead' \in Seq(Packet) /\ at' \in [Txn -> Places]
      BY <2>1, <2>3, ToSdkType DEF ReadFirst
    <3>2. first' \in Packet \cup {None} BY <2>1, <2>3 DEF ReadFirst, TypeOK
    <3> QED BY <1>16, <2>1, <2>3, <3>1, <3>2 DEF ReadPacket, ReadFirst, TypeOK
  <2>4. CASE ReadOther(d)
    <3>1. at' \in [Txn -> Places] BY <2>4, AtType, AllPlaces DEF ReadOther, TypeOK
    <3> QED BY <1>16, <2>1, <2>4, <3>1 DEF ReadPacket, ReadOther, TypeOK
  <2> QED BY <1>16, <2>2, <2>3, <2>4 DEF ReadPacket, d
<1>17. CASE ReadLookup
  <2>1. cur \in Packet BY <1>17 DEF ReadLookup, TypeOK
  <2>2. CASE LookupNone
    <3>1. sdkReceive' \in Seq(Packet) /\ regularRead' \in Seq(Packet) /\ at' \in [Txn -> Places]
      BY <2>1, <2>2, ToBlazeType DEF LookupNone
    <3> QED BY <1>17, <2>2, <3>1 DEF ReadLookup, LookupNone, TypeOK
  <2>3. CASE LookupFound
    <3>1. PICK i \in 1 .. Len(watch) :
             watch' = RemoveAt(watch, i) /\ ToSdk([cur EXCEPT !.num = watch[i].old])
      BY <2>3 DEF LookupFound
    <3>2. watch[i] \in Transform BY DEF TypeOK
    <3>2a. watch[i].old \in Nat BY <3>2 DEF Transform
    <3>3. [cur EXCEPT !.num = watch[i].old] \in Packet BY <2>1, <3>2a DEF Packet
    <3>4. sdkReceive' \in Seq(Packet) /\ regularRead' \in Seq(Packet) /\ at' \in [Txn -> Places]
      BY <3>1, <3>3, ToSdkType
    <3>5. watch' \in Seq(Transform) BY <3>1, RemoveAtProperties DEF TypeOK
    <3> QED BY <1>17, <3>4, <3>5 DEF ReadLookup, TypeOK
  <2> QED BY <1>17, <2>2, <2>3 DEF ReadLookup
<1>18. CASE UNCHANGED vars BY <1>18 DEF vars, TypeOK
<1> QED
  BY <1>1, <1>2, <1>3, <1>4, <1>5, <1>6, <1>7, <1>8, <1>9, <1>10, <1>11, <1>12, <1>13, <1>14,
     <1>15, <1>16, <1>17, <1>18
  DEF Next, Sdk, Blaze, WriteProxy, ReadProxy, Line, Owned

\* Every step of every thread keeps the state well-formed, lost answers included.
THEOREM TypeCorrect == Spec => []TypeOK
<1> QED BY TypeInit, TypeNext, PTL DEF Spec

-----------------------------------------------------------------------------
(* The inductive invariant.  A step moves at most one request; what holds a *)
(* request that stays where it is, with its number, keeps its part.         *)

Keeps(place) ==
  \A v \in Txn : at[v] = place => at'[v] = place /\ (v \in Owned => id'[v] = id[v])

LEMMA KeepSdkSend ==
  ASSUME SdkSendInv, sdkSend' = sdkSend, Keeps("sdkSend")
  PROVE  SdkSendInv'
BY DEF SdkSendInv, Lodged, Once, Keeps, SdkPacket

LEMMA KeepRegular ==
  ASSUME RegularInv, regular' = regular, Keeps("regular")
  PROVE  RegularInv'
BY DEF RegularInv, Lodged, Once, AllStamped, Stamped, Keeps, Txn

LEMMA KeepToWrite ==
  ASSUME ToWriteInv, toWrite' = toWrite, Keeps("toWrite")
  PROVE  ToWriteInv'
BY DEF ToWriteInv, Lodged, Once, AllStamped, Stamped, Keeps, Txn

LEMMA KeepLine ==
  ASSUME LineInv, line' = line, Keeps("line")
  PROVE  LineInv'
BY DEF LineInv, Stamped, Keeps, Txn

LEMMA KeepToRead ==
  ASSUME ToReadInv, toRead' = toRead, Keeps("toRead")
  PROVE  ToReadInv'
BY DEF ToReadInv, Stamped, Keeps, Txn

LEMMA KeepFirst ==
  ASSUME FirstInv, UNCHANGED readers
  PROVE  FirstInv'
BY DEF FirstInv, readers

LEMMA KeepCur ==
  ASSUME CurInv, cur' = cur, Keeps("cur")
  PROVE  CurInv'
BY DEF CurInv, Keeps, Txn

LEMMA KeepSdkReceive ==
  ASSUME SdkReceiveInv, sdkReceive' = sdkReceive, lost' = lost, Keeps("sdkReceive")
  PROVE  SdkReceiveInv'
BY DEF SdkReceiveInv, Keeps, SdkPacket, Txn, Owned

LEMMA KeepRegularRead ==
  ASSUME RegularReadInv, regularRead' = regularRead, Keeps("regularRead")
  PROVE  RegularReadInv'
BY DEF RegularReadInv, Lodged, Once, AllStamped, Stamped, Keeps, Txn

LEMMA KeepProxy ==
  ASSUME ProxyInv, wp' = wp, Keeps("proxy"),
         \A t \in SdkTxn : at'[t] = "proxy" => at[t] = "proxy"
  PROVE  ProxyInv'
BY DEF ProxyInv, Keeps, Txn, Owned

LEMMA KeepNumber ==
  ASSUME NumberInv,
         \A v \in Owned : at'[v] \in UnderWay => at[v] \in UnderWay /\ id'[v] = id[v]
  PROVE  NumberInv'
BY DEF NumberInv

LEMMA KeepQuery ==
  ASSUME QueryInv, tokens' = tokens, lost' = lost,
         at'[Query] \in QueryOpen <=> at[Query] \in QueryOpen
  PROVE  QueryInv'
BY DEF QueryInv

\* The requests of the SDK that wait for an answer.
Open == {t \in SdkTxn : Awaited(t)}

LEMMA OpenFinite ==
  ASSUME IsFiniteSet(SdkTxn)
  PROVE  IsFiniteSet(Open) /\ Cardinality(Open) \in Nat
<1>1. IsFiniteSet(Open) BY FS_Subset DEF Open
<1> QED BY <1>1, FS_CardinalityType

LEMMA BoundIs == LeakBounded <=> Len(watch) <= Cardinality(Open) + lost
BY DEF LeakBounded, Open

LEMMA BoundIsNext == LeakBounded' <=> Len(watch') <= Cardinality(Open') + lost'
BY DEF LeakBounded, Open

LEMMA KeepWatch ==
  ASSUME TypeOK, WatchInv, watch' = watch, lost' = lost,
         \A t \in SdkTxn : Awaited(t)' <=> Awaited(t),
         \A t \in SdkTxn : Awaited(t) => id'[t] = id[t]
  PROVE  WatchInv'
<1>1. lost' = 0 => WatchedExactly' BY DEF WatchInv, WatchedExactly
<1>2. \A t \in SdkTxn : Awaited(t)' => Watched(t)' BY DEF WatchInv, Watched
<1>3. Open' = Open BY DEF Open
<1>4. LeakBounded => LeakBounded' BY <1>3, BoundIs, BoundIsNext
<1> QED BY <1>1, <1>2, <1>4 DEF WatchInv

LEMMA AppendPacket ==
  ASSUME NEW q \in Seq(Packet), NEW p \in Packet
  PROVE  /\ Append(q, p) \in Seq(Packet)
         /\ Len(Append(q, p)) = Len(q) + 1 /\ Len(q) \in Nat
         /\ \A i \in 1 .. Len(q) : Append(q, p)[i] = q[i]
         /\ Append(q, p)[Len(q) + 1] = p
OBVIOUS

\* A request joins a queue at its end, leaves another at its head.
LEMMA JoinQueue ==
  ASSUME NEW q \in Seq(Packet), NEW p \in Packet, NEW place,
         Lodged(q, at, place), Once(q), Keeps(place),
         p.txn \in Txn, at[p.txn] # place, at'[p.txn] = place
  PROVE  Lodged(Append(q, p), at', place) /\ Once(Append(q, p))
<1>1. /\ Len(Append(q, p)) = Len(q) + 1 /\ Len(q) \in Nat
      /\ \A i \in 1 .. Len(q) : Append(q, p)[i] = q[i]
      /\ Append(q, p)[Len(q) + 1] = p
  OBVIOUS
<1>2. \A i \in 1 .. Len(q) : at'[q[i].txn] = place /\ q[i].txn # p.txn
  BY DEF Lodged, Keeps
<1> QED BY <1>1, <1>2 DEF Lodged, Once

LEMMA LeaveQueue ==
  ASSUME NEW q \in Seq(Packet), q # << >>, NEW place,
         Lodged(q, at, place), Once(q),
         \A v \in Txn : v # Head(q).txn => at'[v] = at[v]
  PROVE  /\ Lodged(Tail(q), at', place) /\ Once(Tail(q))
         /\ Head(q) \in Packet /\ Head(q) = q[1] /\ 1 \in 1 .. Len(q)
         /\ Head(q).txn \in Txn /\ at[Head(q).txn] = place
         /\ Tail(q) \in Seq(Packet) /\ Len(Tail(q)) = Len(q) - 1
         /\ \A i \in 1 .. Len(Tail(q)) :
              Tail(q)[i] = q[i + 1] /\ i + 1 \in 1 .. Len(q) /\ q[i + 1].txn # Head(q).txn
<1>1. /\ Tail(q) \in Seq(Packet) /\ Len(Tail(q)) = Len(q) - 1 /\ Len(q) \in Nat \ {0}
      /\ Head(q) \in Packet /\ Head(q) = q[1]
      /\ \A i \in 1 .. Len(Tail(q)) : Tail(q)[i] = q[i + 1]
  OBVIOUS
<1>2. 1 \in 1 .. Len(q) /\ \A i \in 1 .. Len(Tail(q)) : i + 1 \in 1 .. Len(q) /\ i + 1 # 1
  BY <1>1
<1>3. \A i \in 1 .. Len(Tail(q)) : q[i + 1].txn # Head(q).txn
  BY <1>1, <1>2 DEF Once
<1>4. Lodged(Tail(q), at', place) BY <1>1, <1>2, <1>3 DEF Lodged
<1>5. Once(Tail(q)) BY <1>1, <1>2 DEF Once
<1> QED BY <1>1, <1>2, <1>3, <1>4, <1>5 DEF Lodged

LEMMA JoinStamped ==
  ASSUME NEW q \in Seq(Packet), NEW p \in Packet, NEW n, AllStamped(q, n), Stamped(p, n)
  PROVE  AllStamped(Append(q, p), n)
<1>1. \A i \in 1 .. Len(q) + 1 : Append(q, p)[i] = IF i = Len(q) + 1 THEN p ELSE q[i]
  BY AppendPacket
<1> QED BY <1>1, AppendPacket DEF AllStamped

LEMMA LeaveStamped ==
  ASSUME NEW q \in Seq(Packet), q # << >>, NEW n, AllStamped(q, n)
  PROVE  AllStamped(Tail(q), n) /\ Stamped(Head(q), n)
<1>1. /\ Len(Tail(q)) = Len(q) - 1 /\ Len(q) \in Nat \ {0}
      /\ Head(q) = q[1] /\ 1 \in 1 .. Len(q)
      /\ \A i \in 1 .. Len(Tail(q)) : Tail(q)[i] = q[i + 1]
  OBVIOUS
<1>2. \A i \in 1 .. Len(Tail(q)) : i + 1 \in 1 .. Len(q) BY <1>1
<1> QED BY <1>1, <1>2 DEF AllStamped

LEMMA InitInv == Init => IInv
<1> SUFFICES ASSUME Init PROVE IInv OBVIOUS
<1> USE ProxyAssumption, NoneAssumption
<1>1. TypeOK BY TypeInit
<1>2. WayInv BY DEF Init, WayInv, Stray, SdkPlaces, BlazePlaces, QueryPlaces, Txn, Owned
<1>3. QueryInv BY DEF Init, QueryInv, QueryOpen, Txn
<1>4. NumberInv BY DEF Init, NumberInv, UnderWay, Txn
<1>5. SdkSendInv /\ RegularInv /\ ToWriteInv
  BY DEF Init, SdkSendInv, RegularInv, ToWriteInv, Lodged, Once, AllStamped
<1>6. ProxyInv BY DEF Init, ProxyInv, Idle, Txn, Owned
<1>7. LineInv /\ CurInv BY DEF Init, LineInv, CurInv
<1>8. ToReadInv BY DEF Init, ToReadInv, LeftPacket
<1>9. FirstInv
  <2>1. Len(toRead) = Leftovers /\ Leftovers \in Nat \ {0} BY DEF Init
  <2>2. toRead # << >> /\ toRead[1] = LeftPacket
    <3>1. toRead[1] = LeftPacket BY <2>1 DEF Init
    <3>2. toRead # << >> BY <2>1
    <3> QED BY <3>1, <3>2
  <2>3. \A i \in 1 .. Len(toRead) : toRead[i].txn = Leftover BY <2>1 DEF Init, LeftPacket
  <2> QED BY <2>2, <2>3 DEF Init, FirstInv
<1>10. SdkReceiveInv BY DEF Init, SdkReceiveInv
<1>11. RegularReadInv BY DEF Init, RegularReadInv, Lodged, Once, AllStamped
<1>12. WatchInv
  <2>1. \A t \in SdkTxn : ~ Awaited(t) BY DEF Init, Awaited, WatchLocked, Idle, Txn, Owned
  <2>2. WatchedExactly BY <2>1 DEF Init, WatchedExactly
  <2>3. IsFiniteSet(SdkTxn) => LeakBounded
    <3> SUFFICES ASSUME IsFiniteSet(SdkTxn) PROVE LeakBounded OBVIOUS
    <3>1. Open = {} BY <2>1 DEF Open
    <3>2. Cardinality(Open) = 0 BY <3>1, FS_EmptySet
    <3> QED BY <3>2, BoundIs DEF Init
  <2> QED BY <2>1, <2>2, <2>3 DEF WatchInv
<1> QED BY <1>1, <1>2, <1>3, <1>4, <1>5, <1>6, <1>7, <1>8, <1>9, <1>10, <1>11, <1>12 DEF IInv
-----------------------------------------------------------------------------
(* One lemma per action: it preserves the invariant.                        *)

LEMMA Kinds ==
  /\ \A t \in SdkTxn : t \in Owned /\ t \in Txn /\ t \notin BlazeTxn /\ t # Query /\ t # Leftover
  /\ \A b \in BlazeTxn : b \in Owned /\ b \in Txn /\ b \notin SdkTxn /\ b # Query /\ b # Leftover
  /\ Query \in Txn /\ Query \notin Owned /\ Query # Leftover
  /\ Leftover \notin Txn
  /\ \A v \in Txn : v \in SdkTxn \/ v \in BlazeTxn \/ v = Query
  /\ \A v \in Owned : v \in Txn
BY ProxyAssumption DEF Owned, Txn

LEMMA LostType == IInv => lost \in Nat
BY ProxyAssumption DEF IInv, TypeOK

LEMMA SdkPackets ==
  \A t \in SdkTxn : SdkPacket(t) \in Packet /\ SdkPacket(t).txn = t
BY Kinds, ProxyAssumption DEF SdkPacket, Packet

LEMMA SdkWriteInv ==
  ASSUME IInv, TypeOK', NEW t \in SdkTxn, SdkWrite(t)
  PROVE  IInv'
<1> USE Kinds, SdkPackets
<1> lost' = lost BY DEF SdkWrite
<1> t \in Txn /\ at \in [Txn -> Places] BY DEF IInv, TypeOK
<1>1. /\ at[t] = "idle" /\ at'[t] \in {"sdkSend", "sdkReceive"}
      /\ \A v \in Txn : v # t => at'[v] = at[v]
      /\ id' = id /\ watch' = watch /\ wp' = wp
  BY DEF SdkWrite
<1>2. /\ Keeps("regular") /\ Keeps("proxy") /\ Keeps("toWrite") /\ Keeps("line")
      /\ Keeps("toRead") /\ Keeps("cur") /\ Keeps("regularRead")
      /\ Keeps("sdkSend") /\ Keeps("sdkReceive")
  BY <1>1 DEF Keeps
<1>3. RegularInv' /\ ToWriteInv' /\ LineInv' /\ ToReadInv' /\ FirstInv' /\ CurInv' /\ RegularReadInv'
  BY <1>2, KeepRegular, KeepToWrite, KeepLine, KeepToRead, KeepFirst, KeepCur, KeepRegularRead
  DEF IInv, SdkWrite, readers
<1>4. ProxyInv' BY <1>1, <1>2, KeepProxy DEF IInv
<1>5. WayInv' BY <1>1 DEF IInv, WayInv, Stray, SdkPlaces
<1>6. QueryInv' BY <1>1, KeepQuery DEF IInv, SdkWrite
<1>7. NumberInv' BY <1>1, KeepNumber DEF IInv, UnderWay
<1>8. WatchInv'
  <2>1. \A u \in SdkTxn : Awaited(u)' <=> Awaited(u) BY <1>1 DEF Awaited, WatchLocked
  <2> QED BY <1>1, <2>1, KeepWatch DEF IInv
<1>9. SdkSendInv' /\ SdkReceiveInv'
  <2>1. CASE /\ sdkSend' = Append(sdkSend, SdkPacket(t)) /\ at'[t] = "sdkSend"
             /\ sdkReceive' = sdkReceive
    <3>1. SdkReceiveInv' BY <2>1, <1>2, KeepSdkReceive DEF IInv
    <3>2. Lodged(sdkSend', at', "sdkSend") /\ Once(sdkSend')
      BY <1>1, <1>2, <2>1, JoinQueue DEF IInv, TypeOK, SdkSendInv
    <3>3. /\ Len(sdkSend') = Len(sdkSend) + 1 /\ Len(sdkSend) \in Nat
          /\ \A i \in 1 .. Len(sdkSend) : sdkSend'[i] = sdkSend[i]
          /\ sdkSend'[Len(sdkSend) + 1] = SdkPacket(t)
      BY <2>1, AppendPacket DEF IInv, TypeOK
    <3>4. \A i \in 1 .. Len(sdkSend') :
            sdkSend'[i].txn \in SdkTxn /\ sdkSend'[i] = SdkPacket(sdkSend'[i].txn)
      BY <3>3 DEF IInv, SdkSendInv
    <3> QED BY <3>1, <3>2, <3>4 DEF SdkSendInv, SdkPacket
  <2>2. CASE /\ sdkReceive' = Append(sdkReceive, SdkPacket(t)) /\ at'[t] = "sdkReceive"
             /\ sdkSend' = sdkSend
    <3>1. SdkSendInv' BY <2>2, <1>2, KeepSdkSend DEF IInv
    <3>2. /\ Len(sdkReceive') = Len(sdkReceive) + 1 /\ Len(sdkReceive) \in Nat
          /\ \A i \in 1 .. Len(sdkReceive) : sdkReceive'[i] = sdkReceive[i]
          /\ sdkReceive'[Len(sdkReceive) + 1] = SdkPacket(t)
      BY <2>2, AppendPacket DEF IInv, TypeOK
    <3>3. \A i \in 1 .. Len(sdkReceive) : sdkReceive[i].txn # t
      BY <1>1 DEF IInv, SdkReceiveInv, LeftPacket
    <3>4. \A i \in 1 .. Len(sdkReceive) :
            \/ sdkReceive[i] = LeftPacket
            \/ /\ sdkReceive[i].txn \in Owned /\ at'[sdkReceive[i].txn] = "sdkReceive"
               /\ lost = 0 => /\ sdkReceive[i].txn \in SdkTxn
                              /\ sdkReceive[i] = SdkPacket(sdkReceive[i].txn)
      BY <1>2 DEF IInv, SdkReceiveInv, Keeps
    <3> QED BY <2>2, <3>1, <3>2, <3>3, <3>4 DEF IInv, SdkReceiveInv, SdkPacket
  <2> QED BY <1>1, <2>1, <2>2 DEF SdkWrite
<1> QED BY <1>3, <1>4, <1>5, <1>6, <1>7, <1>8, <1>9 DEF IInv

LEMMA SdkReadInv ==
  ASSUME IInv, TypeOK', SdkRead
  PROVE  IInv'
<1> USE Kinds, SdkPackets
<1> lost' = lost BY DEF SdkRead
<1> DEFINE p == Head(sdkReceive)
<1>1. /\ p \in Packet /\ p = sdkReceive[1] /\ 1 \in 1 .. Len(sdkReceive)
      /\ sdkReceive' \in Seq(Packet) /\ Len(sdkReceive') = Len(sdkReceive) - 1
      /\ \A i \in 1 .. Len(sdkReceive') :
           sdkReceive'[i] = sdkReceive[i + 1] /\ i + 1 \in 1 .. Len(sdkReceive) /\ i + 1 # 1
  BY DEF SdkRead, IInv, TypeOK
<1>2. \/ p = LeftPacket
      \/ /\ p.txn \in Owned /\ at[p.txn] = "sdkReceive"
         /\ lost = 0 => p.txn \in SdkTxn /\ p = SdkPacket(p.txn)
  BY <1>1 DEF IInv, SdkReceiveInv
<1> HIDE DEF p
<1>3. /\ p = LeftPacket => \A v \in Txn : at'[v] = at[v]
      /\ p # LeftPacket => /\ p.txn \in Owned /\ at[p.txn] = "sdkReceive"
                           /\ at'[p.txn] \in {"idle", "misread"}
                           /\ lost = 0 => at'[p.txn] = "idle"
      /\ \A v \in Txn : v # p.txn => at'[v] = at[v]
      /\ \A v \in Owned : v # p.txn => id'[v] = id[v]
      /\ p = LeftPacket => \A v \in Owned : id'[v] = id[v]
  BY <1>2 DEF SdkRead, Close, p, LeftPacket
<1>4. /\ Keeps("sdkSend") /\ Keeps("regular") /\ Keeps("proxy") /\ Keeps("toWrite")
      /\ Keeps("line") /\ Keeps("toRead") /\ Keeps("cur") /\ Keeps("regularRead")
  BY <1>3 DEF Keeps
<1>5. /\ SdkSendInv' /\ RegularInv' /\ ToWriteInv' /\ LineInv' /\ ToReadInv' /\ FirstInv'
      /\ CurInv' /\ RegularReadInv'
  BY <1>4, KeepSdkSend, KeepRegular, KeepToWrite, KeepLine, KeepToRead, KeepFirst, KeepCur,
     KeepRegularRead
  DEF IInv, SdkRead, readers
<1>6. ProxyInv'
  <2>1. \A t \in SdkTxn : at'[t] = "proxy" => at[t] = "proxy" BY <1>3
  <2> QED BY <2>1, <1>4, KeepProxy DEF IInv, SdkRead
<1>7. WayInv' BY <1>3 DEF IInv, WayInv, Stray, SdkPlaces, BlazePlaces
<1>8. QueryInv' BY <1>3, KeepQuery DEF IInv, SdkRead
<1>9. NumberInv'
  <2>1. \A v \in Owned : at'[v] \in UnderWay => v # p.txn BY <1>3 DEF UnderWay, LeftPacket
  <2> QED BY <1>3, <2>1, KeepNumber DEF IInv
<1>10. WatchInv'
  <2>1. \A u \in SdkTxn : Awaited(u)' <=> Awaited(u)
    BY <1>3 DEF Awaited, WatchLocked, SdkRead
  <2>2. \A u \in SdkTxn : Awaited(u) => id'[u] = id[u] BY <1>3 DEF Awaited
  <2> QED BY <2>1, <2>2, KeepWatch DEF IInv, SdkRead
<1>11. SdkReceiveInv'
  <2>1. \A i \in 1 .. Len(sdkReceive') : sdkReceive'[i].txn = p.txn => p = LeftPacket
    BY <1>1, <1>2 DEF IInv, SdkReceiveInv, p
  <2>2. \A i \in 1 .. Len(sdkReceive') :
          \/ sdkReceive'[i] = LeftPacket
          \/ /\ sdkReceive'[i].txn \in Owned /\ at'[sdkReceive'[i].txn] = "sdkReceive"
             /\ lost = 0 => /\ sdkReceive'[i].txn \in SdkTxn
                            /\ sdkReceive'[i] = SdkPacket(sdkReceive'[i].txn)
    BY <1>1, <1>3, <2>1 DEF IInv, SdkReceiveInv, LeftPacket
  <2>3. \A i, j \in 1 .. Len(sdkReceive') :
          sdkReceive'[i].txn = sdkReceive'[j].txn => i = j \/ sdkReceive'[i].txn = Leftover
    <3> SUFFICES ASSUME NEW i \in 1 .. Len(sdkReceive'), NEW j \in 1 .. Len(sdkReceive'),
                        sdkReceive'[i].txn = sdkReceive'[j].txn,
                        sdkReceive'[i].txn # Leftover
                 PROVE  i = j
      OBVIOUS
    <3>1. i + 1 = j + 1 BY <1>1 DEF IInv, SdkReceiveInv
    <3> QED BY <3>1
  <2> QED BY <2>2, <2>3 DEF SdkReceiveInv, SdkPacket
<1> QED BY <1>5, <1>6, <1>7, <1>8, <1>9, <1>10, <1>11 DEF IInv

LEMMA BlazePrepareInv ==
  ASSUME IInv, TypeOK', Timely, NEW b \in BlazeTxn, BlazePrepare(b)
  PROVE  IInv'
<1> USE Kinds
<1> lost' = lost BY DEF BlazePrepare
<1> b \in Txn /\ b \in Owned /\ at \in [Txn -> Places] /\ id \in [Owned -> Ids]
  BY DEF IInv, TypeOK
<1>1. /\ at[b] = "idle" /\ at'[b] = "prepared"
      /\ \A v \in Txn : v # b => at'[v] = at[v]
      /\ id'[b] = Oldest /\ \A v \in Owned : v # b => id'[v] = id[v]
      /\ \A v \in Owned : at[v] \in UnderWay => id[v] # Oldest
  BY DEF BlazePrepare, Register, Window
<1>2. /\ Keeps("sdkSend") /\ Keeps("regular") /\ Keeps("proxy") /\ Keeps("toWrite")
      /\ Keeps("line") /\ Keeps("toRead") /\ Keeps("cur") /\ Keeps("regularRead")
      /\ Keeps("sdkReceive")
  BY <1>1 DEF Keeps
<1>3. /\ SdkSendInv' /\ RegularInv' /\ ToWriteInv' /\ LineInv' /\ ToReadInv' /\ FirstInv'
      /\ CurInv' /\ SdkReceiveInv' /\ RegularReadInv'
  BY <1>2, KeepSdkSend, KeepRegular, KeepToWrite, KeepLine, KeepToRead, KeepFirst, KeepCur,
     KeepSdkReceive, KeepRegularRead
  DEF IInv, BlazePrepare, readers
<1>4. ProxyInv' BY <1>1, <1>2, KeepProxy DEF IInv, BlazePrepare
<1>5. WayInv' BY <1>1 DEF IInv, WayInv, Stray, BlazePlaces
<1>6. QueryInv' BY <1>1, KeepQuery DEF IInv, BlazePrepare
<1>7. NumberInv' BY <1>1 DEF IInv, NumberInv, UnderWay
<1>8. WatchInv'
  <2>1. \A u \in SdkTxn : (Awaited(u)' <=> Awaited(u)) /\ id'[u] = id[u]
    BY <1>1 DEF Awaited, WatchLocked, BlazePrepare
  <2> QED BY <2>1, KeepWatch DEF IInv, BlazePrepare
<1> QED BY <1>3, <1>4, <1>5, <1>6, <1>7, <1>8 DEF IInv

LEMMA BlazeSendInv ==
  ASSUME IInv, TypeOK', NEW b \in BlazeTxn, BlazeSend(b)
  PROVE  IInv'
<1> USE Kinds
<1> lost' = lost BY DEF BlazeSend
<1> DEFINE p == [num |-> id[b], txn |-> b]
<1> b \in Txn /\ b \in Owned /\ at \in [Txn -> Places] /\ id \in [Owned -> Ids]
  BY DEF IInv, TypeOK
<1>1. /\ at[b] = "prepared" /\ at'[b] = "regular" /\ id' = id
      /\ \A v \in Txn : v # b => at'[v] = at[v]
  BY DEF BlazeSend
<1>2. /\ Keeps("sdkSend") /\ Keeps("regular") /\ Keeps("proxy") /\ Keeps("toWrite")
      /\ Keeps("line") /\ Keeps("toRead") /\ Keeps("cur") /\ Keeps("regularRead")
      /\ Keeps("sdkReceive")
  BY <1>1 DEF Keeps
<1>3. /\ SdkSendInv' /\ ToWriteInv' /\ LineInv' /\ ToReadInv' /\ FirstInv'
      /\ CurInv' /\ SdkReceiveInv' /\ RegularReadInv'
  BY <1>2, KeepSdkSend, KeepToWrite, KeepLine, KeepToRead, KeepFirst, KeepCur,
     KeepSdkReceive, KeepRegularRead
  DEF IInv, BlazeSend, readers
<1>4. ProxyInv' BY <1>1, <1>2, KeepProxy DEF IInv, BlazeSend
<1>5. WayInv' BY <1>1 DEF IInv, WayInv, Stray, BlazePlaces
<1>6. QueryInv' BY <1>1, KeepQuery DEF IInv, BlazeSend
<1>7. NumberInv' BY <1>1, KeepNumber DEF IInv, UnderWay
<1>8. WatchInv'
  <2>1. \A u \in SdkTxn : (Awaited(u)' <=> Awaited(u)) /\ id'[u] = id[u]
    BY <1>1 DEF Awaited, WatchLocked, BlazeSend
  <2> QED BY <2>1, KeepWatch DEF IInv, BlazeSend
<1>9. RegularInv'
  <2>1. p \in Packet /\ p.txn = b /\ p.num = id[b] BY DEF Packet, IInv, TypeOK, Ids
  <2> HIDE DEF p
  <2>2. regular' = Append(regular, p) BY DEF BlazeSend, p
  <2>3. Lodged(regular', at', "regular") /\ Once(regular')
    BY <1>1, <1>2, <2>1, <2>2, JoinQueue DEF IInv, TypeOK, RegularInv
  <2>4. AllStamped(regular', id')
    <3>1. Stamped(p, id) BY <2>1 DEF Stamped
    <3> QED BY <1>1, <2>1, <2>2, <3>1, JoinStamped DEF IInv, TypeOK, RegularInv
  <2> QED BY <2>3, <2>4 DEF RegularInv
<1> QED BY <1>3, <1>4, <1>5, <1>6, <1>7, <1>8, <1>9 DEF IInv

LEMMA AskQueryInv ==
  ASSUME IInv, TypeOK', AskQuery
  PROVE  IInv'
<1> USE Kinds
<1> lost' = lost BY DEF AskQuery
<1> at \in [Txn -> Places] BY DEF IInv, TypeOK
<1>1. /\ at[Query] = "idle" /\ at'[Query] = "asked" /\ id' = id
      /\ \A v \in Txn : v # Query => at'[v] = at[v]
  BY DEF AskQuery
<1>2. /\ Keeps("sdkSend") /\ Keeps("regular") /\ Keeps("proxy") /\ Keeps("toWrite")
      /\ Keeps("line") /\ Keeps("toRead") /\ Keeps("cur") /\ Keeps("regularRead")
      /\ Keeps("sdkReceive")
  BY <1>1 DEF Keeps
<1>3. /\ SdkSendInv' /\ RegularInv' /\ ToWriteInv' /\ LineInv' /\ ToReadInv' /\ FirstInv'
      /\ CurInv' /\ SdkReceiveInv' /\ RegularReadInv'
  BY <1>2, KeepSdkSend, KeepRegular, KeepToWrite, KeepLine, KeepToRead, KeepFirst, KeepCur,
     KeepSdkReceive, KeepRegularRead
  DEF IInv, AskQuery, readers
<1>4. ProxyInv' BY <1>1, <1>2, KeepProxy DEF IInv, AskQuery
<1>5. WayInv' BY <1>1 DEF IInv, WayInv, Stray, QueryPlaces, QueryOpen
<1>6. QueryInv' BY <1>1 DEF IInv, TypeOK, QueryInv, QueryOpen, AskQuery
<1>7. NumberInv' BY <1>1, KeepNumber DEF IInv
<1>8. WatchInv'
  <2>1. \A u \in SdkTxn : (Awaited(u)' <=> Awaited(u)) /\ id'[u] = id[u]
    BY <1>1 DEF Awaited, WatchLocked, AskQuery
  <2> QED BY <2>1, KeepWatch DEF IInv, AskQuery
<1> QED BY <1>3, <1>4, <1>5, <1>6, <1>7, <1>8 DEF IInv

LEMMA SendQueryInv ==
  ASSUME IInv, TypeOK', SendQuery
  PROVE  IInv'
<1> USE Kinds
<1> lost' = lost BY DEF SendQuery
<1> DEFINE p == [num |-> 0, txn |-> Query]
<1> at \in [Txn -> Places] BY DEF IInv, TypeOK
<1>1. /\ at[Query] = "asked" /\ at'[Query] = "regular" /\ id' = id
      /\ \A v \in Txn : v # Query => at'[v] = at[v]
  BY DEF SendQuery
<1>2. /\ Keeps("sdkSend") /\ Keeps("regular") /\ Keeps("proxy") /\ Keeps("toWrite")
      /\ Keeps("line") /\ Keeps("toRead") /\ Keeps("cur") /\ Keeps("regularRead")
      /\ Keeps("sdkReceive")
  BY <1>1 DEF Keeps
<1>3. /\ SdkSendInv' /\ ToWriteInv' /\ LineInv' /\ ToReadInv' /\ FirstInv'
      /\ CurInv' /\ SdkReceiveInv' /\ RegularReadInv'
  BY <1>2, KeepSdkSend, KeepToWrite, KeepLine, KeepToRead, KeepFirst, KeepCur,
     KeepSdkReceive, KeepRegularRead
  DEF IInv, SendQuery, readers
<1>4. ProxyInv' BY <1>1, <1>2, KeepProxy DEF IInv, SendQuery
<1>5. WayInv' BY <1>1 DEF IInv, WayInv, Stray, QueryPlaces, QueryOpen
<1>6. QueryInv' BY <1>1, KeepQuery DEF IInv, QueryOpen, SendQuery
<1>7. NumberInv' BY <1>1, KeepNumber DEF IInv
<1>8. WatchInv'
  <2>1. \A u \in SdkTxn : (Awaited(u)' <=> Awaited(u)) /\ id'[u] = id[u]
    BY <1>1 DEF Awaited, WatchLocked, SendQuery
  <2> QED BY <2>1, KeepWatch DEF IInv, SendQuery
<1>9. RegularInv'
  <2>1. p \in Packet /\ p.txn = Query /\ p.num = 0 BY DEF Packet
  <2> HIDE DEF p
  <2>2. regular' = Append(regular, p) BY DEF SendQuery, p
  <2>3. Lodged(regular', at', "regular") /\ Once(regular')
    BY <1>1, <1>2, <2>1, <2>2, JoinQueue DEF IInv, TypeOK, RegularInv
  <2>4. Stamped(p, id) BY <2>1 DEF Stamped
  <2>5. AllStamped(regular', id')
    BY <1>1, <2>1, <2>2, <2>4, JoinStamped DEF IInv, TypeOK, RegularInv
  <2> QED BY <2>3, <2>5 DEF RegularInv
<1> QED BY <1>3, <1>4, <1>5, <1>6, <1>7, <1>8, <1>9 DEF IInv

LEMMA BlazeReadInv ==
  ASSUME IInv, TypeOK', BlazeRead
  PROVE  IInv'
<1> USE Kinds
<1> lost' = lost BY DEF BlazeRead
<1> DEFINE p == Head(regularRead)
<1> at \in [Txn -> Places] /\ id \in [Owned -> Ids] BY DEF IInv, TypeOK
<1>1. /\ p = regularRead[1] /\ 1 \in 1 .. Len(regularRead) /\ p.txn \in Txn
      /\ p.txn \notin SdkTxn /\ at[p.txn] = "regularRead" /\ Stamped(p, id)
      /\ p.txn # Leftover
  BY DEF BlazeRead, IInv, TypeOK, RegularReadInv, Lodged, AllStamped
<1> HIDE DEF p
<1>2. /\ at'[p.txn] = IF p.txn = Query THEN "done" ELSE "idle"
      /\ \A v \in Txn : v # p.txn => at'[v] = at[v]
      /\ \A v \in Owned : v # p.txn => id'[v] = id[v]
  BY <1>1 DEF BlazeRead, Close, p, Stamped
<1>3. /\ Keeps("sdkSend") /\ Keeps("regular") /\ Keeps("proxy") /\ Keeps("toWrite")
      /\ Keeps("line") /\ Keeps("toRead") /\ Keeps("cur") /\ Keeps("sdkReceive")
  BY <1>1, <1>2 DEF Keeps
<1>4. /\ SdkSendInv' /\ RegularInv' /\ ToWriteInv' /\ LineInv' /\ ToReadInv' /\ FirstInv'
      /\ CurInv' /\ SdkReceiveInv'
  BY <1>3, KeepSdkSend, KeepRegular, KeepToWrite, KeepLine, KeepToRead, KeepFirst, KeepCur,
     KeepSdkReceive
  DEF IInv, BlazeRead, readers
<1>5. ProxyInv'
  <2>1. \A t \in SdkTxn : at'[t] = "proxy" => at[t] = "proxy" BY <1>1, <1>2
  <2> QED BY <2>1, <1>3, KeepProxy DEF IInv, BlazeRead
<1>6. WayInv' BY <1>1, <1>2 DEF IInv, WayInv, Stray, BlazePlaces, QueryPlaces
<1>7. QueryInv' BY <1>1, <1>2, KeepQuery DEF IInv, BlazeRead, QueryOpen
<1>8. NumberInv'
  <2>1. \A v \in Owned : at'[v] \in UnderWay => v # p.txn BY <1>2 DEF UnderWay
  <2> QED BY <1>2, <2>1, KeepNumber DEF IInv
<1>9. WatchInv'
  <2>1. \A u \in SdkTxn : (Awaited(u)' <=> Awaited(u)) /\ id'[u] = id[u]
    BY <1>1, <1>2 DEF Awaited, WatchLocked, BlazeRead
  <2> QED BY <2>1, KeepWatch DEF IInv, BlazeRead
<1>10. RegularReadInv'
  <2>1. /\ Lodged(regularRead', at', "regularRead") /\ Once(regularRead')
        /\ Len(regularRead') = Len(regularRead) - 1
        /\ \A i \in 1 .. Len(regularRead') :
             /\ regularRead'[i] = regularRead[i + 1] /\ i + 1 \in 1 .. Len(regularRead)
             /\ regularRead[i + 1].txn # p.txn
    BY <1>2, LeaveQueue DEF IInv, TypeOK, RegularReadInv, BlazeRead, p
  <2>2. AllStamped(regularRead', id')
    BY <1>2, <2>1 DEF IInv, RegularReadInv, AllStamped, Stamped, Lodged, Txn
  <2> QED BY <2>1, <2>2 DEF IInv, RegularReadInv
<1> QED BY <1>4, <1>5, <1>6, <1>7, <1>8, <1>9, <1>10 DEF IInv

LEMMA WriteRegularInv ==
  ASSUME IInv, TypeOK', WriteRegular
  PROVE  IInv'
<1> USE Kinds
<1> lost' = lost BY DEF WriteRegular
<1> DEFINE p == Head(regular)
<1> at \in [Txn -> Places] /\ regular \in Seq(Packet) /\ toWrite \in Seq(Packet)
  BY DEF IInv, TypeOK
<1>1. p \in Packet /\ p = regular[1] /\ 1 \in 1 .. Len(regular)
  BY DEF WriteRegular
<1>2. p.txn \in Txn /\ at[p.txn] = "regular" /\ Stamped(p, id)
  BY <1>1 DEF IInv, RegularInv, Lodged, AllStamped
<1> HIDE DEF p
<1>3. /\ at'[p.txn] = "toWrite" /\ id' = id
      /\ \A v \in Txn : v # p.txn => at'[v] = at[v]
      /\ toWrite' = Append(toWrite, p)
  BY <1>2 DEF WriteRegular, p
<1>4. /\ Keeps("sdkSend") /\ Keeps("proxy") /\ Keeps("toWrite")
      /\ Keeps("line") /\ Keeps("toRead") /\ Keeps("cur") /\ Keeps("sdkReceive")
      /\ Keeps("regularRead")
  BY <1>2, <1>3 DEF Keeps
<1>5. /\ SdkSendInv' /\ LineInv' /\ ToReadInv' /\ FirstInv'
      /\ CurInv' /\ SdkReceiveInv' /\ RegularReadInv'
  BY <1>4, KeepSdkSend, KeepLine, KeepToRead, KeepFirst, KeepCur,
     KeepSdkReceive, KeepRegularRead
  DEF IInv, WriteRegular, readers
<1>6. ProxyInv'
  <2>1. \A t \in SdkTxn : at'[t] = "proxy" => at[t] = "proxy" BY <1>2, <1>3
  <2> QED BY <2>1, <1>4, KeepProxy DEF IInv, WriteRegular
<1>7. p.txn \notin SdkTxn BY <1>2 DEF IInv, WayInv, SdkPlaces, Stray
<1>8. WayInv' BY <1>2, <1>3, <1>7 DEF IInv, WayInv, Stray, BlazePlaces, QueryPlaces, QueryOpen
<1>9. QueryInv' BY <1>2, <1>3, KeepQuery DEF IInv, WriteRegular, QueryOpen
<1>10. NumberInv'
  <2>1. \A v \in Owned : at'[v] \in UnderWay => at[v] \in UnderWay BY <1>2, <1>3 DEF UnderWay
  <2> QED BY <1>3, <2>1, KeepNumber DEF IInv
<1>11. WatchInv'
  <2>1. \A u \in SdkTxn : (Awaited(u)' <=> Awaited(u)) /\ id'[u] = id[u]
    BY <1>3, <1>7 DEF Awaited, WatchLocked, WriteRegular
  <2> QED BY <2>1, KeepWatch DEF IInv, WriteRegular
<1>12. RegularInv'
  <2>1. Lodged(regular', at', "regular") /\ Once(regular')
    BY <1>3, LeaveQueue DEF IInv, RegularInv, WriteRegular, p
  <2>2. AllStamped(regular', id')
    BY <1>3, LeaveStamped DEF IInv, RegularInv, WriteRegular
  <2> QED BY <2>1, <2>2 DEF RegularInv
<1>13. ToWriteInv'
  <2>1. Lodged(toWrite', at', "toWrite") /\ Once(toWrite')
    BY <1>1, <1>2, <1>3, <1>4, JoinQueue DEF IInv, ToWriteInv
  <2>2. AllStamped(toWrite', id')
    BY <1>1, <1>2, <1>3, JoinStamped DEF IInv, ToWriteInv
  <2> QED BY <2>1, <2>2 DEF ToWriteInv
<1> QED BY <1>5, <1>6, <1>8, <1>9, <1>10, <1>11, <1>12, <1>13 DEF IInv

LEMMA WriteTakeInv ==
  ASSUME IInv, TypeOK', Timely, WriteTake
  PROVE  IInv'
<1> USE Kinds, SdkPackets
<1> lost' = lost BY DEF WriteTake
<1> DEFINE p == Head(sdkSend)
<1> /\ at \in [Txn -> Places] /\ id \in [Owned -> Ids] /\ sdkSend \in Seq(Packet)
    /\ wp.pc = "idle" /\ sdkSend # << >>
  BY DEF IInv, TypeOK, WriteTake
<1>1. /\ p \in Packet /\ p.txn \in SdkTxn /\ p = SdkPacket(p.txn) /\ at[p.txn] = "sdkSend"
      /\ p = sdkSend[1] /\ 1 \in 1 .. Len(sdkSend)
  BY DEF IInv, SdkSendInv, Lodged
<1> HIDE DEF p
<1>2. /\ at'[p.txn] = "proxy" /\ \A v \in Txn : v # p.txn => at'[v] = at[v]
      /\ id'[p.txn] = Oldest /\ \A v \in Owned : v # p.txn => id'[v] = id[v]
      /\ \A v \in Owned : at[v] \in UnderWay => id[v] # Oldest
      /\ wp' = [pc |-> "rewritten", pkt |-> [p EXCEPT !.num = Oldest], old |-> p.num]
  BY <1>1 DEF WriteTake, Register, Window, p
<1>3. /\ Keeps("regular") /\ Keeps("toWrite") /\ Keeps("proxy")
      /\ Keeps("line") /\ Keeps("toRead") /\ Keeps("cur") /\ Keeps("sdkReceive")
      /\ Keeps("regularRead")
  BY <1>1, <1>2 DEF Keeps
<1>4. /\ RegularInv' /\ ToWriteInv' /\ LineInv' /\ ToReadInv' /\ FirstInv'
      /\ CurInv' /\ SdkReceiveInv' /\ RegularReadInv'
  BY <1>3, KeepRegular, KeepToWrite, KeepLine, KeepToRead, KeepFirst, KeepCur,
     KeepSdkReceive, KeepRegularRead
  DEF IInv, WriteTake, readers
<1>5. ProxyInv'
  <2>1. /\ wp'.pc = "rewritten" /\ wp'.old = p.num
        /\ wp'.pkt.txn = p.txn /\ wp'.pkt.num = Oldest
    BY <1>1, <1>2 DEF Packet
  <2>2. p.num = SdkNum[p.txn] BY <1>1 DEF SdkPacket
  <2>3. wp'.pkt \in Packet BY <2>1 DEF TypeOK
  <2>4. \A t \in SdkTxn : at[t] # "proxy" BY DEF IInv, ProxyInv
  <2> QED BY <1>1, <1>2, <2>1, <2>2, <2>3, <2>4 DEF ProxyInv
<1>6. WayInv' BY <1>1, <1>2 DEF IInv, WayInv, Stray, SdkPlaces
<1>7. QueryInv' BY <1>1, <1>2, KeepQuery DEF IInv, WriteTake
<1>8. NumberInv' BY <1>1, <1>2 DEF IInv, NumberInv, UnderWay
<1>9. WatchInv'
  <2>1. wp'.pc # "pushed" BY <1>2
  <2>2. \A u \in SdkTxn : Awaited(u)' <=> Awaited(u)
    BY <1>1, <1>2, <2>1 DEF Awaited, WatchLocked
  <2>3. \A u \in SdkTxn : Awaited(u) => id'[u] = id[u]
    BY <1>1, <1>2 DEF Awaited, WatchLocked
  <2> QED BY <2>2, <2>3, KeepWatch DEF IInv, WriteTake
<1>10. SdkSendInv'
  <2>1. /\ Lodged(sdkSend', at', "sdkSend") /\ Once(sdkSend')
        /\ Len(sdkSend') = Len(sdkSend) - 1
        /\ \A i \in 1 .. Len(sdkSend') :
             sdkSend'[i] = sdkSend[i + 1] /\ i + 1 \in 1 .. Len(sdkSend)
    BY <1>2, LeaveQueue DEF IInv, SdkSendInv, WriteTake, p
  <2> QED BY <2>1 DEF IInv, SdkSendInv, SdkPacket
<1> QED BY <1>4, <1>5, <1>6, <1>7, <1>8, <1>9, <1>10 DEF IInv

LEMMA WritePushInv ==
  ASSUME IInv, TypeOK', WritePush
  PROVE  IInv'
<1> USE Kinds
<1> lost' = lost BY DEF WritePush
<1> DEFINE e == [old |-> wp.old, new |-> wp.pkt.num, txn |-> wp.pkt.txn]
           u == wp.pkt.txn
<1>1. /\ u \in SdkTxn /\ at[u] = "proxy" /\ e.new = id[u] /\ e.old = SdkNum[u] /\ e.txn = u
      /\ wp.pkt \in Packet
      /\ \A t \in SdkTxn : at[t] = "proxy" => t = u
  BY DEF IInv, ProxyInv, WritePush
<1>2. at' = at /\ id' = id /\ wp.pc = "rewritten" /\ watch' = Append(watch, e)
  BY DEF WritePush
<1>3. wp'.pc = "pushed" /\ wp'.pkt = wp.pkt /\ wp'.old = wp.old
  BY DEF WritePush, IInv, TypeOK
<1> HIDE DEF e, u
<1>4. /\ Keeps("sdkSend") /\ Keeps("regular") /\ Keeps("toWrite")
      /\ Keeps("line") /\ Keeps("toRead") /\ Keeps("cur") /\ Keeps("sdkReceive")
      /\ Keeps("regularRead")
  BY <1>2 DEF Keeps
<1>5. /\ SdkSendInv' /\ RegularInv' /\ ToWriteInv' /\ LineInv' /\ ToReadInv' /\ FirstInv'
      /\ CurInv' /\ SdkReceiveInv' /\ RegularReadInv'
  BY <1>4, KeepSdkSend, KeepRegular, KeepToWrite, KeepLine, KeepToRead, KeepFirst, KeepCur,
     KeepSdkReceive, KeepRegularRead
  DEF IInv, WritePush, clients, readers
<1>6. ProxyInv' BY <1>1, <1>2, <1>3 DEF IInv, ProxyInv, u, e
<1>7. WayInv' BY <1>2 DEF IInv, WayInv, Stray
<1>8. QueryInv' BY <1>2, KeepQuery DEF IInv, WritePush, clients
<1>9. NumberInv' BY <1>2, KeepNumber DEF IInv
<1>10. ~ Awaited(u) BY <1>1, <1>2 DEF Awaited, WatchLocked
<1>11. \A t \in SdkTxn : Awaited(t)' <=> Awaited(t) \/ t = u
  BY <1>1, <1>2, <1>3 DEF Awaited, WatchLocked
<1>12. watch \in Seq(Transform) /\ watch' \in Seq(Transform) BY DEF IInv, TypeOK
<1>13. /\ Len(watch') = Len(watch) + 1 /\ Len(watch) \in Nat
       /\ \A i \in 1 .. Len(watch) : watch'[i] = watch[i]
       /\ watch'[Len(watch) + 1] = e
  BY <1>2, <1>12
<1>14. ASSUME lost = 0 PROVE WatchedExactly'
  <2>1. WatchedExactly BY <1>14 DEF IInv, WatchInv
  <2>2. \A i \in 1 .. Len(watch) : watch[i].txn # u BY <1>10, <2>1 DEF WatchedExactly
  <2>3. \A i \in 1 .. Len(watch') :
          /\ watch'[i].txn \in SdkTxn
          /\ at[watch'[i].txn] \in {"toWrite", "line", "toRead", "cur", "proxy"}
          /\ watch'[i].old = SdkNum[watch'[i].txn]
          /\ watch'[i].new = id[watch'[i].txn]
    <3> SUFFICES ASSUME NEW i \in 1 .. Len(watch')
                 PROVE  /\ watch'[i].txn \in SdkTxn
                        /\ at[watch'[i].txn] \in {"toWrite", "line", "toRead", "cur", "proxy"}
                        /\ watch'[i].old = SdkNum[watch'[i].txn]
                        /\ watch'[i].new = id[watch'[i].txn]
      OBVIOUS
    <3>1. CASE i \in 1 .. Len(watch) BY <1>13, <2>1, <3>1 DEF WatchedExactly, Awaited
    <3>2. CASE i = Len(watch) + 1 BY <1>1, <1>13, <3>2
    <3> QED BY <1>13, <3>1, <3>2
  <2>4. \A i, j \in 1 .. Len(watch') : watch'[i].txn = watch'[j].txn => i = j
    <3>1. \A i, j \in 1 .. Len(watch) : watch[i].txn = watch[j].txn => i = j
      BY <2>1 DEF WatchedExactly
    <3>2. \A i \in 1 .. Len(watch') :
            \/ i \in 1 .. Len(watch) /\ watch'[i].txn # u /\ watch'[i] = watch[i]
            \/ i = Len(watch) + 1 /\ watch'[i].txn = u
      BY <1>1, <1>13, <2>2
    <3> QED BY <3>1, <3>2
  <2>5. \A t \in SdkTxn : Awaited(t)' => \E i \in 1 .. Len(watch') : watch'[i].txn = t
    BY <1>1, <1>11, <1>13, <2>1 DEF WatchedExactly
  <2> QED BY <1>2, <1>3, <2>3, <2>4, <2>5 DEF WatchedExactly, Awaited, WatchLocked
<1>15. ASSUME NEW t \in SdkTxn, Awaited(t)' PROVE Watched(t)'
  <2>1. CASE t = u
    <3>1. Len(watch) + 1 \in 1 .. Len(watch') /\ watch'[Len(watch) + 1].new = id'[t]
      BY <1>1, <1>2, <1>13, <2>1
    <3> QED BY <3>1 DEF Watched
  <2>2. CASE t # u
    <3>1. PICK i \in 1 .. Len(watch) : watch[i].new = id[t]
      BY <1>11, <1>15, <2>2 DEF IInv, WatchInv, Watched
    <3>2. i \in 1 .. Len(watch') /\ watch'[i].new = id'[t] BY <1>2, <1>13, <3>1
    <3> QED BY <3>2 DEF Watched
  <2> QED BY <2>1, <2>2
<1>16. ASSUME IsFiniteSet(SdkTxn) PROVE LeakBounded'
  <2>1. IsFiniteSet(Open) /\ Cardinality(Open) \in Nat BY <1>16, OpenFinite
  <2>2. Open' = Open \cup {u} /\ u \notin Open BY <1>1, <1>10, <1>11 DEF Open
  <2>3. Cardinality(Open') = Cardinality(Open) + 1 BY <2>1, <2>2, FS_AddElement
  <2>4. Len(watch) <= Cardinality(Open) + lost BY <1>16, BoundIs DEF IInv, WatchInv
  <2>5. Len(watch') <= Cardinality(Open') + lost'
    BY <1>13, <2>1, <2>3, <2>4, LostType
  <2> QED BY <2>5, BoundIsNext
<1>17. WatchInv' BY <1>14, <1>15, <1>16 DEF WatchInv
<1> QED BY <1>5, <1>6, <1>7, <1>8, <1>9, <1>17 DEF IInv

LEMMA WriteSendInv ==
  ASSUME IInv, TypeOK', WriteSend
  PROVE  IInv'
<1> USE Kinds
<1> lost' = lost BY DEF WriteSend
<1> DEFINE p == wp.pkt
<1> at \in [Txn -> Places] /\ toWrite \in Seq(Packet) BY DEF IInv, TypeOK
<1>1. /\ p \in Packet /\ p.txn \in SdkTxn /\ at[p.txn] = "proxy" /\ p.num = id[p.txn]
      /\ \A t \in SdkTxn : at[t] = "proxy" => t = p.txn
  BY DEF IInv, ProxyInv, WriteSend
<1> HIDE DEF p
<1>2. /\ at'[p.txn] = "toWrite" /\ id' = id /\ watch' = watch
      /\ \A v \in Txn : v # p.txn => at'[v] = at[v]
      /\ toWrite' = Append(toWrite, p) /\ wp.pc = "pushed" /\ wp' = Idle
  BY <1>1 DEF WriteSend, p
<1>3. /\ Keeps("sdkSend") /\ Keeps("regular") /\ Keeps("toWrite")
      /\ Keeps("line") /\ Keeps("toRead") /\ Keeps("cur") /\ Keeps("sdkReceive")
      /\ Keeps("regularRead")
  BY <1>1, <1>2 DEF Keeps
<1>4. /\ SdkSendInv' /\ RegularInv' /\ LineInv' /\ ToReadInv' /\ FirstInv'
      /\ CurInv' /\ SdkReceiveInv' /\ RegularReadInv'
  BY <1>3, KeepSdkSend, KeepRegular, KeepLine, KeepToRead, KeepFirst, KeepCur,
     KeepSdkReceive, KeepRegularRead
  DEF IInv, WriteSend, clients, readers
<1>5. ProxyInv' BY <1>1, <1>2 DEF ProxyInv, Idle
<1>6. WayInv' BY <1>1, <1>2 DEF IInv, WayInv, Stray, SdkPlaces
<1>7. QueryInv' BY <1>1, <1>2, KeepQuery DEF IInv, WriteSend, clients
<1>8. NumberInv'
  <2>1. \A v \in Owned : at'[v] \in UnderWay => at[v] \in UnderWay BY <1>1, <1>2 DEF UnderWay
  <2> QED BY <1>2, <2>1, KeepNumber DEF IInv
<1>9. WatchInv'
  <2>1. \A u \in SdkTxn : Awaited(u)' <=> Awaited(u)
    BY <1>1, <1>2 DEF Awaited, WatchLocked, Idle
  <2> QED BY <1>2, <2>1, KeepWatch DEF IInv
<1>10. ToWriteInv'
  <2>1. Lodged(toWrite', at', "toWrite") /\ Once(toWrite')
    BY <1>1, <1>2, <1>3, JoinQueue DEF IInv, ToWriteInv
  <2>2. Stamped(p, id) BY <1>1 DEF Stamped
  <2>3. AllStamped(toWrite', id') BY <1>1, <1>2, <2>2, JoinStamped DEF IInv, ToWriteInv
  <2> QED BY <2>1, <2>3 DEF ToWriteInv
<1> QED BY <1>4, <1>5, <1>6, <1>7, <1>8, <1>9, <1>10 DEF IInv

LEMMA TransmitInv ==
  ASSUME IInv, TypeOK', Transmit
  PROVE  IInv'
<1> USE Kinds
<1> lost' = lost BY DEF Transmit
<1> DEFINE p == Head(toWrite)
<1> at \in [Txn -> Places] /\ toWrite \in Seq(Packet) BY DEF IInv, TypeOK
<1>1. p \in Packet /\ p = toWrite[1] /\ 1 \in 1 .. Len(toWrite) BY DEF Transmit
<1>2. p.txn \in Txn /\ at[p.txn] = "toWrite" /\ Stamped(p, id)
  BY <1>1 DEF IInv, ToWriteInv, Lodged, AllStamped
<1> HIDE DEF p
<1>3. /\ at'[p.txn] = "line" /\ id' = id
      /\ \A v \in Txn : v # p.txn => at'[v] = at[v]
      /\ line' = line \cup {p}
  BY <1>2 DEF Transmit, p
<1>4. /\ Keeps("sdkSend") /\ Keeps("regular") /\ Keeps("proxy")
      /\ Keeps("line") /\ Keeps("toRead") /\ Keeps("cur") /\ Keeps("sdkReceive")
      /\ Keeps("regularRead")
  BY <1>2, <1>3 DEF Keeps
<1>5. /\ SdkSendInv' /\ RegularInv' /\ ToReadInv' /\ FirstInv'
      /\ CurInv' /\ SdkReceiveInv' /\ RegularReadInv'
  BY <1>4, KeepSdkSend, KeepRegular, KeepToRead, KeepFirst, KeepCur,
     KeepSdkReceive, KeepRegularRead
  DEF IInv, Transmit, clients, readers
<1>6. ProxyInv'
  <2>1. \A t \in SdkTxn : at'[t] = "proxy" => at[t] = "proxy" BY <1>2, <1>3
  <2> QED BY <2>1, <1>4, KeepProxy DEF IInv, Transmit
<1>7. WayInv' BY <1>2, <1>3 DEF IInv, WayInv, Stray, SdkPlaces, BlazePlaces, QueryPlaces, QueryOpen
<1>8. QueryInv' BY <1>2, <1>3, KeepQuery DEF IInv, Transmit, clients, QueryOpen
<1>9. NumberInv'
  <2>1. \A v \in Owned : at'[v] \in UnderWay => at[v] \in UnderWay BY <1>2, <1>3 DEF UnderWay
  <2> QED BY <1>3, <2>1, KeepNumber DEF IInv
<1>10. WatchInv'
  <2>1. \A u \in SdkTxn : (Awaited(u)' <=> Awaited(u)) /\ id'[u] = id[u]
    BY <1>2, <1>3 DEF Awaited, WatchLocked, Transmit
  <2> QED BY <2>1, KeepWatch DEF IInv, Transmit
<1>11. ToWriteInv'
  <2>1. Lodged(toWrite', at', "toWrite") /\ Once(toWrite')
    BY <1>3, LeaveQueue DEF IInv, ToWriteInv, Transmit, p
  <2>2. AllStamped(toWrite', id') BY <1>3, LeaveStamped DEF IInv, ToWriteInv, Transmit
  <2> QED BY <2>1, <2>2 DEF ToWriteInv
<1>12. LineInv' BY <1>2, <1>3, <1>4 DEF IInv, LineInv, Keeps
<1> QED BY <1>5, <1>6, <1>7, <1>8, <1>9, <1>10, <1>11, <1>12 DEF IInv

LEMMA AnswerInv ==
  ASSUME IInv, TypeOK', NEW u \in Txn, Answer(u)
  PROVE  IInv'
<1> USE Kinds
<1> lost' = lost BY DEF Answer
<1> at \in [Txn -> Places] /\ line \in SUBSET Packet /\ toRead \in Seq(Packet)
  BY DEF IInv, TypeOK
<1>1. PICK p \in line : /\ p.txn = u /\ line' = line \ {p} /\ toRead' = Append(toRead, p)
                        /\ at' = [at EXCEPT ![u] = "toRead"]
                        /\ UNCHANGED << order, wp, toWrite, first, second, cur, watch, id, lost >>
                        /\ UNCHANGED clients
  BY DEF Answer
<1>2. p \in Packet /\ at[u] = "line" /\ Stamped(p, id) /\ u # Leftover
  BY <1>1 DEF IInv, LineInv
<1>3. at'[u] = "toRead" /\ id' = id /\ \A v \in Txn : v # u => at'[v] = at[v]
  BY <1>1
<1>4. /\ Keeps("sdkSend") /\ Keeps("regular") /\ Keeps("proxy") /\ Keeps("toWrite")
      /\ Keeps("toRead") /\ Keeps("cur") /\ Keeps("sdkReceive")
      /\ Keeps("regularRead")
  BY <1>2, <1>3 DEF Keeps
<1>5. /\ SdkSendInv' /\ RegularInv' /\ ToWriteInv'
      /\ CurInv' /\ SdkReceiveInv' /\ RegularReadInv'
  BY <1>1, <1>4, KeepSdkSend, KeepRegular, KeepToWrite, KeepCur, KeepSdkReceive, KeepRegularRead
  DEF IInv, clients
<1>6. ProxyInv'
  <2>1. \A t \in SdkTxn : at'[t] = "proxy" => at[t] = "proxy" BY <1>2, <1>3
  <2> QED BY <1>1, <2>1, <1>4, KeepProxy DEF IInv
<1>7. WayInv' BY <1>2, <1>3 DEF IInv, WayInv, Stray, SdkPlaces, BlazePlaces, QueryPlaces, QueryOpen
<1>8. QueryInv' BY <1>1, <1>2, <1>3, KeepQuery DEF IInv, clients, QueryOpen
<1>9. NumberInv'
  <2>1. \A v \in Owned : at'[v] \in UnderWay => at[v] \in UnderWay BY <1>2, <1>3 DEF UnderWay
  <2> QED BY <1>3, <2>1, KeepNumber DEF IInv
<1>10. WatchInv'
  <2>1. \A t \in SdkTxn : Awaited(t)' <=> Awaited(t)
    BY <1>1, <1>2, <1>3 DEF Awaited, WatchLocked
  <2> QED BY <1>1, <2>1, KeepWatch DEF IInv
<1>11. LineInv'
  <2>1. \A q \in line : q.txn = u => q.num = p.num
    BY <1>1, <1>2 DEF IInv, LineInv, Stamped
  <2>2. \A q \in line : q.txn = u => q = p BY <1>1, <1>2, <2>1 DEF Packet
  <2> QED BY <1>1, <1>2, <1>3, <2>2 DEF IInv, LineInv
<1>12. /\ Len(toRead') = Len(toRead) + 1 /\ Len(toRead) \in Nat
       /\ \A i \in 1 .. Len(toRead) : toRead'[i] = toRead[i]
       /\ toRead'[Len(toRead) + 1] = p
  BY <1>1, <1>2, AppendPacket
<1>13. \A i \in 1 .. Len(toRead) : toRead[i].txn # u
  BY <1>2 DEF IInv, ToReadInv, LeftPacket
<1>14. ToReadInv'
  <2>1. \A i \in 1 .. Len(toRead') :
          \/ toRead'[i] = LeftPacket
          \/ toRead'[i].txn \in Txn /\ at'[toRead'[i].txn] = "toRead" /\ Stamped(toRead'[i], id)
    <3> SUFFICES ASSUME NEW i \in 1 .. Len(toRead'), toRead'[i] # LeftPacket
                 PROVE  /\ toRead'[i].txn \in Txn /\ at'[toRead'[i].txn] = "toRead"
                        /\ Stamped(toRead'[i], id)
      OBVIOUS
    <3>1. CASE i \in 1 .. Len(toRead) BY <1>4, <1>12, <3>1 DEF IInv, ToReadInv, Keeps
    <3>2. CASE i = Len(toRead) + 1 BY <1>1, <1>2, <1>3, <1>12, <3>2
    <3> QED BY <1>12, <3>1, <3>2
  <2>2. \A i, j \in 1 .. Len(toRead') :
          toRead'[i].txn = toRead'[j].txn => i = j \/ toRead'[i].txn = Leftover
    BY <1>1, <1>12, <1>13 DEF IInv, ToReadInv
  <2> QED BY <1>3, <2>1, <2>2 DEF ToReadInv, Stamped
<1>15. FirstInv'
  <2>1. \A i, j \in 1 .. Len(toRead') :
          i < j /\ toRead'[j].txn = Leftover => toRead'[i].txn = Leftover
    BY <1>1, <1>2, <1>12 DEF IInv, FirstInv
  <2>2. second => \A i \in 1 .. Len(toRead') : toRead'[i].txn # Leftover
    BY <1>1, <1>2, <1>12 DEF IInv, FirstInv
  <2>3. first = None => toRead' # << >> /\ toRead'[1] = LeftPacket
    <3> SUFFICES ASSUME first = None PROVE toRead' # << >> /\ toRead'[1] = LeftPacket
      OBVIOUS
    <3>1. 1 \in 1 .. Len(toRead) BY DEF IInv, FirstInv
    <3> QED BY <1>12, <3>1 DEF IInv, FirstInv
  <2> QED BY <1>1, <2>1, <2>2, <2>3 DEF IInv, FirstInv
<1> QED BY <1>5, <1>6, <1>7, <1>8, <1>9, <1>10, <1>11, <1>14, <1>15 DEF IInv

\* A request that is given up has no packet under way, and its number is free.
LEMMA CloseKeeps ==
  ASSUME IInv, NEW u \in Txn, at[u] \in {"line", "misread"}, Close(u, "idle")
  PROVE  /\ at'[u] = "idle" /\ \A v \in Txn : v # u => at'[v] = at[v]
         /\ \A v \in Owned : v # u => id'[v] = id[v]
         /\ Keeps("sdkSend") /\ Keeps("regular") /\ Keeps("proxy") /\ Keeps("toWrite")
         /\ Keeps("toRead") /\ Keeps("cur") /\ Keeps("sdkReceive") /\ Keeps("regularRead")
         /\ \A t \in SdkTxn : at'[t] = "proxy" => at[t] = "proxy"
         /\ \A v \in Owned : at'[v] \in UnderWay => at[v] \in UnderWay /\ id'[v] = id[v]
<1> USE Kinds
<1>1. /\ at'[u] = "idle" /\ \A v \in Txn : v # u => at'[v] = at[v]
      /\ \A v \in Owned : v # u => id'[v] = id[v]
  BY DEF Close
<1>2. /\ Keeps("sdkSend") /\ Keeps("regular") /\ Keeps("proxy") /\ Keeps("toWrite")
      /\ Keeps("toRead") /\ Keeps("cur") /\ Keeps("sdkReceive") /\ Keeps("regularRead")
  BY <1>1 DEF Keeps
<1> QED BY <1>1, <1>2 DEF UnderWay

LEMMA LoseInv ==
  ASSUME IInv, TypeOK', NEW u \in Txn, Lose(u)
  PROVE  IInv'
<1> USE Kinds
<1>1. PICK p \in line : p.txn = u /\ line' = line \ {p} /\ Close(u, "idle")
  BY DEF Lose
<1>2. /\ lost' = lost + 1 /\ lost' # 0 /\ watch' = watch /\ wp' = wp
      /\ UNCHANGED << toWrite, sdkSend, regular, sdkReceive, regularRead, tokens >>
      /\ UNCHANGED << toRead, first, second, cur >>
  BY LostType DEF Lose, clients, readers
<1>3. p \in Packet /\ at[u] = "line" /\ Stamped(p, id)
  BY <1>1 DEF IInv, TypeOK, LineInv
<1>4. /\ at'[u] = "idle" /\ \A v \in Txn : v # u => at'[v] = at[v]
      /\ \A v \in Owned : v # u => id'[v] = id[v]
      /\ Keeps("sdkSend") /\ Keeps("regular") /\ Keeps("proxy") /\ Keeps("toWrite")
      /\ Keeps("toRead") /\ Keeps("cur") /\ Keeps("sdkReceive") /\ Keeps("regularRead")
      /\ \A t \in SdkTxn : at'[t] = "proxy" => at[t] = "proxy"
      /\ \A v \in Owned : at'[v] \in UnderWay => at[v] \in UnderWay /\ id'[v] = id[v]
  BY <1>1, <1>3, CloseKeeps
<1>5. /\ SdkSendInv' /\ RegularInv' /\ ToWriteInv' /\ ToReadInv' /\ FirstInv'
      /\ CurInv' /\ RegularReadInv' /\ ProxyInv' /\ NumberInv'
  BY <1>2, <1>4, KeepSdkSend, KeepRegular, KeepToWrite, KeepToRead, KeepFirst, KeepCur,
     KeepRegularRead, KeepProxy, KeepNumber
  DEF IInv, readers
<1>6. SdkReceiveInv' BY <1>2, <1>4 DEF IInv, SdkReceiveInv, Keeps
<1>7. WayInv'
  BY <1>2, <1>4 DEF IInv, WayInv, Stray, SdkPlaces, BlazePlaces, QueryPlaces
<1>8. QueryInv' BY <1>2, <1>4 DEF IInv, QueryInv, QueryOpen
<1>9. LineInv'
  <2>1. \A q \in line : q.txn = u => q.num = p.num
    BY <1>1, <1>3 DEF IInv, LineInv, Stamped
  <2>2. \A q \in line : q.txn = u => q = p
    <3>1. \A q \in line : q \in Packet BY DEF IInv, TypeOK
    <3> QED BY <1>1, <1>3, <2>1, <3>1 DEF Packet
  <2>3. \A q \in line' : q \in line /\ q.txn # u BY <1>1, <2>2
  <2> QED BY <1>4, <2>3 DEF IInv, LineInv, Stamped, Txn
<1>10. \A t \in SdkTxn : Awaited(t)' <=> Awaited(t) /\ t # u
  BY <1>2, <1>3, <1>4 DEF Awaited, WatchLocked
<1>11. \A t \in SdkTxn : Awaited(t)' => Watched(t)'
  BY <1>2, <1>4, <1>10 DEF IInv, WatchInv, Watched
<1>12. ASSUME IsFiniteSet(SdkTxn) PROVE LeakBounded'
  <2>1. IsFiniteSet(Open) /\ Cardinality(Open) \in Nat BY <1>12, OpenFinite
  <2>2. Open' = Open \ {u} BY <1>10 DEF Open
  <2>3. Cardinality(Open') \in {Cardinality(Open), Cardinality(Open) - 1}
    BY <2>1, <2>2, FS_RemoveElement
  <2>4. Len(watch) <= Cardinality(Open) + lost BY <1>12, BoundIs DEF IInv, WatchInv
  <2>5. Len(watch) \in Nat BY DEF IInv, TypeOK
  <2>6. Len(watch') <= Cardinality(Open') + lost'
    BY <1>2, <2>1, <2>3, <2>4, <2>5, LostType
  <2> QED BY <2>6, BoundIsNext
<1>13. WatchInv' BY <1>2, <1>11, <1>12 DEF WatchInv
<1> QED BY <1>5, <1>6, <1>7, <1>8, <1>9, <1>13 DEF IInv

LEMMA GiveUpInv ==
  ASSUME IInv, TypeOK', NEW u \in Owned, GiveUp(u)
  PROVE  IInv'
<1> USE Kinds
<1> lost' = lost BY DEF GiveUp
<1>1. /\ u \in Txn /\ at[u] = "misread" /\ watch' = watch /\ wp' = wp
      /\ UNCHANGED << toWrite, line, sdkSend, regular, sdkReceive, regularRead, tokens >>
      /\ UNCHANGED << toRead, first, second, cur >>
  BY DEF GiveUp, clients, readers
<1>2. /\ at'[u] = "idle" /\ \A v \in Txn : v # u => at'[v] = at[v]
      /\ \A v \in Owned : v # u => id'[v] = id[v]
      /\ Keeps("sdkSend") /\ Keeps("regular") /\ Keeps("proxy") /\ Keeps("toWrite")
      /\ Keeps("toRead") /\ Keeps("cur") /\ Keeps("sdkReceive") /\ Keeps("regularRead")
      /\ \A t \in SdkTxn : at'[t] = "proxy" => at[t] = "proxy"
      /\ \A v \in Owned : at'[v] \in UnderWay => at[v] \in UnderWay /\ id'[v] = id[v]
  BY <1>1, CloseKeeps DEF GiveUp
<1>3. Keeps("line") BY <1>1, <1>2 DEF Keeps
<1>4. /\ SdkSendInv' /\ RegularInv' /\ ToWriteInv' /\ LineInv' /\ ToReadInv' /\ FirstInv'
      /\ CurInv' /\ RegularReadInv' /\ SdkReceiveInv' /\ ProxyInv' /\ NumberInv'
  BY <1>1, <1>2, <1>3, KeepSdkSend, KeepRegular, KeepToWrite, KeepLine, KeepToRead, KeepFirst,
     KeepCur, KeepRegularRead, KeepSdkReceive, KeepProxy, KeepNumber
  DEF IInv, readers
<1>5. WayInv' BY <1>1, <1>2 DEF IInv, WayInv, Stray, SdkPlaces, BlazePlaces
<1>6. QueryInv' BY <1>1, <1>2, KeepQuery DEF IInv
<1>7. WatchInv'
  <2>1. \A t \in SdkTxn : Awaited(t)' <=> Awaited(t) BY <1>1, <1>2 DEF Awaited, WatchLocked
  <2>2. \A t \in SdkTxn : Awaited(t) => id'[t] = id[t] BY <1>1, <1>2 DEF Awaited
  <2> QED BY <1>1, <2>1, <2>2, KeepWatch DEF IInv
<1> QED BY <1>4, <1>5, <1>6, <1>7 DEF IInv

LEMMA ReadStep ==
  ASSUME IInv, ReadPacket
  PROVE  /\ Head(toRead) \in Packet /\ Head(toRead) = toRead[1] /\ 1 \in 1 .. Len(toRead)
         /\ Len(toRead') = Len(toRead) - 1
         /\ \A i \in 1 .. Len(toRead') :
              /\ toRead'[i] = toRead[i + 1] /\ i + 1 \in 1 .. Len(toRead) /\ 1 < i + 1
              /\ toRead'[i].txn = Head(toRead).txn => Head(toRead).txn = Leftover
         /\ \/ Head(toRead) = LeftPacket
            \/ /\ Head(toRead).txn \in Txn /\ at[Head(toRead).txn] = "toRead"
               /\ Stamped(Head(toRead), id)
<1>1. toRead \in Seq(Packet) /\ toRead # << >> /\ toRead' = Tail(toRead)
  BY DEF IInv, TypeOK, ReadPacket
<1>2. /\ Len(toRead') = Len(toRead) - 1 /\ Len(toRead) \in Nat \ {0}
      /\ Head(toRead) \in Packet /\ Head(toRead) = toRead[1]
      /\ \A i \in 1 .. Len(toRead') : toRead'[i] = toRead[i + 1]
  BY <1>1
<1>3. /\ 1 \in 1 .. Len(toRead)
      /\ \A i \in 1 .. Len(toRead') : i + 1 \in 1 .. Len(toRead) /\ 1 < i + 1 /\ i + 1 # 1
  BY <1>2
<1>4. \A i \in 1 .. Len(toRead') : toRead[i + 1].txn = toRead[1].txn => toRead[1].txn = Leftover
  BY <1>3 DEF IInv, ToReadInv
<1>5. \/ toRead[1] = LeftPacket
      \/ toRead[1].txn \in Txn /\ at[toRead[1].txn] = "toRead" /\ Stamped(toRead[1], id)
  BY <1>3 DEF IInv, ToReadInv
<1> QED BY <1>2, <1>3, <1>4, <1>5

LEMMA LeaveToRead ==
  ASSUME IInv, ReadPacket, \A v \in Txn : v # Head(toRead).txn => at'[v] = at[v]
  PROVE  ToReadInv'
<1> USE Kinds
<1> id' = id BY DEF ReadPacket
<1>1. \A i \in 1 .. Len(toRead') :
        \/ toRead'[i] = LeftPacket
        \/ toRead'[i].txn \in Txn /\ at'[toRead'[i].txn] = "toRead" /\ Stamped(toRead'[i], id)
  <2> SUFFICES ASSUME NEW i \in 1 .. Len(toRead'), toRead'[i] # LeftPacket
               PROVE  /\ toRead'[i].txn \in Txn /\ at'[toRead'[i].txn] = "toRead"
                      /\ Stamped(toRead'[i], id)
    OBVIOUS
  <2>1. toRead'[i] = toRead[i + 1] /\ i + 1 \in 1 .. Len(toRead) BY ReadStep
  <2>2. /\ toRead'[i].txn \in Txn /\ at[toRead'[i].txn] = "toRead" /\ Stamped(toRead'[i], id)
    BY <2>1 DEF IInv, ToReadInv
  <2>3. toRead'[i].txn # Head(toRead).txn BY <2>2, ReadStep
  <2> QED BY <2>2, <2>3
<1>2. \A i, j \in 1 .. Len(toRead') :
        toRead'[i].txn = toRead'[j].txn => i = j \/ toRead'[i].txn = Leftover
  <2> SUFFICES ASSUME NEW i \in 1 .. Len(toRead'), NEW j \in 1 .. Len(toRead'),
                      toRead'[i].txn = toRead'[j].txn, toRead'[i].txn # Leftover
               PROVE  i = j
    OBVIOUS
  <2>1. /\ toRead'[i] = toRead[i + 1] /\ i + 1 \in 1 .. Len(toRead)
        /\ toRead'[j] = toRead[j + 1] /\ j + 1 \in 1 .. Len(toRead)
    BY ReadStep
  <2>2. i + 1 = j + 1 BY <2>1 DEF IInv, ToReadInv
  <2> QED BY <2>2
<1> QED BY <1>1, <1>2 DEF ToReadInv, Stamped

\* What is left over stays in front.
LEMMA LeftoversFirst ==
  ASSUME IInv, ReadPacket
  PROVE  \A i, j \in 1 .. Len(toRead') :
           i < j /\ toRead'[j].txn = Leftover => toRead'[i].txn = Leftover
<1> SUFFICES ASSUME NEW i \in 1 .. Len(toRead'), NEW j \in 1 .. Len(toRead'),
                    i < j, toRead'[j].txn = Leftover
             PROVE  toRead'[i].txn = Leftover
  OBVIOUS
<1>1. /\ toRead'[i] = toRead[i + 1] /\ i + 1 \in 1 .. Len(toRead)
      /\ toRead'[j] = toRead[j + 1] /\ j + 1 \in 1 .. Len(toRead)
  BY ReadStep
<1>2. i + 1 < j + 1 OBVIOUS
<1> QED BY <1>1, <1>2 DEF IInv, FirstInv

LEMMA ReadQueryInv ==
  ASSUME IInv, TypeOK', SdkQueries = {}, ReadPacket, ReadQuery(Head(toRead))
  PROVE  IInv'
<1> USE Kinds
<1> lost' = lost BY DEF ReadPacket
<1> DEFINE d == Head(toRead)
<1> at \in [Txn -> Places] /\ regularRead \in Seq(Packet) BY DEF IInv, TypeOK
<1>1. /\ d \in Packet /\ d = toRead[1] /\ d.txn = Query /\ at[Query] = "toRead" /\ d.num = 0
      /\ d # LeftPacket
  BY ReadStep DEF ReadQuery, IsQueryAnswer, LeftPacket, Stamped
<1>2. /\ at'[Query] = "regularRead" /\ id' = id /\ \A v \in Txn : v # Query => at'[v] = at[v]
      /\ regularRead' = Append(regularRead, d) /\ watch' = watch /\ wp' = wp
      /\ tokens' = tokens - 1 /\ UNCHANGED << first, second, cur, sdkReceive >>
  BY <1>1 DEF ReadPacket, ReadQuery, ToBlaze
<1>3. ToReadInv' BY <1>1, <1>2, LeaveToRead
<1> HIDE DEF d
<1>4. /\ Keeps("sdkSend") /\ Keeps("regular") /\ Keeps("proxy") /\ Keeps("toWrite")
      /\ Keeps("line") /\ Keeps("cur") /\ Keeps("sdkReceive") /\ Keeps("regularRead")
  BY <1>1, <1>2 DEF Keeps
<1>5. /\ SdkSendInv' /\ RegularInv' /\ ToWriteInv' /\ LineInv' /\ CurInv' /\ SdkReceiveInv'
  BY <1>2, <1>4, KeepSdkSend, KeepRegular, KeepToWrite, KeepLine, KeepCur, KeepSdkReceive
  DEF IInv, ReadPacket
<1>6. ProxyInv' BY <1>1, <1>2, <1>4, KeepProxy DEF IInv
<1>7. WayInv' BY <1>1, <1>2 DEF IInv, WayInv, Stray, QueryPlaces, QueryOpen
<1>8. QueryInv' BY <1>1, <1>2 DEF IInv, TypeOK, QueryInv, QueryOpen
<1>9. NumberInv' BY <1>2, KeepNumber DEF IInv
<1>10. WatchInv'
  <2>1. \A t \in SdkTxn : Awaited(t)' <=> Awaited(t) BY <1>1, <1>2 DEF Awaited, WatchLocked
  <2> QED BY <1>2, <2>1, KeepWatch DEF IInv
<1>11. FirstInv'
  <2>1. first # None BY <1>1 DEF IInv, FirstInv
  <2>3. second => \A i \in 1 .. Len(toRead') : toRead'[i].txn # Leftover
    BY ReadStep DEF IInv, FirstInv
  <2> QED BY <1>2, <2>1, <2>3, LeftoversFirst DEF IInv, FirstInv
<1>12. RegularReadInv'
  <2>1. Lodged(regularRead', at', "regularRead") /\ Once(regularRead')
    BY <1>1, <1>2, <1>4, JoinQueue DEF IInv, RegularReadInv
  <2>2. Stamped(d, id) BY <1>1 DEF Stamped
  <2>3. AllStamped(regularRead', id')
    BY <1>1, <1>2, <2>2, JoinStamped DEF IInv, RegularReadInv
  <2>4. \A i \in 1 .. Len(regularRead') : regularRead'[i].txn \notin SdkTxn
    BY <1>1, <1>2, AppendPacket DEF IInv, RegularReadInv
  <2> QED BY <2>1, <2>3, <2>4 DEF RegularReadInv
<1> QED BY <1>3, <1>5, <1>6, <1>7, <1>8, <1>9, <1>10, <1>11, <1>12 DEF IInv

LEMMA ReadFirstInv ==
  ASSUME IInv, TypeOK', ReadPacket, ReadFirst(Head(toRead))
  PROVE  IInv'
<1> USE Kinds
<1> lost' = lost BY DEF ReadPacket
<1>0. LeftPacket \in Packet /\ LeftPacket # None /\ LeftPacket.txn = Leftover
  BY ProxyAssumption, NoneAssumption DEF LeftPacket, Packet
<1>1. Head(toRead) = LeftPacket BY ReadStep DEF IInv, FirstInv, ReadFirst
<1>2. /\ at' = at /\ id' = id /\ watch' = watch /\ wp' = wp
      /\ sdkReceive' = Append(sdkReceive, LeftPacket)
      /\ first' = LeftPacket
      /\ UNCHANGED << second, cur, tokens, regularRead >>
  BY <1>0, <1>1 DEF ReadPacket, ReadFirst, ToSdk, IInv, FirstInv
<1>3. ToReadInv' BY <1>2, LeaveToRead
<1>4. /\ Keeps("sdkSend") /\ Keeps("regular") /\ Keeps("proxy") /\ Keeps("toWrite")
      /\ Keeps("line") /\ Keeps("cur") /\ Keeps("regularRead")
  BY <1>2 DEF Keeps
<1>5. /\ SdkSendInv' /\ RegularInv' /\ ToWriteInv' /\ LineInv' /\ CurInv' /\ RegularReadInv'
  BY <1>2, <1>4, KeepSdkSend, KeepRegular, KeepToWrite, KeepLine, KeepCur, KeepRegularRead
  DEF IInv, ReadPacket
<1>6. ProxyInv' /\ WayInv' /\ QueryInv' /\ NumberInv'
  BY <1>2 DEF IInv, ProxyInv, WayInv, Stray, QueryInv, NumberInv
<1>7. WatchInv'
  <2>1. \A t \in SdkTxn : Awaited(t)' <=> Awaited(t) BY <1>2 DEF Awaited, WatchLocked
  <2> QED BY <1>2, <2>1, KeepWatch DEF IInv
<1>8. FirstInv'
  <2>1. ~ second BY <1>0, <1>1, ReadStep DEF IInv, FirstInv
  <2> QED BY <1>0, <1>2, <2>1, LeftoversFirst DEF IInv, FirstInv
<1>9. SdkReceiveInv'
  <2>1. /\ Len(sdkReceive') = Len(sdkReceive) + 1 /\ Len(sdkReceive) \in Nat
        /\ \A i \in 1 .. Len(sdkReceive) : sdkReceive'[i] = sdkReceive[i]
        /\ sdkReceive'[Len(sdkReceive) + 1] = LeftPacket
    BY <1>0, <1>2, AppendPacket DEF IInv, TypeOK
  <2>2. \A i \in 1 .. Len(sdkReceive') :
          \/ sdkReceive'[i] = LeftPacket
          \/ /\ sdkReceive'[i].txn \in Owned /\ at[sdkReceive'[i].txn] = "sdkReceive"
             /\ lost = 0 => /\ sdkReceive'[i].txn \in SdkTxn
                            /\ sdkReceive'[i] = SdkPacket(sdkReceive'[i].txn)
    BY <2>1 DEF IInv, SdkReceiveInv
  <2>3. \A i, j \in 1 .. Len(sdkReceive') :
          sdkReceive'[i].txn = sdkReceive'[j].txn => i = j \/ sdkReceive'[i].txn = Leftover
    BY <1>0, <2>1 DEF IInv, SdkReceiveInv
  <2> QED BY <1>2, <2>2, <2>3 DEF SdkReceiveInv, SdkPacket
<1> QED BY <1>3, <1>5, <1>6, <1>7, <1>8, <1>9 DEF IInv

LEMMA ReadOtherInv ==
  ASSUME IInv, TypeOK', SdkQueries = {}, ReadPacket, ReadOther(Head(toRead))
  PROVE  IInv'
<1> USE Kinds
<1> lost' = lost BY DEF ReadPacket
<1> DEFINE d == Head(toRead)
<1> at \in [Txn -> Places] BY DEF IInv, TypeOK
<1>1. d \in Packet /\ d = toRead[1] /\ 1 \in 1 .. Len(toRead) BY ReadStep
<1>2. d # LeftPacket
  <2>1. second => d.txn # Leftover BY <1>1 DEF IInv, FirstInv
  <2> QED BY <2>1 DEF ReadOther, IInv, FirstInv, LeftPacket
<1>3. d.txn \in Txn /\ at[d.txn] = "toRead" /\ Stamped(d, id) BY <1>2, ReadStep
<1>4. d.txn \in Owned
  <2>1. d.txn = Query => tokens > 0 BY <1>3 DEF IInv, QueryInv, QueryOpen
  <2> QED BY <1>3, <2>1 DEF ReadOther, IsQueryAnswer, Owned
<1>5. /\ at'[d.txn] = "cur" /\ id' = id /\ \A v \in Txn : v # d.txn => at'[v] = at[v]
      /\ cur' = d /\ second' = TRUE /\ first # None /\ watch' = watch /\ wp' = wp
      /\ UNCHANGED << first, tokens, sdkReceive, regularRead >>
  BY <1>3 DEF ReadPacket, ReadOther
<1>6. ToReadInv' BY <1>5, LeaveToRead
<1> HIDE DEF d
<1>7. /\ Keeps("sdkSend") /\ Keeps("regular") /\ Keeps("proxy") /\ Keeps("toWrite")
      /\ Keeps("line") /\ Keeps("sdkReceive") /\ Keeps("regularRead")
  BY <1>3, <1>5 DEF Keeps
<1>8. /\ SdkSendInv' /\ RegularInv' /\ ToWriteInv' /\ LineInv' /\ SdkReceiveInv'
      /\ RegularReadInv'
  BY <1>5, <1>7, KeepSdkSend, KeepRegular, KeepToWrite, KeepLine, KeepSdkReceive,
     KeepRegularRead
  DEF IInv, ReadPacket
<1>9. ProxyInv'
  <2>1. \A t \in SdkTxn : at'[t] = "proxy" => at[t] = "proxy" BY <1>3, <1>5
  <2> QED BY <1>5, <2>1, <1>7, KeepProxy DEF IInv
<1>10. WayInv' BY <1>3, <1>4, <1>5 DEF IInv, WayInv, Stray, SdkPlaces, BlazePlaces
<1>11. QueryInv' BY <1>4, <1>5, KeepQuery DEF IInv
<1>12. NumberInv'
  <2>1. \A v \in Owned : at'[v] \in UnderWay => at[v] \in UnderWay BY <1>3, <1>5 DEF UnderWay
  <2> QED BY <1>5, <2>1, KeepNumber DEF IInv
<1>13. WatchInv'
  <2>1. \A t \in SdkTxn : Awaited(t)' <=> Awaited(t) BY <1>3, <1>5 DEF Awaited, WatchLocked
  <2> QED BY <1>5, <2>1, KeepWatch DEF IInv
<1>14. CurInv' BY <1>3, <1>4, <1>5 DEF CurInv, Stamped
<1>15. FirstInv'
  <2>1. \A i \in 1 .. Len(toRead') : toRead'[i].txn # Leftover
    <3> SUFFICES ASSUME NEW i \in 1 .. Len(toRead'), toRead'[i].txn = Leftover PROVE FALSE
      OBVIOUS
    <3>1. toRead'[i] = toRead[i + 1] /\ i + 1 \in 1 .. Len(toRead) /\ 1 < i + 1 BY ReadStep
    <3>2. toRead[1].txn = Leftover BY <1>1, <3>1 DEF IInv, FirstInv
    <3> QED BY <1>1, <1>3, <3>2
  <2> QED BY <1>5, <2>1 DEF IInv, FirstInv
<1> QED BY <1>6, <1>8, <1>9, <1>10, <1>11, <1>12, <1>13, <1>14, <1>15 DEF IInv

\* If nothing has been lost, the transform found by number is that of the request the
\* answer belongs to.
LEMMA MatchIsOwn ==
  ASSUME IInv, lost = 0, cur # None, ~ WatchLocked, NEW i \in 1 .. Len(watch), Matches(i)
  PROVE  watch[i].txn = cur.txn /\ cur.txn \in SdkTxn /\ watch[i].old = SdkNum[cur.txn]
<1> USE Kinds
<1>1. cur.txn \in Owned /\ at[cur.txn] = "cur" /\ cur.num = id[cur.txn] BY DEF IInv, CurInv
<1>2. /\ watch[i].txn \in SdkTxn /\ Awaited(watch[i].txn)
      /\ watch[i].old = SdkNum[watch[i].txn] /\ watch[i].new = id[watch[i].txn]
  BY DEF IInv, WatchInv, WatchedExactly
<1>3. at[cur.txn] \in UnderWay /\ at[watch[i].txn] \in UnderWay
  BY <1>1, <1>2 DEF Awaited, UnderWay
<1>4. id[watch[i].txn] = id[cur.txn] BY <1>1, <1>2 DEF Matches
<1>5. watch[i].txn = cur.txn BY <1>1, <1>2, <1>3, <1>4 DEF IInv, NumberInv
<1> QED BY <1>2, <1>5

LEMMA LookupNoneInv ==
  ASSUME IInv, TypeOK', ReadLookup, LookupNone
  PROVE  IInv'
<1> USE Kinds
<1> lost' = lost BY DEF ReadLookup
<1> DEFINE b == cur.txn
<1> /\ at \in [Txn -> Places] /\ cur \in Packet /\ cur # None /\ ~ WatchLocked
    /\ regularRead \in Seq(Packet)
  BY DEF IInv, TypeOK, ReadLookup
<1>1. b \in Owned /\ at[b] = "cur" /\ cur.num = id[b] BY DEF IInv, CurInv
<1>2. b \notin SdkTxn
  <2> SUFFICES ASSUME b \in SdkTxn PROVE FALSE OBVIOUS
  <2>1. PICK i \in 1 .. Len(watch) : watch[i].new = id[b]
    BY <1>1 DEF IInv, WatchInv, Watched, Awaited
  <2> QED BY <1>1, <2>1 DEF LookupNone, Matches
<1>3. /\ at'[b] = "regularRead" /\ id' = id /\ \A v \in Txn : v # b => at'[v] = at[v]
      /\ regularRead' = Append(regularRead, cur) /\ cur' = None /\ watch' = watch /\ wp' = wp
      /\ UNCHANGED << first, second, tokens, sdkReceive, toRead >>
  BY <1>1 DEF ReadLookup, LookupNone, ToBlaze
<1> HIDE DEF b
<1>4. /\ Keeps("sdkSend") /\ Keeps("regular") /\ Keeps("proxy") /\ Keeps("toWrite")
      /\ Keeps("line") /\ Keeps("toRead") /\ Keeps("sdkReceive") /\ Keeps("regularRead")
  BY <1>1, <1>3 DEF Keeps
<1>5. /\ SdkSendInv' /\ RegularInv' /\ ToWriteInv' /\ LineInv' /\ ToReadInv' /\ SdkReceiveInv'
  BY <1>3, <1>4, KeepSdkSend, KeepRegular, KeepToWrite, KeepLine, KeepToRead, KeepSdkReceive
  DEF IInv, ReadLookup
<1>6. ProxyInv'
  <2>1. \A t \in SdkTxn : at'[t] = "proxy" => at[t] = "proxy" BY <1>1, <1>3
  <2> QED BY <1>3, <2>1, <1>4, KeepProxy DEF IInv
<1>7. WayInv' BY <1>1, <1>2, <1>3 DEF IInv, WayInv, Stray, BlazePlaces, Owned
<1>8. QueryInv' BY <1>1, <1>3, KeepQuery DEF IInv
<1>9. NumberInv'
  <2>1. \A v \in Owned : at'[v] \in UnderWay => at[v] \in UnderWay BY <1>1, <1>3 DEF UnderWay
  <2> QED BY <1>3, <2>1, KeepNumber DEF IInv
<1>10. WatchInv'
  <2>1. \A t \in SdkTxn : Awaited(t)' <=> Awaited(t) BY <1>2, <1>3 DEF Awaited, WatchLocked
  <2> QED BY <1>3, <2>1, KeepWatch DEF IInv
<1>11. CurInv' /\ FirstInv' BY <1>3 DEF IInv, CurInv, FirstInv
<1>12. RegularReadInv'
  <2>1. Lodged(regularRead', at', "regularRead") /\ Once(regularRead')
    BY <1>1, <1>3, <1>4, JoinQueue DEF IInv, RegularReadInv, b
  <2>2. Stamped(cur, id) BY <1>1 DEF Stamped, b
  <2>3. AllStamped(regularRead', id') BY <1>3, <2>2, JoinStamped DEF IInv, RegularReadInv
  <2>4. \A i \in 1 .. Len(regularRead') : regularRead'[i].txn \notin SdkTxn
    BY <1>2, <1>3, AppendPacket DEF IInv, RegularReadInv, b
  <2> QED BY <2>1, <2>3, <2>4 DEF RegularReadInv
<1> QED BY <1>5, <1>6, <1>7, <1>8, <1>9, <1>10, <1>11, <1>12 DEF IInv

LEMMA LookupFoundInv ==
  ASSUME IInv, TypeOK', ReadLookup, LookupFound
  PROVE  IInv'
<1> USE Kinds, SdkPackets
<1> lost' = lost BY DEF ReadLookup
<1> DEFINE t == cur.txn
<1> /\ at \in [Txn -> Places] /\ cur \in Packet /\ cur # None /\ ~ WatchLocked
    /\ sdkReceive \in Seq(Packet) /\ watch \in Seq(Transform)
  BY DEF IInv, TypeOK, ReadLookup
<1>1. PICK k \in 1 .. Len(watch) :
         /\ Matches(k) /\ watch' = RemoveAt(watch, k)
         /\ ToSdk([cur EXCEPT !.num = watch[k].old])
  BY DEF LookupFound
<1> DEFINE d == [cur EXCEPT !.num = watch[k].old]
<1>2. t \in Owned /\ at[t] = "cur" /\ watch[k].new = id[t] BY <1>1 DEF IInv, CurInv, Matches
<1>3. lost = 0 => watch[k].txn = t /\ t \in SdkTxn /\ d = SdkPacket(t)
  <2>1. lost = 0 => watch[k].txn = t /\ t \in SdkTxn /\ watch[k].old = SdkNum[t]
    BY <1>1, MatchIsOwn
  <2>2. d = [num |-> watch[k].old, txn |-> t] BY DEF Packet
  <2> HIDE DEF d, t
  <2> QED BY <2>1, <2>2 DEF SdkPacket
<1>4. d \in Packet /\ d.txn = t
  <2>1. watch[k] \in Transform OBVIOUS
  <2>2. watch[k].old \in Nat BY <2>1 DEF Transform
  <2> QED BY <2>2 DEF Packet
<1> HIDE DEF d
<1>5. /\ at'[t] = "sdkReceive" /\ id' = id /\ \A v \in Txn : v # t => at'[v] = at[v]
      /\ sdkReceive' = Append(sdkReceive, d) /\ cur' = None /\ wp' = wp
      /\ UNCHANGED << first, second, tokens, regularRead, toRead >>
  BY <1>1, <1>2, <1>4 DEF ReadLookup, ToSdk, d
<1> HIDE DEF t
<1>6. /\ Keeps("sdkSend") /\ Keeps("regular") /\ Keeps("proxy") /\ Keeps("toWrite")
      /\ Keeps("line") /\ Keeps("toRead") /\ Keeps("sdkReceive") /\ Keeps("regularRead")
  BY <1>2, <1>5 DEF Keeps
<1>7. /\ SdkSendInv' /\ RegularInv' /\ ToWriteInv' /\ LineInv' /\ ToReadInv' /\ RegularReadInv'
  BY <1>5, <1>6, KeepSdkSend, KeepRegular, KeepToWrite, KeepLine, KeepToRead, KeepRegularRead
  DEF IInv, ReadLookup
<1>8. ProxyInv'
  <2>1. \A v \in SdkTxn : at'[v] = "proxy" => at[v] = "proxy" BY <1>2, <1>5
  <2> QED BY <1>5, <2>1, <1>6, KeepProxy DEF IInv
<1>9. WayInv' BY <1>2, <1>3, <1>5 DEF IInv, WayInv, Stray, SdkPlaces, BlazePlaces
<1>10. QueryInv' BY <1>2, <1>5, KeepQuery DEF IInv
<1>11. NumberInv'
  <2>1. \A v \in Owned : at'[v] \in UnderWay => at[v] \in UnderWay BY <1>2, <1>5 DEF UnderWay
  <2> QED BY <1>5, <2>1, KeepNumber DEF IInv
<1>12. CurInv' /\ FirstInv' BY <1>5 DEF IInv, CurInv, FirstInv
<1>13. SdkReceiveInv'
  <2>1. /\ Len(sdkReceive') = Len(sdkReceive) + 1 /\ Len(sdkReceive) \in Nat
        /\ \A i \in 1 .. Len(sdkReceive) : sdkReceive'[i] = sdkReceive[i]
        /\ sdkReceive'[Len(sdkReceive) + 1] = d
    BY <1>4, <1>5, AppendPacket
  <2>2. \A i \in 1 .. Len(sdkReceive) : sdkReceive[i].txn # t
    BY <1>2 DEF IInv, SdkReceiveInv, LeftPacket
  <2>3. \A i \in 1 .. Len(sdkReceive) :
          \/ sdkReceive[i] = LeftPacket
          \/ /\ sdkReceive[i].txn \in Owned /\ at'[sdkReceive[i].txn] = "sdkReceive"
             /\ lost = 0 => /\ sdkReceive[i].txn \in SdkTxn
                            /\ sdkReceive[i] = SdkPacket(sdkReceive[i].txn)
    BY <1>6 DEF IInv, SdkReceiveInv, Keeps
  <2>4. \A i \in 1 .. Len(sdkReceive') :
          \/ sdkReceive'[i] = LeftPacket
          \/ /\ sdkReceive'[i].txn \in Owned /\ at'[sdkReceive'[i].txn] = "sdkReceive"
             /\ lost = 0 => /\ sdkReceive'[i].txn \in SdkTxn
                            /\ sdkReceive'[i] = SdkPacket(sdkReceive'[i].txn)
    BY <1>2, <1>3, <1>4, <1>5, <2>1, <2>3
  <2>5. \A i, j \in 1 .. Len(sdkReceive') :
          sdkReceive'[i].txn = sdkReceive'[j].txn => i = j \/ sdkReceive'[i].txn = Leftover
    BY <1>4, <2>1, <2>2 DEF IInv, SdkReceiveInv
  <2> QED BY <2>4, <2>5 DEF SdkReceiveInv, SdkPacket
<1>14. /\ Len(watch') = Len(watch) - 1 /\ Len(watch) \in Nat
       /\ \A j \in 1 .. Len(watch) - 1 :
            watch'[j] = IF j < k THEN watch[j] ELSE watch[j + 1]
  BY <1>1, RemoveAtProperties
<1>15. \A v \in SdkTxn : Awaited(v)' <=> Awaited(v) /\ v # t
  BY <1>2, <1>5 DEF Awaited, WatchLocked
<1> DEFINE from(j) == IF j < k THEN j ELSE j + 1
<1>16. \A j \in 1 .. Len(watch') :
         watch'[j] = watch[from(j)] /\ from(j) \in 1 .. Len(watch) /\ from(j) # k
  BY <1>14
<1>17. \A i, j \in 1 .. Len(watch') : from(i) = from(j) => i = j BY <1>14
<1>18. \A m \in 1 .. Len(watch) : m # k => \E j \in 1 .. Len(watch') : from(j) = m
  <2> SUFFICES ASSUME NEW m \in 1 .. Len(watch), m # k
               PROVE  \E j \in 1 .. Len(watch') : from(j) = m
    OBVIOUS
  <2>1. CASE m < k
    <3>1. m \in 1 .. Len(watch') /\ from(m) = m BY <1>14, <2>1
    <3> QED BY <3>1
  <2>2. CASE m > k
    <3>1. m - 1 \in 1 .. Len(watch') /\ from(m - 1) = m BY <1>14, <2>2
    <3> QED BY <3>1
  <2> QED BY <2>1, <2>2
<1> HIDE DEF from
<1>19. ASSUME lost = 0 PROVE WatchedExactly'
  <2>1. WatchedExactly BY <1>19 DEF IInv, WatchInv
  <2>2. \A m \in 1 .. Len(watch) : m # k => watch[m].txn # t
    BY <1>3, <1>19, <2>1 DEF WatchedExactly
  <2>3. \A j \in 1 .. Len(watch') :
          /\ watch'[j].txn \in SdkTxn /\ watch'[j].txn # t
          /\ at[watch'[j].txn] \in {"toWrite", "line", "toRead", "cur"}
          /\ watch'[j].old = SdkNum[watch'[j].txn]
          /\ watch'[j].new = id[watch'[j].txn]
    BY <1>16, <2>1, <2>2 DEF WatchedExactly, Awaited
  <2>4. \A i, j \in 1 .. Len(watch') : watch'[i].txn = watch'[j].txn => i = j
    <3> SUFFICES ASSUME NEW i \in 1 .. Len(watch'), NEW j \in 1 .. Len(watch'),
                        watch'[i].txn = watch'[j].txn
                 PROVE  i = j
      OBVIOUS
    <3>1. /\ watch'[i] = watch[from(i)] /\ from(i) \in 1 .. Len(watch)
          /\ watch'[j] = watch[from(j)] /\ from(j) \in 1 .. Len(watch)
      BY <1>16
    <3>2. from(i) = from(j) BY <2>1, <3>1 DEF WatchedExactly
    <3> QED BY <1>17, <3>2
  <2>5. ASSUME NEW v \in SdkTxn, Awaited(v)'
        PROVE  \E j \in 1 .. Len(watch') : watch'[j].txn = v
    <3>1. Awaited(v) /\ v # t BY <1>15, <2>5
    <3>2. PICK m \in 1 .. Len(watch) : watch[m].txn = v BY <2>1, <3>1 DEF WatchedExactly
    <3>3. PICK j \in 1 .. Len(watch') : from(j) = m BY <1>3, <1>18, <1>19, <3>1, <3>2
    <3> QED BY <1>16, <3>2, <3>3
  <2> QED BY <1>5, <2>3, <2>4, <2>5 DEF WatchedExactly, Awaited
<1>20. ASSUME NEW v \in SdkTxn, Awaited(v)' PROVE Watched(v)'
  <2>1. Awaited(v) /\ v # t BY <1>15, <1>20
  <2>2. id[v] # id[t]
    <3>1. at[v] \in UnderWay /\ at[t] \in UnderWay BY <1>2, <2>1 DEF Awaited, UnderWay
    <3> QED BY <1>2, <2>1, <3>1 DEF IInv, NumberInv
  <2>3. PICK m \in 1 .. Len(watch) : watch[m].new = id[v]
    BY <2>1 DEF IInv, WatchInv, Watched
  <2>4. PICK j \in 1 .. Len(watch') : from(j) = m BY <1>2, <1>18, <2>2, <2>3
  <2> QED BY <1>5, <1>16, <2>3, <2>4 DEF Watched
<1>21. ASSUME IsFiniteSet(SdkTxn) PROVE LeakBounded'
  <2>1. IsFiniteSet(Open) /\ Cardinality(Open) \in Nat BY <1>21, OpenFinite
  <2>2. Open' = Open \ {t} BY <1>15 DEF Open
  <2>3. Cardinality(Open') \in {Cardinality(Open), Cardinality(Open) - 1}
    BY <2>1, <2>2, FS_RemoveElement
  <2>4. Len(watch) <= Cardinality(Open) + lost BY <1>21, BoundIs DEF IInv, WatchInv
  <2>5. Len(watch') <= Cardinality(Open') + lost'
    BY <1>14, <2>1, <2>3, <2>4, LostType
  <2> QED BY <2>5, BoundIsNext
<1>22. WatchInv' BY <1>19, <1>20, <1>21 DEF WatchInv
<1> QED BY <1>7, <1>8, <1>9, <1>10, <1>11, <1>12, <1>13, <1>22 DEF IInv

LEMMA NextInv ==
  ASSUME Timely, SdkQueries = {}, IInv, [Next]_vars
  PROVE  IInv'
<1>0. TypeOK' BY TypeNext DEF IInv
<1>1. ASSUME NEW t \in SdkTxn, SdkWrite(t) PROVE IInv' BY <1>0, <1>1, SdkWriteInv
<1>2. CASE SdkRead BY <1>0, <1>2, SdkReadInv
<1>3. ASSUME NEW b \in BlazeTxn, BlazePrepare(b) PROVE IInv' BY <1>0, <1>3, BlazePrepareInv
<1>4. ASSUME NEW b \in BlazeTxn, BlazeSend(b) PROVE IInv' BY <1>0, <1>4, BlazeSendInv
<1>5. CASE AskQuery BY <1>0, <1>5, AskQueryInv
<1>6. CASE SendQuery BY <1>0, <1>6, SendQueryInv
<1>7. CASE BlazeRead BY <1>0, <1>7, BlazeReadInv
<1>8. CASE WriteRegular BY <1>0, <1>8, WriteRegularInv
<1>9. CASE WriteTake BY <1>0, <1>9, WriteTakeInv
<1>10. CASE WritePush BY <1>0, <1>10, WritePushInv
<1>11. CASE WriteSend BY <1>0, <1>11, WriteSendInv
<1>12. CASE Transmit BY <1>0, <1>12, TransmitInv
<1>13. ASSUME NEW u \in Txn, Answer(u) PROVE IInv' BY <1>0, <1>13, AnswerInv
<1>14. ASSUME NEW u \in Txn, Lose(u) PROVE IInv' BY <1>0, <1>14, LoseInv
<1>14a. ASSUME NEW u \in Owned, GiveUp(u) PROVE IInv' BY <1>0, <1>14a, GiveUpInv
<1>15. CASE ReadPacket
  BY <1>0, <1>15, ReadQueryInv, ReadFirstInv, ReadOtherInv DEF ReadPacket
<1>16. CASE ReadLookup BY <1>0, <1>16, LookupNoneInv, LookupFoundInv DEF ReadLookup
<1>17. CASE UNCHANGED vars
  <2>1. \A t \in SdkTxn : Awaited(t)' <=> Awaited(t) BY <1>17 DEF vars, Awaited, WatchLocked
  <2>2. WatchInv' BY <1>17, <2>1, KeepWatch DEF vars, IInv
  <2>3. /\ SdkSendInv' /\ RegularInv' /\ ProxyInv' /\ ToWriteInv' /\ LineInv'
        /\ ToReadInv' /\ FirstInv' /\ CurInv' /\ SdkReceiveInv' /\ RegularReadInv'
    BY <1>17 DEF vars, IInv, SdkSendInv, RegularInv, ProxyInv, ToWriteInv, LineInv, ToReadInv,
       FirstInv, CurInv, SdkReceiveInv, RegularReadInv, Lodged, Once, AllStamped, Stamped,
       SdkPacket
  <2>4. WayInv' /\ QueryInv' /\ NumberInv'
    BY <1>17 DEF vars, IInv, WayInv, Stray, QueryInv, NumberInv
  <2> QED BY <1>0, <2>2, <2>3, <2>4 DEF IInv
<1> QED
  BY Kinds, <1>1, <1>2, <1>3, <1>4, <1>5, <1>6, <1>7, <1>8, <1>9, <1>10, <1>11, <1>12, <1>13, <1>14,
     <1>14a, <1>15, <1>16, <1>17
  DEF Next, Sdk, Blaze, WriteProxy, ReadProxy, Line

\* On a timely line the invariant holds for any number of requests, of message numbers and
\* of losses.
THEOREM Invariance ==
  ASSUME Timely, SdkQueries = {}
  PROVE  Spec => []IInv
<1>1. IInv /\ [Next]_vars => IInv' BY NextInv
<1> QED BY InitInv, <1>1, PTL DEF Spec

-----------------------------------------------------------------------------
(* What the invariant says to the two sides of the proxy.                   *)

\* As long as no answer has been lost, the SDK reads only answers to its own requests,
\* under its own numbers (read_proxy.rs:80-92).
THEOREM SdkGetsItsOwnAlways ==
  ASSUME Timely, SdkQueries = {}
  PROVE  Spec => [](lost = 0 => SdkGetsItsOwn)
<1>1. IInv => (lost = 0 => SdkGetsItsOwn) BY DEF IInv, SdkReceiveInv, SdkGetsItsOwn
<1> QED BY Invariance, <1>1, PTL

\* Whatever is lost, Blaze reads only answers to its own requests, under the numbers it
\* registered (read_proxy.rs:72-79).
THEOREM BlazeGetsItsOwnAlways ==
  ASSUME Timely, SdkQueries = {}
  PROVE  Spec => []BlazeGetsItsOwn
<1>1. IInv => BlazeGetsItsOwn
  BY Kinds DEF IInv, RegularReadInv, Lodged, AllStamped, Stamped, BlazeGetsItsOwn
<1> QED BY Invariance, <1>1, PTL

\* Whatever is lost, no answer to the SDK is handed to Blaze: the transform of a request
\* that waits stays until an answer with its number comes (read_proxy.rs:72-92).
THEOREM SdkAnswerNotToBlazeAlways ==
  ASSUME Timely, SdkQueries = {}
  PROVE  Spec => []SdkAnswerNotToBlaze
<1>1. IInv => SdkAnswerNotToBlaze BY DEF IInv, RegularReadInv, SdkAnswerNotToBlaze
<1> QED BY Invariance, <1>1, PTL

\* packets_to_watch grows by one transform at most for each lost answer (read_proxy.rs:87).
THEOREM LeakBoundedAlways ==
  ASSUME Timely, SdkQueries = {}, IsFiniteSet(SdkTxn)
  PROVE  Spec => []LeakBounded
<1>1. IInv => LeakBounded BY DEF IInv, WatchInv
<1> QED BY Invariance, <1>1, PTL

\* As long as no answer has been lost, packets_to_watch holds exactly the SDK requests that
\* wait for an answer (send_proxy.rs:112-114).
THEOREM WatchedExactlyAlways ==
  ASSUME Timely, SdkQueries = {}
  PROVE  Spec => [](lost = 0 => WatchedExactly)
<1>1. IInv => (lost = 0 => WatchedExactly) BY DEF IInv, WatchInv
<1> QED BY Invariance, <1>1, PTL

\* As long as no answer has been lost, no number is watched for the SDK and under way for
\* Blaze at the same time (robotics.md:97).
THEOREM NoSharedNumberAlways ==
  ASSUME Timely, SdkQueries = {}
  PROVE  Spec => [](lost = 0 => NoSharedNumber)
<1>1. ASSUME IInv, lost = 0, NEW b \in BlazeTxn, NEW i \in 1 .. Len(watch), at[b] \in UnderWay
      PROVE  id[b] # watch[i].new
  <2>1. /\ watch[i].txn \in SdkTxn /\ Awaited(watch[i].txn)
        /\ watch[i].new = id[watch[i].txn]
    BY <1>1 DEF IInv, WatchInv, WatchedExactly
  <2>2. at[watch[i].txn] \in UnderWay BY <2>1 DEF Awaited, UnderWay
  <2> QED BY <1>1, <2>1, <2>2, Kinds DEF IInv, NumberInv
<1>2. IInv => (lost = 0 => NoSharedNumber) BY <1>1 DEF NoSharedNumber
<1> QED BY Invariance, <1>2, PTL

=============================================================================
