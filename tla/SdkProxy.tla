------------------------------ MODULE SdkProxy ------------------------------
(***************************************************************************)
(* The proxy between the FTC SDK, Blaze's own handlers and one serial line *)
(* (src/src/sdk_proxy/).  Both sides send requests down the same line.  A  *)
(* request of the SDK carries a number the SDK chose, a request of Blaze a *)
(* number that Blaze registered in the shared MessageList.  The write      *)
(* proxy gives every SDK request a registered number instead and leaves an *)
(* IdTransform in packets_to_watch, by which the read proxy finds out that *)
(* an answer belongs to the SDK and restores the number the SDK expects.   *)
(*                                                                         *)
(* A packet is [num, txn]: num is message_number = reference_number, the   *)
(* only thing the code routes by; txn, the payload, says whose request it  *)
(* is and is read by the properties (and, for the interface query, by the  *)
(* read proxy, which looks at the payload's type).                         *)
(***************************************************************************)
EXTENDS Integers, Sequences, FiniteSets, SequencesExt

CONSTANTS
  SdkTxn,      \* requests the SDK may have open at a time
  SdkQueries,  \* those of them that are interface queries, as Blaze's is
  BlazeTxn,    \* requests Blaze's threads may have open at a time
  Query,       \* Blaze's interface query, sent while a hub is set up
  Leftover,    \* an answer already on its way when the proxy takes the line over
  NumIds,      \* length of the MessageList (255 in the code)
  SdkNum,      \* the message number the SDK gives each of its requests
  LeftNum,     \* the number the left-over answer carries
  Leftovers,   \* how many copies of it arrive
  Timely,      \* environment: a number comes up again only after its last use was answered
  MaxLost,     \* environment: bound on the answers lost (bad checksum, noise)
  None         \* no packet

Owned == SdkTxn \cup BlazeTxn
Txn   == Owned \cup {Query}
Ids   == 0 .. NumIds - 1

ASSUME ProxyAssumption ==
  /\ NumIds \in Nat \ {0}
  /\ SdkTxn \cap BlazeTxn = {}
  /\ SdkQueries \subseteq SdkTxn
  /\ Query \notin Owned
  /\ Leftover \notin Txn
  /\ SdkNum \in [SdkTxn -> Nat]
  /\ LeftNum \in Nat
  /\ Leftovers \in Nat \ {0}
  /\ Timely \in BOOLEAN
  /\ MaxLost \in Nat

Packet    == [num : Nat, txn : Txn \cup {Leftover}]
Transform == [old : Nat, new : Nat, txn : Txn \cup {Leftover}]

ASSUME NoneAssumption == None \notin Packet

LeftPacket == [num |-> LeftNum, txn |-> Leftover]

VARIABLES
  order,        \* MessageList: the numbers, least recently used first
  sdkSend,      \* channel: Proxy::write to the write proxy
  regular,      \* channel: LynxHub.sender to the write proxy
  wp,           \* the write proxy thread: [pc, pkt, old]
  toWrite,      \* channel: write proxy to the hardware write thread
  line,         \* requests the hub has received and not answered
  toRead,       \* channel: hardware read thread to the read proxy
  first,        \* read proxy: first_packet
  second,       \* read proxy: had_second_packet
  cur,          \* read proxy: the answer it is about to look up
  watch,        \* packets_to_watch
  tokens,       \* INTERFACE_QUERY_TRACKER
  sdkReceive,   \* channel: read proxy (and interceptors) to the SDK
  regularRead,  \* channel: read proxy to Blaze
  at,           \* where each request is (for a Blaze request, its thread's state too)
  id,           \* the registered number of each request
  lost          \* answers lost so far

vars == << order, sdkSend, regular, wp, toWrite, line, toRead, first, second, cur,
           watch, tokens, sdkReceive, regularRead, at, id, lost >>

clients == << sdkSend, regular, sdkReceive, regularRead, tokens >>
readers == << toRead, first, second, cur >>

Idle == [pc |-> "idle", pkt |-> None, old |-> 0]

\* Stages in which a packet with a registered number is under way.
UnderWay == {"prepared", "regular", "proxy", "toWrite", "line", "toRead", "cur"}

Places == UnderWay \cup {"idle", "asked", "sdkSend", "sdkReceive", "regularRead",
                         "misread", "done"}

Init ==
  /\ order = [i \in 1 .. NumIds |-> i - 1]
  /\ sdkSend = << >> /\ regular = << >> /\ toWrite = << >>
  /\ wp = Idle
  /\ line = {}
  /\ toRead = [i \in 1 .. Leftovers |-> LeftPacket]
  /\ first = None /\ second = FALSE /\ cur = None
  /\ watch = << >> /\ tokens = 0
  /\ sdkReceive = << >> /\ regularRead = << >>
  /\ at = [u \in Txn |-> "idle"]
  /\ id = [u \in Owned |-> 0]
  /\ lost = 0

-----------------------------------------------------------------------------
(* Message numbers.  register_packet_0 takes the number with the oldest     *)
(* stamp and stamps it anew; the stamps come from one monotonic clock under *)
(* one mutex, so the numbers in order of age are all that matters.          *)

Oldest == Head(order)

Touch == order' = Append(Tail(order), Oldest)

\* The environment keeps the line fast enough: the number that is oldest now
\* is not carried by a packet still under way.  The code does not check this.
Window == Timely => \A u \in Owned : at[u] \in UnderWay => id[u] # Oldest

Register(u) ==
  /\ Window
  /\ Touch
  /\ id' = [id EXCEPT ![u] = Oldest]

\* A request is over: its place, and its number means nothing any more.
Close(u, place) ==
  /\ at' = [v \in Txn |-> IF v = u THEN place ELSE at[v]]
  /\ id' = [v \in Owned |-> IF v = u THEN 0 ELSE id[v]]

-----------------------------------------------------------------------------
(* The SDK.                                                                *)

SdkPacket(t) == [num |-> SdkNum[t], txn |-> t]

\* Proxy::write: an interceptor answers the request itself, or it goes on.
SdkWrite(t) ==
  /\ at[t] = "idle"
  /\ \/ /\ sdkSend' = Append(sdkSend, SdkPacket(t))
        /\ at' = [at EXCEPT ![t] = "sdkSend"]
        /\ UNCHANGED sdkReceive
     \/ /\ sdkReceive' = Append(sdkReceive, SdkPacket(t))
        /\ at' = [at EXCEPT ![t] = "sdkReceive"]
        /\ UNCHANGED sdkSend
  /\ UNCHANGED << order, regular, wp, toWrite, line, watch, tokens, regularRead, id, lost >>
  /\ UNCHANGED readers

\* Proxy::read takes the next answer; the SDK matches it by its number.
SdkRead ==
  /\ sdkReceive # << >>
  /\ LET p == Head(sdkReceive) IN
       Close(p.txn, IF p.txn \in SdkTxn /\ p = SdkPacket(p.txn) THEN "idle" ELSE "misread")
  /\ sdkReceive' = Tail(sdkReceive)
  /\ UNCHANGED << order, sdkSend, regular, wp, toWrite, line, watch, tokens, regularRead, lost >>
  /\ UNCHANGED readers

-----------------------------------------------------------------------------
(* Blaze: any thread that sends through a hub, and the reactor that reads. *)

\* prepare_send_packet: the caller's thread registers the number first ...
BlazePrepare(b) ==
  /\ at[b] = "idle"
  /\ Register(b)
  /\ at' = [at EXCEPT ![b] = "prepared"]
  /\ UNCHANGED << sdkSend, regular, wp, toWrite, line, watch, tokens, sdkReceive, regularRead, lost >>
  /\ UNCHANGED readers

\* ... send_prepared_packet: and sends the packet later, a scheduled one much later.
BlazeSend(b) ==
  /\ at[b] = "prepared"
  /\ regular' = Append(regular, [num |-> id[b], txn |-> b])
  /\ at' = [at EXCEPT ![b] = "regular"]
  /\ UNCHANGED << order, sdkSend, wp, toWrite, line, watch, tokens, sdkReceive, regularRead, id, lost >>
  /\ UNCHANGED readers

\* Mutant: the query is not announced to the read proxy.
AskQueryQuiet ==
  /\ at[Query] = "idle"
  /\ at' = [at EXCEPT ![Query] = "asked"]
  /\ UNCHANGED << order, sdkSend, regular, wp, toWrite, line, watch, tokens, sdkReceive, regularRead, id, lost >>
  /\ UNCHANGED readers

\* Module::generate_module: announce the query, then send it with number 0 ...
AskQuery ==
  /\ at[Query] = "idle"
  /\ tokens' = tokens + 1
  /\ at' = [at EXCEPT ![Query] = "asked"]
  /\ UNCHANGED << order, sdkSend, regular, wp, toWrite, line, watch, sdkReceive, regularRead, id, lost >>
  /\ UNCHANGED readers

SendQuery ==
  /\ at[Query] = "asked"
  /\ regular' = Append(regular, [num |-> 0, txn |-> Query])
  /\ at' = [at EXCEPT ![Query] = "regular"]
  /\ UNCHANGED << order, sdkSend, wp, toWrite, line, watch, tokens, sdkReceive, regularRead, id, lost >>
  /\ UNCHANGED readers

\* The reactor (or generate_module) takes an answer and matches it by its number.
BlazeRead ==
  /\ regularRead # << >>
  /\ LET p == Head(regularRead) IN
       Close(p.txn, IF p.txn = Query THEN "done"
                    ELSE IF p.txn \in BlazeTxn /\ p.num = id[p.txn] THEN "idle" ELSE "misread")
  /\ regularRead' = Tail(regularRead)
  /\ UNCHANGED << order, sdkSend, regular, wp, toWrite, line, watch, tokens, sdkReceive, lost >>
  /\ UNCHANGED readers

-----------------------------------------------------------------------------
(* The write proxy thread (do_proxy).                                      *)

\* select! took the regular channel: its packets have their numbers already.
WriteRegular ==
  /\ wp.pc = "idle" /\ regular # << >>
  /\ toWrite' = Append(toWrite, Head(regular))
  /\ regular' = Tail(regular)
  /\ at' = [at EXCEPT ![Head(regular).txn] = "toWrite"]
  /\ UNCHANGED << order, sdkSend, wp, line, watch, tokens, sdkReceive, regularRead, id, lost >>
  /\ UNCHANGED readers

\* select! took the SDK's channel: register a number and rewrite the packet.
WriteTake ==
  /\ wp.pc = "idle" /\ sdkSend # << >>
  /\ LET p == Head(sdkSend) IN
       /\ Register(p.txn)
       /\ wp' = [pc |-> "rewritten", pkt |-> [p EXCEPT !.num = Oldest], old |-> p.num]
       /\ at' = [at EXCEPT ![p.txn] = "proxy"]
  /\ sdkSend' = Tail(sdkSend)
  /\ UNCHANGED << regular, toWrite, line, watch, tokens, sdkReceive, regularRead, lost >>
  /\ UNCHANGED readers

\* Mutant: the two numbers of the transform are swapped.
WritePushSwapped ==
  /\ wp.pc = "rewritten"
  /\ watch' = Append(watch, [old |-> wp.pkt.num, new |-> wp.old, txn |-> wp.pkt.txn])
  /\ wp' = [wp EXCEPT !.pc = "pushed"]
  /\ UNCHANGED << order, toWrite, line, at, id, lost >>
  /\ UNCHANGED clients /\ UNCHANGED readers

\* Lock packets_to_watch and push the transform; the lock stays held ...
WritePush ==
  /\ wp.pc = "rewritten"
  /\ watch' = Append(watch, [old |-> wp.old, new |-> wp.pkt.num, txn |-> wp.pkt.txn])
  /\ wp' = [wp EXCEPT !.pc = "pushed"]
  /\ UNCHANGED << order, toWrite, line, at, id, lost >>
  /\ UNCHANGED clients /\ UNCHANGED readers

\* ... until the packet is with the write thread.
WriteSend ==
  /\ wp.pc = "pushed"
  /\ toWrite' = Append(toWrite, wp.pkt)
  /\ at' = [at EXCEPT ![wp.pkt.txn] = "toWrite"]
  /\ wp' = Idle
  /\ UNCHANGED << order, line, watch, id, lost >>
  /\ UNCHANGED clients /\ UNCHANGED readers

WatchLocked == wp.pc = "pushed"

-----------------------------------------------------------------------------
(* The line: the write thread, the hub, the read thread.  Modules answer   *)
(* in any order (a hub behind the RS485 link is slower than its parent).   *)

Transmit ==
  /\ toWrite # << >>
  /\ line' = line \cup {Head(toWrite)}
  /\ toWrite' = Tail(toWrite)
  /\ at' = [at EXCEPT ![Head(toWrite).txn] = "line"]
  /\ UNCHANGED << order, wp, watch, id, lost >>
  /\ UNCHANGED clients /\ UNCHANGED readers

Answer(u) ==
  \E p \in line :
    /\ p.txn = u
    /\ line' = line \ {p}
    /\ toRead' = Append(toRead, p)
    /\ at' = [at EXCEPT ![u] = "toRead"]
    /\ UNCHANGED << order, wp, toWrite, first, second, cur, watch, id, lost >>
    /\ UNCHANGED clients

\* The answer never gets past the read thread; whoever asked gives up in time.
Lose(u) ==
  /\ lost < MaxLost
  /\ lost' = lost + 1
  /\ \E p \in line :
       /\ p.txn = u
       /\ line' = line \ {p}
       /\ Close(u, "idle")
  /\ UNCHANGED << order, wp, toWrite, watch >>
  /\ UNCHANGED clients /\ UNCHANGED readers

\* A requester that never saw its answer gives up in its own time and may ask again.
GiveUp(u) ==
  /\ at[u] = "misread"
  /\ Close(u, "idle")
  /\ UNCHANGED << order, wp, toWrite, line, watch, lost >>
  /\ UNCHANGED clients /\ UNCHANGED readers

-----------------------------------------------------------------------------
(* The read proxy thread.                                                  *)

\* Mutants: the read proxy does not look at the payload.
AnyAnswer(p) == TRUE
NoAnswer(p) == FALSE

IsQueryAnswer(p) == p.txn \in SdkQueries \cup {Query}

ToSdk(p) ==
  /\ sdkReceive' = Append(sdkReceive, p)
  /\ at' = IF p.txn = Leftover THEN at ELSE [at EXCEPT ![p.txn] = "sdkReceive"]
  /\ UNCHANGED regularRead

ToBlaze(p) ==
  /\ regularRead' = Append(regularRead, p)
  /\ at' = IF p.txn = Leftover THEN at ELSE [at EXCEPT ![p.txn] = "regularRead"]
  /\ UNCHANGED sdkReceive

\* An announced interface query's answer goes to Blaze, whatever its number; the
\* payload does not tell whose query it answers.
ReadQuery(d) ==
  /\ IsQueryAnswer(d) /\ tokens > 0
  /\ tokens' = tokens - 1
  /\ ToBlaze(d)
  /\ UNCHANGED << first, second, cur >>

\* The first packet, and copies of it until another comes, are the SDK's.
ReadFirst(d) ==
  /\ ~ (IsQueryAnswer(d) /\ tokens > 0)
  /\ \/ first = None
     \/ ~ second /\ d = first
  /\ first' = IF first = None THEN d ELSE first
  /\ ToSdk(d)
  /\ UNCHANGED << second, cur, tokens >>

\* Any other packet is to be looked up in packets_to_watch.
ReadOther(d) ==
  /\ ~ (IsQueryAnswer(d) /\ tokens > 0)
  /\ first # None
  /\ second \/ d # first
  /\ second' = TRUE
  /\ cur' = d
  /\ at' = IF d.txn = Leftover THEN at ELSE [at EXCEPT ![d.txn] = "cur"]
  /\ UNCHANGED << first, tokens, sdkReceive, regularRead >>

ReadPacket ==
  /\ cur = None /\ toRead # << >>
  /\ \/ ReadQuery(Head(toRead))
     \/ ReadFirst(Head(toRead))
     \/ ReadOther(Head(toRead))
  /\ toRead' = Tail(toRead)
  /\ UNCHANGED << order, sdkSend, regular, wp, toWrite, line, watch, id, lost >>

\* Mutant: the answer is compared with the number the SDK gave.
MatchesOld(i) == watch[i].old = cur.num

Matches(i) == watch[i].new = cur.num

\* Mutant: an answer that is not the SDK's is dropped.
LookupNoneDropped ==
  /\ \A i \in 1 .. Len(watch) : ~ Matches(i)
  /\ UNCHANGED << watch, at, sdkReceive, regularRead >>

\* No transform has the number: the answer is for Blaze.
LookupNone ==
  /\ \A i \in 1 .. Len(watch) : ~ Matches(i)
  /\ ToBlaze(cur)
  /\ UNCHANGED watch

\* Mutants: the number is not restored; the transform is not used up; the answer
\* is not sent on.
LookupFoundRaw ==
  \E i \in 1 .. Len(watch) :
    /\ Matches(i)
    /\ \A j \in 1 .. i - 1 : ~ Matches(j)
    /\ watch' = RemoveAt(watch, i)
    /\ ToSdk(cur)

LookupFoundKept ==
  \E i \in 1 .. Len(watch) :
    /\ Matches(i)
    /\ \A j \in 1 .. i - 1 : ~ Matches(j)
    /\ ToSdk([cur EXCEPT !.num = watch[i].old])
    /\ UNCHANGED watch

LookupFoundDropped ==
  \E i \in 1 .. Len(watch) :
    /\ Matches(i)
    /\ \A j \in 1 .. i - 1 : ~ Matches(j)
    /\ watch' = RemoveAt(watch, i)
    /\ UNCHANGED << at, sdkReceive, regularRead >>

\* The first transform with the number is used up, its old number restored.
LookupFound ==
  \E i \in 1 .. Len(watch) :
    /\ Matches(i)
    /\ \A j \in 1 .. i - 1 : ~ Matches(j)
    /\ watch' = RemoveAt(watch, i)
    /\ ToSdk([cur EXCEPT !.num = watch[i].old])

ReadLookup ==
  /\ cur # None /\ ~ WatchLocked
  /\ LookupNone \/ LookupFound
  /\ cur' = None
  /\ UNCHANGED << order, sdkSend, regular, wp, toWrite, line, toRead, first, second, tokens, id, lost >>

-----------------------------------------------------------------------------
WriteProxy == WriteRegular \/ WriteTake \/ WritePush \/ WriteSend
ReadProxy  == ReadPacket \/ ReadLookup
Sdk        == SdkRead \/ \E t \in SdkTxn : SdkWrite(t) \/ GiveUp(t)
Blaze      == \/ BlazeRead \/ AskQuery \/ SendQuery
              \/ \E b \in BlazeTxn : BlazePrepare(b) \/ BlazeSend(b) \/ GiveUp(b)
Line       == Transmit \/ \E u \in Txn : Answer(u) \/ Lose(u)

Next == Sdk \/ Blaze \/ WriteProxy \/ Line \/ ReadProxy

Spec == Init /\ [][Next]_vars

\* Every thread keeps running and every hub answers.  select! picks at random
\* among the channels that are ready, so neither channel starves (SF).
Fairness ==
  /\ SF_vars(WriteRegular) /\ SF_vars(WriteTake)
  /\ WF_vars(WritePush) /\ WF_vars(WriteSend)
  /\ WF_vars(Transmit) /\ \A u \in Txn : WF_vars(Answer(u))
  /\ WF_vars(ReadPacket) /\ WF_vars(ReadLookup)
  /\ WF_vars(SdkRead) /\ WF_vars(BlazeRead) /\ WF_vars(SendQuery)
  /\ \A b \in BlazeTxn : WF_vars(BlazeSend(b))

FairSpec == Spec /\ Fairness

-----------------------------------------------------------------------------
(* Properties.                                                             *)

TypeOK ==
  /\ order \in Seq(Ids) /\ Len(order) = NumIds
  /\ sdkSend \in Seq(Packet) /\ regular \in Seq(Packet) /\ toWrite \in Seq(Packet)
  /\ wp \in [pc : {"idle", "rewritten", "pushed"}, pkt : Packet \cup {None}, old : Nat]
  /\ wp.pc # "idle" => wp.pkt # None
  /\ line \in SUBSET Packet
  /\ toRead \in Seq(Packet)
  /\ first \in Packet \cup {None} /\ second \in BOOLEAN /\ cur \in Packet \cup {None}
  /\ watch \in Seq(Transform)
  /\ tokens \in Nat
  /\ sdkReceive \in Seq(Packet) /\ regularRead \in Seq(Packet)
  /\ at \in [Txn -> Places]
  /\ id \in [Owned -> Ids]
  /\ lost \in 0 .. MaxLost

\* An SDK request whose transform has been pushed and whose answer has not been
\* looked up.
Awaited(t) == \/ at[t] \in {"toWrite", "line", "toRead", "cur"}
              \/ at[t] = "proxy" /\ WatchLocked

\* Whatever Blaze does meanwhile, the SDK reads only answers to its own requests, each
\* with the number the SDK gave the request (read_proxy.rs:80-92 undoes send_proxy.rs:95-110).
SdkGetsItsOwn ==
  \A i \in 1 .. Len(sdkReceive) :
    LET p == sdkReceive[i] IN
      p = LeftPacket \/ (p.txn \in SdkTxn /\ p = SdkPacket(p.txn))

\* Blaze reads only answers to its own requests, under the number its thread registered
\* for the request (read_proxy.rs:72-79): none is taken for the SDK's.
BlazeGetsItsOwn ==
  \A i \in 1 .. Len(regularRead) :
    LET p == regularRead[i] IN
      p.txn = Query \/ (p.txn \in BlazeTxn /\ p.num = id[p.txn])

\* packets_to_watch holds exactly the SDK requests whose answer is still to come: the
\* transform is there before the answer can be (send_proxy.rs:112-114), one for each
\* request, and none outlives its answer (read_proxy.rs:87).
WatchedExactly ==
  /\ \A i \in 1 .. Len(watch) :
       /\ watch[i].txn \in SdkTxn /\ Awaited(watch[i].txn)
       /\ watch[i].old = SdkNum[watch[i].txn]
       /\ watch[i].new = id[watch[i].txn]
  /\ \A i, j \in 1 .. Len(watch) : watch[i].txn = watch[j].txn => i = j
  /\ \A t \in SdkTxn : Awaited(t) => \E i \in 1 .. Len(watch) : watch[i].txn = t

\* No number is at the same time watched for an SDK request and carried by a request of
\* Blaze that is under way (robotics.md:97, "so they aren't reused across both the SDK
\* and Blaze").
NoSharedNumber ==
  \A b \in BlazeTxn, i \in 1 .. Len(watch) :
    at[b] \in UnderWay => id[b] # watch[i].new

\* Even when answers are lost and transforms are left behind, an answer to the SDK is
\* never handed to Blaze: the SDK's own transform is there, if not the first to match.
SdkAnswerNotToBlaze ==
  \A i \in 1 .. Len(regularRead) : regularRead[i].txn \notin SdkTxn

\* packets_to_watch grows by no more than one transform for each lost answer.
LeakBounded ==
  Len(watch) <= Cardinality({t \in SdkTxn : Awaited(t)}) + lost

\* As long as no answer is lost, every request of the SDK that Proxy::write accepted is
\* answered, so that its reader, blocked in Proxy::read, is not left waiting; and so is
\* every request of Blaze, and generate_module's interface query (it waits for nothing else).
Served ==
  [](lost = 0) =>
    /\ \A t \in SdkTxn : at[t] = "sdkSend" ~> at[t] = "idle"
    /\ \A b \in BlazeTxn : at[b] = "regular" ~> at[b] = "idle"
    /\ at[Query] = "asked" ~> at[Query] = "done"

=============================================================================
