------------------------------- MODULE Startup -------------------------------
(***************************************************************************)
(* From the calls by which Java makes the hubs known to packets that go    *)
(* both ways (src/src/lib.rs, command_utils.rs, control/hardware.rs).      *)
(* initialize takes the line over, starts the threads and asks each hub    *)
(* for its range of commands; what a packet is decoded as depends on how   *)
(* far it has come.                                                        *)
(*                                                                         *)
(* Packets are bytes on the lines.  SdkProxy has the proxies in detail,    *)
(* their rule for the first packets included; here the SDK and Blaze have  *)
(* one request open each, and each its number.                             *)
(***************************************************************************)
EXTENDS Commands, FiniteSets

CONSTANTS
  Ctrl, Ex,     \* addresses of the control hub and the expansion hub
  Parent,       \* environment: each servo hub's parent
  Commanded,    \* first and count of each hub's commands, as the hub knows them
  Plants,       \* environment: [ex, calls], how the expansion hub is connected ("rs485",
                \* "usb" or "none") and what Java calls, in order
  SdkExchanges, BlazeExchanges, \* [to, id, req, rid, rsp]: ids and payloads that may be
                                \* asked and answered
  SdkNum, ProxyNum, BlazeNum,   \* numbers: the SDK's, the proxy's for it, Blaze's
  Alone,        \* environment: the SDK has no interface query open during initialize
  Readers,      \* environment: [had, asks], where the SDK's reader may be in a frame when the
                \* line is taken over, and how many bytes it asks for next
  HeadAsked, RestAsked, \* environment: bytes it asks for at the start of a frame, and then
  MaxLost       \* environment: bound on the answers lost, a query's not among them

Line == {"serial", "usb"}
Hubs == {Ctrl, Ex}

ASSUME StartupAssumption ==
  /\ Hubs \subseteq 1 .. 255 /\ Ctrl # Ex
  /\ DOMAIN Parent \subseteq 1 .. 255 \ Hubs
  /\ Parent \in [DOMAIN Parent -> Hubs]
  /\ Commanded \in [Hubs -> [first : Word, count : Word]]
  /\ {SdkNum, ProxyNum, BlazeNum} \subseteq Byte \ {0}
  /\ SdkNum # ProxyNum /\ SdkNum # BlazeNum /\ ProxyNum # BlazeNum
  /\ Alone \in BOOLEAN
  /\ MaxLost \in Nat
  /\ HeadAsked \in Nat \ {0} /\ RestAsked \in Nat \ {0}

\* A reader asks for one byte before it has a frame's start, for two to have its length, and
\* for more only when it has read start and length (the comment in Proxy::read).
ASSUME ReaderAssumption ==
  \A r \in Readers : \/ r.had = 0 /\ r.asks = 1
                     \/ r.had = 2 /\ r.asks = 2
                     \/ r.had = 4 /\ r.asks \in Nat \ 0 .. 2

\* Java tells of the control hub and the expansion hub, each the way it is connected, of the
\* control hub first and once more only when it has called initialize, and it says there is
\* a hub on USB only if there is.
Told(c, addr, fd) == c.call = "module" /\ c.addr = addr /\ c.fd = fd
ASSUME PlantAssumption ==
  \A p \in Plants :
    /\ p.ex \in {"rs485", "usb", "none"}
    /\ p.calls \in Seq(ToSet(p.calls))
    /\ \A i \in DOMAIN p.calls :
         LET c     == p.calls[i]
             known == \E j \in 1 .. i - 1 : Told(p.calls[j], Ctrl, TRUE)
             begun == \E j \in 1 .. i - 1 : p.calls[j].call = "initialize"
         IN \/ c.call = "servo" /\ c.addr \in DOMAIN Parent
            \/ c.call = "initialize" /\ (c.usb => p.ex = "usb")
            \/ Told(c, Ctrl, TRUE) /\ (known => begun /\ p.ex # "usb")
            \/ Told(c, Ex, FALSE) /\ p.ex = "usb"
            \/ Told(c, Ex, TRUE) /\ p.ex = "rs485" /\ known

\* An exchange fits in a frame, and only a query is answered as one, and never Blaze's.
Fits(payload) == payload \in Seq(Byte) /\ Overhead + Len(payload) \in Word
ASSUME ExchangeAssumption ==
  /\ \A e \in SdkExchanges \cup BlazeExchanges :
       e.id \in Word /\ e.rid \in Word /\ Fits(e.req) /\ Fits(e.rsp)
  /\ \A e \in SdkExchanges : /\ e.to \in Hubs \cup DOMAIN Parent
                             /\ e.rid = QueryInterfaceResponse => e.id = QueryInterface
  /\ \A e \in BlazeExchanges : e.to \in Hubs /\ e.rid # QueryInterfaceResponse

\* What may be a packet's layout, the packet going to addr or coming from it.
MayBe(id, addr) ==
  IF IsStandard(StandardKey(id)) THEN {StandardLayout(StandardKey(id))}
  ELSE {UnknownLayout} \cup {LynxLayout(id - Commanded[h].first) : h \in Hubs \cap {addr}}

\* The bytes that into gives for some value: a bool is 0 or 1, a speed one of four or 255.
Canonical(k, b) ==
  /\ k = "bool" => b \in {0, 1}
  /\ k = "speed" => b \in {0, 1, 2, 3, 255}

EndOf(k, data, start) ==
  CASE k = "all"     -> Len(data)
    [] k = "counted" -> start + data[start]
    [] OTHER         -> start + Width[k] - 1

\* No byte reads as another's value, and none is left at the end.
Plain(fields, data) ==
  /\ \A i \in DOMAIN fields : Canonical(fields[i], data[Start(fields, i)])
  /\ IF fields = << >> THEN data = << >>
     ELSE EndOf(Last(fields), data, Start(fields, Len(fields))) = Len(data)

\* The SDK and the hubs send nothing that from_bytes would lose, and Blaze what it encoded.
ASSUME PayloadAssumption ==
  /\ \A e \in SdkExchanges :
       /\ \A lay \in MayBe(e.id, e.to) : Parses(lay.fields, e.req) => Plain(lay.fields, e.req)
       /\ \A lay \in MayBe(e.rid, e.to) : Parses(lay.fields, e.rsp) => Plain(lay.fields, e.rsp)
  /\ \A e \in BlazeExchanges :
       LET fields == LynxLayout(e.id - Commanded[e.to].first).fields
       IN Parses(fields, e.req) /\ Plain(fields, e.req)

\* What Blaze asks a hub for its range with, and what the hub answers.
Deka == << 68, 69, 75, 65, 0 >>
RangeOf(h) == ToLe(2, Commanded[h].first) \o ToLe(2, Commanded[h].count)

VARIABLES
  ex,         \* environment: how the expansion hub is connected
  todo,       \* environment: the calls Java is still to make
  init,       \* whose answer initialize waits for: "ctrl", "rs485", "usb", or "none"
  ctrlInit,   \* CTRL_HUB_MODULE_INIT_DATA: << >> or << addr >>
  exInit,     \* EX_HUB_MODULE_INIT_DATA: << >> or << [loc, addr] >>
  servoInit,  \* SERVO_HUBS_INIT_DATA: [addr, parent]
  servoHubs,  \* SERVO_HUBS: << >> or << sequence >>
  vm,         \* JAVA_VM is set, and Java's streams are closed
  running,    \* RUNNING
  hub0, hub1, \* HUB_0 and HUB_1: << >> or << hub >>, a module and its line
  threads,    \* sets of threads started, by line
  tokens,     \* INTERFACE_QUERY_TRACKER
  down, up,   \* packets on their way to the hubs of a line and back, as bytes
  regular,    \* channel: read proxy to Blaze, by line
  sdkReceive, \* channel: read proxy to the SDK, by line
  buffer,     \* sdk_buffer, by line
  received,   \* sdk_has_received, by line
  had,        \* bytes the SDK's reader already had of a frame when the line was taken over
  heard,      \* bytes it has read of the answer it is in
  asked,      \* the exchange each side has open, << >> or << exchange >>
  lost        \* answers lost

java  == << ex, todo, ctrlInit, exInit, servoInit, servoHubs, vm >>
setup == << init, running, hub0, hub1, threads, tokens >>
lines == << down, up, regular, sdkReceive, asked, lost >>
stream == << buffer, received, had, heard >>
vars  == << java, setup, lines, stream >>

hubs == hub0 \o hub1

Init ==
  /\ \E p \in Plants : ex = p.ex /\ todo = p.calls
  /\ init = "none" /\ tokens = 0 /\ lost = 0
  /\ ctrlInit = << >> /\ exInit = << >> /\ servoInit = << >> /\ servoHubs = << >>
  /\ vm = FALSE /\ running = FALSE
  /\ hub0 = << >> /\ hub1 = << >>
  /\ threads = [l \in Line |-> 0]
  /\ down = [l \in Line |-> << >>] /\ up = [l \in Line |-> << >>]
  /\ regular = [l \in Line |-> << >>] /\ sdkReceive = [l \in Line |-> << >>]
  /\ asked = [w \in {"sdk", "blaze"} |-> << >>]
  /\ buffer = [l \in Line |-> << >>] /\ received = [l \in Line |-> FALSE]
  /\ had = [l \in Line |-> 0] /\ heard = [l \in Line |-> << >>]

Put(channel, l, x) == channel' = [channel EXCEPT ![l] = Append(@, x)]
Drop(channel, l) == channel' = [channel EXCEPT ![l] = Tail(@)]

\* The hardware write thread of a line.
Wire(l, p) == IF l = "usb" THEN Encode(p) ELSE IntoBytes(p)

-----------------------------------------------------------------------------
(* What Java tells.                                                        *)

Call(kind) == init = "none" /\ todo # << >> /\ Head(todo).call = kind /\ todo' = Tail(todo)

\* Mutant: the latest module with a descriptor takes the place of the control hub.
InformOfModuleLast ==
  /\ Call("module")
  /\ ctrlInit' = IF Head(todo).fd THEN << Head(todo).addr >> ELSE ctrlInit
  /\ exInit' = IF exInit = << >> /\ (ctrlInit # << >> \/ ~ Head(todo).fd)
               THEN << [loc |-> IF Head(todo).fd THEN "rs485" ELSE "usb", addr |-> Head(todo).addr] >>
               ELSE exInit
  /\ UNCHANGED << ex, servoInit, servoHubs, vm, setup, lines, stream >>

\* No descriptor: a hub on USB.  The first module with one is the control hub, the
\* second hangs from it; "parent" is not looked at.
InformOfModule ==
  /\ Call("module")
  /\ LET addr == Head(todo).addr
         fd   == Head(todo).fd
     IN /\ ctrlInit' = IF fd /\ ctrlInit = << >> THEN << addr >> ELSE ctrlInit
        /\ exInit' = CASE exInit # << >>                     -> exInit
                       [] exInit = << >> /\ ~ fd             -> << [loc |-> "usb", addr |-> addr] >>
                       [] exInit = << >> /\ fd /\ ctrlInit # << >> ->
                            << [loc |-> "rs485", addr |-> addr] >>
                       [] OTHER                              -> exInit
  /\ UNCHANGED << ex, servoInit, servoHubs, vm, setup, lines, stream >>

InformOfServoHub ==
  /\ Call("servo")
  /\ servoInit' = Append(servoInit, [addr |-> Head(todo).addr, parent |-> Parent[Head(todo).addr]])
  /\ UNCHANGED << ex, ctrlInit, exInit, servoHubs, vm, setup, lines, stream >>

-----------------------------------------------------------------------------
(* initialize.                                                             *)

\* Module::generate_module, up to where it waits: one token, one query with number 0.
Query(addr, l, who) ==
  LET p == NewFull(StandardLayout(QueryInterface), QueryInterface, << Deka >>, addr, 0, 0, 0)
  IN /\ init' = who
     /\ tokens' = tokens + 1
     /\ Put(down, l, Wire(l, p))

\* initializeMostHw: the first time, and whatever comes of it there is no second.  It
\* fails if there is no control hub or its port does not open.
InitializeMostHw ==
  /\ Call("initialize")
  /\ ~ vm
  /\ vm' = TRUE
  /\ servoHubs' = IF servoHubs = << >> THEN << servoInit >> ELSE servoHubs
  /\ \/ /\ ctrlInit # << >>
        /\ running' = TRUE
        /\ threads' = [threads EXCEPT !["serial"] = @ + 1]
        /\ Query(ctrlInit[1], "serial", "ctrl")
     \/ UNCHANGED << running, threads, init, tokens, down >>
  /\ UNCHANGED << ex, ctrlInit, exInit, servoInit, hub0, hub1, up, regular, sdkReceive, asked,
                  lost, stream >>

\* Again, for a hub on USB.  If the first time has failed the new proxies end at once, and
\* with them the channel the query goes through.
InitializeUsbExhub ==
  /\ Call("initialize")
  /\ Alone => \A i \in DOMAIN asked["sdk"] : asked["sdk"][i].id # QueryInterface
  /\ vm
  /\ Head(todo).usb /\ exInit # << >> /\ hub1 = << >>
  /\ threads' = [threads EXCEPT !["usb"] = @ + 1]
  /\ \/ running /\ Query(exInit[1].addr, "usb", "usb")
     \/ ~ running /\ tokens' = tokens + 1 /\ UNCHANGED << init, down >>
  /\ UNCHANGED << ex, ctrlInit, exInit, servoInit, servoHubs, vm, running, hub0, hub1, up,
                  regular, sdkReceive, asked, lost, stream >>

AlreadyInitialized ==
  /\ Call("initialize")
  /\ vm
  /\ ~ (Head(todo).usb /\ exInit # << >> /\ hub1 = << >>)
  /\ UNCHANGED << ex, ctrlInit, exInit, servoInit, servoHubs, vm, setup, lines, stream >>

\* try_get_packet and from_deka_discovery: a response, whoever sent it, makes the module.
IsResponseData(p) == p.id = QueryInterfaceResponse

NewHub(addr, p, l) ==
  << [addr |-> addr, first |-> p.values[1], count |-> p.values[2], line |-> l] >>

Waiting == IF init = "usb" THEN "usb" ELSE "serial"

CtrlHubReady(p) ==
  /\ init = "ctrl"
  /\ hub0' = NewHub(ctrlInit[1], p, "serial")
  /\ IF exInit # << >> /\ exInit[1].loc = "rs485"
     THEN Query(exInit[1].addr, "serial", "rs485")
     ELSE init' = "none" /\ UNCHANGED << tokens, down >>
  /\ UNCHANGED hub1

ExHubReady(p) ==
  /\ init \in {"rs485", "usb"}
  /\ hub1' = NewHub(exInit[1].addr, p, Waiting)
  /\ init' = "none"
  /\ UNCHANGED << tokens, down, hub0 >>

TryGetPacket ==
  /\ init # "none"
  /\ regular[Waiting] # << >>
  /\ Drop(regular, Waiting)
  /\ LET p == Head(regular[Waiting])
     IN IF IsResponseData(p) THEN CtrlHubReady(p) \/ ExHubReady(p)
        ELSE UNCHANGED << init, tokens, down, hub0, hub1 >>
  /\ UNCHANGED << java, running, threads, up, sdkReceive, asked, lost, stream >>

-----------------------------------------------------------------------------
(* The SDK and Blaze.                                                      *)

Frame(dest, src, msg, ref, id, payload) ==
  LET body == << 68, 75 >> \o ToLe(2, Overhead + Len(payload)) \o << dest, src, msg, ref >>
                \o ToLe(2, id) \o payload
  IN Append(body, Checksum(body))

\* get_servo_module_parent, or else the module itself.
ParentOf(addr) ==
  IF Known(servoHubs[1], addr) = {} THEN addr ELSE ModuleAt(servoHubs[1], addr).parent

\* Is there a hub that write hands a packet to, HUB_0 first?  If not, it is dropped.
Routed(dest) == Known(hubs, dest) # {}

\* JNI write, and the proxy of the line.  A write before HUB_0 is set panics and stops
\* every line; the environment does not write then.
SdkWrite(e) ==
  LET bytes == Frame(e.to, 0, SdkNum, 0, e.id, e.req)
      p     == Renumber(FromData(hubs, bytes), ProxyNum)
      dest  == ParentOf(e.to)
  IN /\ running /\ asked["sdk"] = << >> /\ hub0 # << >>
     /\ Alone => (init # "none" => e.id # QueryInterface)
     /\ running' = Decodes(hubs, bytes)
     /\ IF Decodes(hubs, bytes) /\ Routed(dest)
        THEN LET l == ModuleAt(hubs, dest).line
             IN asked' = [asked EXCEPT !["sdk"] = << e >>] /\ Put(down, l, Wire(l, p))
        ELSE UNCHANGED << asked, down >>
     /\ UNCHANGED << java, init, hub0, hub1, threads, tokens, up, regular, sdkReceive, lost, stream >>

\* send_lynx_packet of a hub, by a thread of an OpMode, which runs when initialize has
\* returned once.
BlazeSend(h, e) ==
  LET key == e.id - Commanded[e.to].first
      lay == LynxLayout(key)
      p   == Renumber(NewFull(lay, h.first + key, Parse(lay.fields, e.req),
                              h.addr, 0, 0, 0), BlazeNum)
  IN /\ running /\ asked["blaze"] = << >> /\ init \in {"none", "usb"}
     /\ h.addr = e.to
     /\ asked' = [asked EXCEPT !["blaze"] = << e >>]
     /\ Put(down, h.line, Wire(h.line, p))
     /\ UNCHANGED << java, setup, up, regular, sdkReceive, lost, stream >>

\* JNI read: the line of the hub with that number, or else of HUB_0.  Proxy::read works
\* the checksum out anew.
ReadLine(connection) ==
  IF Routed(connection) THEN ModuleAt(hubs, connection).line ELSE hub0[1].line

\* What the reader asks for: before its first read the environment says; then the head of a
\* frame, and then the rest, which it takes as it comes.
Asks(l) == IF heard[l] = << >> THEN HeadAsked ELSE RestAsked

\* Mutant: each answer's head is dropped.
DroppedAlways(l, len) == CASE len = 1 -> 0 [] len = 2 -> 2 [] OTHER -> 4

\* Of the first answer the reader is taken to have had what its first request is not for.
Dropped(l, len) ==
  CASE received[l] \/ len = 1  -> 0
    [] ~ received[l] /\ len = 2 -> 2
    [] OTHER                    -> 4

\* Proxy::read takes the next packet when the last has been read to its end, and gives no
\* more than that.
Take(l, len) ==
  LET bytes == IF buffer[l] = << >> THEN IntoBytes(Head(sdkReceive[l])) ELSE buffer[l]
      left  == SubSeq(bytes, Dropped(l, len) + 1, Len(bytes))
  IN /\ IF buffer[l] = << >> THEN Drop(sdkReceive, l) ELSE UNCHANGED sdkReceive
     /\ heard' = [heard EXCEPT ![l] = @ \o SubSeq(left, 1, IF len < Len(left) THEN len ELSE Len(left))]
     /\ buffer' = [buffer EXCEPT ![l] = SubSeq(left, len + 1, Len(left))]
     /\ received' = [received EXCEPT ![l] = TRUE]

SdkRead(connection) ==
  LET l == ReadLine(connection)
  IN /\ hub0 # << >>
     /\ buffer[l] # << >> \/ sdkReceive[l] # << >>
     /\ \/ received[l] /\ Take(l, Asks(l)) /\ UNCHANGED had
        \/ /\ ~ received[l]
           /\ \E r \in Readers : Take(l, r.asks) /\ had' = [had EXCEPT ![l] = r.had]
     /\ UNCHANGED << java, setup, down, up, regular, asked, lost >>

\* The SDK's reader has the whole answer.
SdkDone(l) ==
  /\ heard[l] # << >> /\ buffer[l] = << >>
  /\ heard' = [heard EXCEPT ![l] = << >>]
  /\ had' = [had EXCEPT ![l] = 0]
  /\ asked' = [asked EXCEPT !["sdk"] = << >>]
  /\ UNCHANGED << java, setup, down, up, regular, sdkReceive, lost, buffer, received >>

\* The reactor of an OpMode.
BlazeRead(l) ==
  /\ \/ init = "none"
     \/ init = "usb" /\ l = "serial"
  /\ regular[l] # << >>
  /\ Drop(regular, l)
  /\ asked' = [asked EXCEPT !["blaze"] = << >>]
  /\ UNCHANGED << java, setup, down, up, sdkReceive, lost, stream >>

-----------------------------------------------------------------------------
(* The lines.                                                              *)

HubOf(addr) == IF addr \in DOMAIN Parent THEN Parent[addr] ELSE addr
LineOf(addr) == IF ex = "usb" /\ HubOf(addr) = Ex THEN "usb" ELSE "serial"

\* A hub answers what is addressed to it, with the number it was asked with.
AnswerTo(request) ==
  LET to == request[5]  n == request[7]
  IN CASE n = 0        -> Frame(0, to, 0, 0, QueryInterfaceResponse, RangeOf(to))
       [] n = ProxyNum -> LET e == asked["sdk"][1] IN Frame(0, to, n, n, e.rid, e.rsp)
       [] n = BlazeNum -> LET e == asked["blaze"][1] IN Frame(0, to, n, n, e.rid, e.rsp)

HubAnswer(l) ==
  /\ down[l] # << >>
  /\ Drop(down, l)
  /\ IF LineOf(Head(down[l])[5]) = l THEN Put(up, l, AnswerTo(Head(down[l]))) ELSE UNCHANGED up
  /\ UNCHANGED << java, setup, regular, sdkReceive, asked, lost, stream >>

\* The side that waits gives up, in its own time; its number is not used meanwhile.
LoseAnswer(l, w) ==
  /\ lost < MaxLost
  /\ up[l] # << >> /\ Head(up[l])[7] = (IF w = "sdk" THEN ProxyNum ELSE BlazeNum)
  /\ Drop(up, l)
  /\ asked' = [asked EXCEPT ![w] = << >>]
  /\ lost' = lost + 1
  /\ UNCHANGED << java, setup, down, regular, sdkReceive, stream >>

\* Mutant: the answer is passed on and its token kept.
ReadProxyKept(l, p) ==
  IF p.ref = ProxyNum /\ ~ (IsResponseData(p) /\ tokens > 0)
  THEN Put(sdkReceive, l, [p EXCEPT !.msg = SdkNum, !.ref = SdkNum])
         /\ UNCHANGED << tokens, regular >>
  ELSE Put(regular, l, p) /\ UNCHANGED << tokens, sdkReceive >>

\* Where the read proxy sends a packet: the answer of a query somebody waits for is
\* Blaze's, whichever line it comes on.
ReadProxy(l, p) ==
  CASE IsResponseData(p) /\ tokens > 0 ->
         tokens' = tokens - 1 /\ Put(regular, l, p) /\ UNCHANGED sdkReceive
    [] ~ (IsResponseData(p) /\ tokens > 0) /\ p.ref = ProxyNum ->
         Put(sdkReceive, l, [p EXCEPT !.msg = SdkNum, !.ref = SdkNum])
           /\ UNCHANGED << tokens, regular >>
    [] OTHER -> Put(regular, l, p) /\ UNCHANGED << tokens, sdkReceive >>

\* The read thread decodes, with what is known of the hubs by now.
ReadThread(l) ==
  LET bytes == Head(up[l])
      fine  == Decodes(hubs, bytes) /\ (hub1 # << >> => hub0 # << >>)
  IN /\ running /\ up[l] # << >>
     /\ Drop(up, l)
     /\ running' = fine
     /\ IF fine /\ Valid(bytes) THEN ReadProxy(l, FromData(hubs, bytes))
        ELSE UNCHANGED << tokens, regular, sdkReceive >>
     /\ UNCHANGED << java, init, hub0, hub1, threads, down, asked, lost, stream >>

-----------------------------------------------------------------------------
Java == InformOfModule \/ InformOfServoHub \/ InitializeMostHw \/ InitializeUsbExhub
          \/ AlreadyInitialized

Next ==
  \/ Java
  \/ TryGetPacket
  \/ \E e \in SdkExchanges : SdkWrite(e)
  \/ \E h \in ToSet(hubs), e \in BlazeExchanges : BlazeSend(h, e)
  \/ \E c \in Hubs : SdkRead(c)
  \/ \E l \in Line : SdkDone(l) \/ BlazeRead(l) \/ HubAnswer(l) \/ ReadThread(l)
  \/ \E l \in Line, w \in {"sdk", "blaze"} : LoseAnswer(l, w)

Spec == Init /\ [][Next]_vars

-----------------------------------------------------------------------------
(* Properties.                                                             *)

\* HUB_1 is not there without HUB_0, which decoding takes for granted ("NO HUB 0",
\* "no hub 0!"); HUB_0 is the control hub, and each has its own range of commands
\* although initialize takes any module's answer for the one it waits for.
HubsKnown ==
  /\ hub1 # << >> => hub0 # << >> /\ hub0[1].addr # hub1[1].addr
  /\ hub0 # << >> => hub0[1].addr = Ctrl
  /\ \A i \in DOMAIN hubs : /\ hubs[i].first = Commanded[hubs[i].addr].first
                            /\ hubs[i].count = Commanded[hubs[i].addr].count
                            /\ hubs[i].line = LineOf(hubs[i].addr)

\* The answer that initialize waits for, without a timeout, is not given to anyone else
\* (read_proxy.rs:34): while it waits there is one query of Blaze, its answer still to come
\* on the line it listens to, and one token that says so; otherwise there is neither, and
\* the SDK gets the answers to its own queries.
Queries(packets) == {i \in DOMAIN packets : packets[i][7] = 0}
Answers(packets) == {i \in DOMAIN packets : IsResponseData(packets[i])}
OnLine(l) == Cardinality(Queries(down[l])) + Cardinality(Queries(up[l]))
AnswerKept ==
  running =>
    /\ tokens = OnLine("serial") + OnLine("usb")
    /\ (IF init = "none" THEN 0 ELSE 1) = tokens + Cardinality(Answers(regular[Waiting]))
    /\ init # "none" => tokens = OnLine(Waiting)

\* What reaches a line is, byte for byte, what the SDK wrote or a handler of Blaze meant,
\* but for the numbers, and it is the line of the module it is for: decoding and encoding
\* again loses nothing, whatever is known of the hubs at the time.
Meant(bytes) ==
  LET e == asked[IF bytes[7] = ProxyNum THEN "sdk" ELSE "blaze"][1]
  IN bytes = Frame(e.to, 0, bytes[7], bytes[7], e.id, e.req)
AsMeant ==
  \A l \in Line : \A i \in DOMAIN down[l] :
    /\ LineOf(down[l][i][5]) = l
    /\ down[l][i][7] # 0 => Meant(down[l][i])

\* What the SDK reads is, byte for byte and on each line, what the hub answered, with the
\* number the SDK asked with; and its reader stays in step although it may have had the
\* head of a frame when the streams were changed under it (proxy.rs:97-121).
Answer == LET e == asked["sdk"][1] IN Frame(0, e.to, SdkNum, SdkNum, e.rid, e.rsp)
AsAnswered ==
  \A l \in Line :
    /\ \A i \in DOMAIN sdkReceive[l] : IntoBytes(sdkReceive[l][i]) = Answer
    /\ heard[l] # << >> =>
         heard[l] \o buffer[l] = SubSeq(Answer, had[l] + 1, Len(Answer))

\* Blaze's handlers see the answer as the command it is of the hub they asked, not of
\* the other hub and not as an unknown one.
Recognised ==
  \A l \in Line : \A i \in DOMAIN regular[l] :
    LET p == regular[l][i]
        e == asked["blaze"][1]
        lay == LayoutOf(<< [addr |-> e.to, first |-> Commanded[e.to].first, count |-> Commanded[e.to].count] >>,
                        [dest |-> 0, src |-> e.to, id |-> e.rid])
    IN p.ref = BlazeNum => p.layout = lay /\ p.values = Parse(lay.fields, e.rsp)

=============================================================================
