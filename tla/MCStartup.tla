------------------------------ MODULE MCStartup ------------------------------
(* Instances of Startup: how hubs may be connected and what Java then calls, *)
(* and one exchange at least for each layout, with numbers at their limits.  *)
EXTENDS Startup

Servo == 5

\* Between frames' bytes, after the start bytes, or after the length.
MCReaders == { [had |-> 0, asks |-> 1], [had |-> 2, asks |-> 2], [had |-> 4, asks |-> 64] }
MCParent == [a \in {Servo} |-> Ex]
MCCommanded == [a \in Hubs |-> IF a = Ctrl THEN [first |-> 4096, count |-> 66]
                                       ELSE [first |-> 4128, count |-> 66]]

Tells(addr, fd) == [call |-> "module", addr |-> addr, fd |-> fd]
TellsServo      == [call |-> "servo", addr |-> Servo]
Initialize(usb)     == [call |-> "initialize", usb |-> usb]

MCPlants ==
  { [ex |-> "none", calls |-> << Tells(Ctrl, TRUE), Initialize(FALSE), Tells(Ctrl, TRUE), Initialize(FALSE) >>],
    [ex |-> "none", calls |-> << Initialize(FALSE), Tells(Ctrl, TRUE), Initialize(FALSE) >>],
    [ex |-> "rs485", calls |-> << Tells(Ctrl, TRUE), TellsServo, Tells(Ex, TRUE), Initialize(FALSE),
                                  Tells(Ex, TRUE), Initialize(FALSE) >>],
    [ex |-> "usb", calls |-> << Tells(Ex, FALSE), Tells(Ctrl, TRUE), TellsServo, Initialize(TRUE),
                                Initialize(TRUE), Initialize(TRUE) >>] }

Exchange(to, id, req, rid, rsp) == [to |-> to, id |-> id, req |-> req, rid |-> rid, rsp |-> rsp]

Acked(to, key, req) == Exchange(to, MCCommanded[to].first + key, req, ACK, << 1 >>)
Responded(to, key, req, rsp) ==
  Exchange(to, MCCommanded[to].first + key, req, MCCommanded[to].first + key + ResponseBit, rsp)

Neg == << 1, 255, 254, 128 >>
Pos == << 255, 0, 2, 127 >>

MCSdkExchanges ==
  { Acked(Ctrl, 15, << 3, 1, 128 >>), Acked(Ex, 33, << 5, 255, 255 >>),
    Acked(Ctrl, 10, << 2, 1 >>), Acked(Ex, 8, << 1, 2, 1 >>),
    Responded(Ctrl, 7, << 14, 1 >>, << 0, 128 >>), Responded(Ex, 9, << 3 >>, << 2, 0 >>),
    Responded(Ex, 0, << >>, << 7 >> \o Neg \o Pos \o Neg \o Pos \o << 9, 0, 128, 255, 127, 1, 0, 255,
                             255, 44, 1, 2, 3, 4, 5, 6, 7 >>),
    Acked(Ctrl, 38, << 1, 50, 2, 68, 75 >>), Acked(Ctrl, 37, << 1, 50, 9 >>),
    Acked(Ctrl, 52, << 1, 50, 4, 8 >>), Responded(Ctrl, 41, << 1 >>, << 0, 4 >> \o Pos),
    Responded(Ctrl, 42, << 1 >>, << 0, 2 >>), Acked(Ctrl, 43, << 1, 3 >>),
    Acked(Ctrl, 51, << 0, 1 >> \o Pos \o Neg \o Pos \o Neg \o << 1 >>),
    Acked(Ctrl, 17, << 0, 5, 255 >>), Acked(Ex, 19, << 3 >> \o Neg \o << 5, 0 >>),
    Responded(Ctrl, 66, << 1, 2, 3 >>, << 4, 5 >>),
    Exchange(Ctrl, KeepAlive, << >>, NACK, << 50 >>),
    Exchange(Ctrl, QueryInterface, << 68, 69, 75, 65, 0 >>, QueryInterfaceResponse, << 0, 16, 66, 0 >>),
    Exchange(Ex, QueryInterface, << 68, 69, 75, 65, 0 >>, QueryInterfaceResponse, << 32, 16, 66, 0 >>),
    Exchange(Servo, 4200, << 1, 2, 3 >>, 4200 + ResponseBit, << 3 >>),
    Exchange(Ctrl, 32515, << >>, 32515 + ResponseBit, << 0, 4 >>) }

MCBlazeExchanges ==
  { Acked(Ctrl, 15, << 3, 1, 128 >>), Acked(Ex, 51, << 0, 1 >> \o Pos \o Neg \o Pos \o Neg \o << 1 >>),
    Responded(Ctrl, 41, << 1 >>, << 0, 2, 9, 8 >>),
    Responded(Ex, 0, << >>, << 7 >> \o Neg \o Pos \o Neg \o Pos \o << 9, 0, 128, 255, 127, 1, 0, 255,
                             255, 44, 1, 2, 3, 4, 5, 6, 7 >>) }

=============================================================================
