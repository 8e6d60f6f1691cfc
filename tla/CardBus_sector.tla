---------------------------- MODULE CardBus_sector ----------------------------
(* Every byte of the sector in RAM is a card's own or the one the console   *)
(* sent for that place: handler and FIFO are in step with the console, or   *)
(* so far behind it that no address they see is that of the sector.         *)
EXTENDS CardBus_proofs

LEMMA SentFacts ==
    /\ \A c \in DOMAIN Code, k \in Nat \ {0} :
          Sent(c, k) = "msb" <=> c \in {"read", "write"} /\ k = 5
    /\ \A c \in DOMAIN Code : Sent(c, 1) \in {"81", "01"} /\ Sent(c, 2) = Code[c]
    /\ Sent("write", 6) = "lsb"
    /\ \A i \in Indices : Sent("write", 6 + i) = Data(i)
<1>1. ASSUME NEW c \in DOMAIN Code PROVE Sent(c, 1) \in {"81", "01"} /\ Sent(c, 2) = Code[c]
  BY DEF Sent, Top
<1>2. ASSUME NEW c \in DOMAIN Code, NEW k \in Nat \ {0}
      PROVE  Sent(c, k) = "msb" <=> c \in {"read", "write"} /\ k = 5
  <2>1. Sent(c, 1) # "msb" /\ Sent(c, 2) # "msb"
    BY <1>1 DEF Code
  <2>2. k \notin {1, 2} => Sent(c, k) = Payload(c, k)
    BY DEF Sent
  <2>3. Payload(c, k) = "msb" <=> c \in {"read", "write"} /\ k = 5
    BY CodeFacts, ExchangesFacts DEF Payload, Data, Indices
  <2> QED
    BY <2>1, <2>2, <2>3
<1>3. Sent("write", 6) = "lsb"
  BY ExchangesFacts DEF Sent, Payload, Indices
<1>4. ASSUME NEW i \in Indices PROVE Sent("write", 6 + i) = Data(i)
  <2>1. 6 + i \notin {1, 2, 5, 6} /\ 6 + i - 6 = i
    BY ExchangesFacts DEF Indices
  <2>2. Sent("write", 6 + i) = Payload("write", 6 + i)
    BY <2>1 DEF Sent
  <2> QED
    BY <2>1, <2>2, ExchangesFacts DEF Payload, Indices
<1> QED
  BY <1>1, <1>2, <1>3, <1>4

-----------------------------------------------------------------------------
(* What the steps need of types and control. *)

Stream == InStep \/ Behind \/ Misled

LEMMA StreamTypes ==
    ASSUME Control
    PROVE  /\ rx \in Seq(Bytes) /\ Len(rx) \in Nat /\ tx \in Seq(Bytes) /\ Len(tx) \in Nat
           /\ (rx = <<>> <=> Len(rx) = 0)
           /\ hpos \in Nat /\ Taken \in Nat /\ Pending \in Nat /\ Owing \in {0, 1, 2}
           /\ clocked \in Nat /\ (con = "none" => clocked = 0)
           /\ con \in DOMAIN Code \cup {"none"}
           /\ FifoDepth \in Nat /\ FifoDepth >= 3
<1>1. rx \in Seq(Bytes) /\ tx \in Seq(Bytes)
  BY DEF Control, OtherTypes
<1>2. hpos \in Nat
  BY HandlerRange, CodeFacts, ExchangesFacts DEF Control, HandlerTypes
<1>3. con \in DOMAIN Code \cup {"none"} /\ "none" \notin DOMAIN Code
  BY BusAssumption, CodeFacts DEF Control, OtherTypes
<1>4. clocked \in Nat /\ (con = "none" => clocked = 0)
  BY <1>3, CodeFacts, ExchangesFacts DEF Control, OtherTypes, Length
<1>5. Len(rx) \in Nat /\ Len(tx) \in Nat /\ (rx = <<>> <=> Len(rx) = 0)
  BY <1>1, EmptySeq
<1> QED
  BY <1>1, <1>2, <1>3, <1>4, <1>5, ExchangesFacts DEF Taken, Pending, Owing

LEMMA InitStream == Init => StreamInv
BY DEF Init, StreamInv, InStep, Receiving, Taken, Pending, Owing, Selected

-----------------------------------------------------------------------------
(* The console and the state machines. *)

LEMMA SelectStream ==
    ASSUME Control, StreamInv, NEW c \in Commands, Select(c) PROVE StreamInv'
<1>1. /\ ~Selected /\ con = "none" /\ con' = c /\ clocked = 0 /\ irq # "reset"
      /\ sm' = IF sm = "waiting" THEN "running" ELSE sm
      /\ UNCHANGED <<clocked, rx, tx, osr, edge, irq, cut, main, hcmd, hpos, hstep, addr>>
  BY StreamTypes DEF Select, Selected, isr, handler, cards
<1>2. Selected'
  BY <1>1, BusAssumption DEF Selected
<1>3. SUFFICES ASSUME Calm, ~cut PROVE Stream'
  BY <1>1, <1>2 DEF StreamInv, Calm, Stream
<1>4. edge = 0
  BY <1>1, <1>3 DEF Select, Calm, Control, OtherTypes, ControlInv, Latching
<1>5. rx = <<>> /\ Len(rx) = 0 /\ Pending + Owing <= 2 /\ ~Receiving
  BY <1>1, <1>3, <1>4, StreamTypes DEF StreamInv, Control, ControlInv, Quiet
<1>6. /\ Taken' = Taken /\ Pending' = Pending /\ Owing' = Owing /\ Receiving' = Receiving
      /\ Taken = IF hcmd = "mc" THEN 1 ELSE 0
  BY <1>1, <1>5 DEF Taken, Pending, Owing, Receiving
<1>7. sm' \in {"running", "disabled", "shifted"}
  BY <1>1 DEF Control, OtherTypes
<1>8. CASE con' \notin {"read", "write"} \/ sm' # "running"
  BY <1>1, <1>5, <1>6, <1>7, <1>8 DEF Stream, Behind
<1>9. CASE sm' = "running" /\ hcmd = "mc"
  BY <1>1, <1>5, <1>9 DEF Stream, Misled
<1>10. CASE con' \in {"read", "write"} /\ sm' = "running" /\ hcmd # "mc"
  BY <1>1, <1>5, <1>6, <1>10, StreamTypes DEF Stream, InStep
<1> QED
  BY <1>8, <1>9, <1>10

LEMMA ClockStream ==
    ASSUME Control, StreamInv, Clock PROVE StreamInv'
<1> DEFINE byte == IF sm = "shifted" THEN "garbage" ELSE Sent(con, clocked + 1)
<1>1. /\ Selected /\ con' = con /\ sm' = sm /\ clocked' = clocked + 1
      /\ acked' = FALSE /\ osr' = "none" /\ (clocked = 0 \/ acked \/ con = "pad")
      /\ rx' = IF sm # "disabled" /\ Len(rx) < FifoDepth THEN Append(rx, byte) ELSE rx
      /\ UNCHANGED <<tx, edge, irq, cut, main, hcmd, hpos, hstep, addr>>
  BY DEF Clock, isr, handler, cards
<1>2. /\ con \in DOMAIN Code /\ clocked + 1 \in Nat \ {0} /\ byte \in Bytes
      /\ byte = "msb" => \/ /\ con \in {"read", "write"} /\ clocked = 4
                            /\ sm \notin {"disabled", "shifted"}
                         \/ sm = "disabled"
  <2>1. con \in DOMAIN Code /\ clocked \in Nat
    BY <1>1, StreamTypes DEF Selected
  <2>2. Sent(con, clocked + 1) \in Bytes /\ "garbage" \in Bytes
    BY <2>1, SentByte DEF Bytes, Varying
  <2>3. Sent(con, clocked + 1) = "msb" => con \in {"read", "write"} /\ clocked = 4
    BY <2>1, SentFacts
  <2> QED
    BY <2>1, <2>2, <2>3
<1>3. SUFFICES ASSUME Calm, ~cut PROVE Stream'
  BY <1>1 DEF StreamInv, Calm, Stream, Selected
<1>4. Taken' = Taken /\ Owing' = Owing /\ Receiving' = Receiving
  BY <1>1 DEF Taken, Owing, Receiving
<1>5. /\ rx' = Append(rx, byte) => /\ Len(rx') = Len(rx) + 1 /\ rx' # <<>>
                                   /\ \A i \in 1 .. Len(rx) : rx'[i] = rx[i]
                                   /\ rx'[Len(rx) + 1] = byte
  <2> HIDE DEF byte
  <2>1. rx \in Seq(Bytes) /\ byte \in Bytes
    BY <1>2, StreamTypes
  <2> QED
    BY <2>1, AppendProperties
<1> HIDE DEF byte
<1>6. CASE InStep
  <2>1. PICK c \in {"read", "write"} :
           /\ \A i \in 1 .. Len(rx) : rx[i] = Sent(c, Taken + i)
           /\ Receiving => /\ c = "write"
                           /\ hpos >= 4 => addr[1] = "msb"
                           /\ hpos >= 5 => addr[2] = "lsb"
           /\ con = c /\ sm = "running" /\ clocked = Taken + Len(rx)
           /\ clocked > 0 /\ acked => osr # "none"
           /\ Len(rx) + Pending + Owing <= IF clocked = 0 THEN 2 ELSE 3
    BY <1>1, <1>6 DEF InStep
  <2>2. clocked > 0 => osr # "none"
    BY <1>1, <2>1, StreamTypes
  <2>3. Pending' = IF osr = "none" THEN Pending ELSE Pending - 1
    BY <1>1, StreamTypes DEF Pending
  <2>4. Len(rx) < FifoDepth /\ Len(rx) + 1 + Pending' + Owing <= 3
    <3>1. osr # "none" => Pending >= 1
      BY StreamTypes DEF Pending
    <3>2. /\ Len(rx) \in Nat /\ Pending \in Nat /\ Owing \in Nat /\ clocked \in Nat
          /\ FifoDepth \in Nat /\ FifoDepth >= 3
      BY StreamTypes
    <3>3. Len(rx) + Pending + Owing <= IF clocked = 0 THEN 2 ELSE 3
      BY <2>1
    <3> QED
      BY ONLY <2>2, <2>3, <3>1, <3>2, <3>3
  <2>5. rx' = Append(rx, byte) /\ byte = Sent(c, Taken + (Len(rx) + 1))
    BY <1>1, <2>1, <2>4, StreamTypes DEF byte
  <2>6. \A i \in 1 .. Len(rx') : rx'[i] = Sent(c, Taken' + i)
    <3> SUFFICES ASSUME NEW i \in 1 .. Len(rx') PROVE rx'[i] = Sent(c, Taken' + i)
      OBVIOUS
    <3>1. i \in 1 .. Len(rx) \/ i = Len(rx) + 1
      BY <1>5, <2>5, StreamTypes
    <3>2. i \in 1 .. Len(rx) => rx'[i] = rx[i] /\ rx[i] = Sent(c, Taken + i)
      BY <1>5, <2>1, <2>5
    <3>3. rx'[Len(rx) + 1] = Sent(c, Taken + (Len(rx) + 1))
      BY <1>5, <2>5
    <3> QED
      BY <1>4, <3>1, <3>2, <3>3
  <2>7. /\ clocked' = Taken' + Len(rx') /\ Len(rx') + Pending' + Owing' <= 3
        /\ clocked' # 0 /\ con' = c /\ sm' = "running"
    BY <1>1, <1>4, <1>5, <2>1, <2>4, <2>5, StreamTypes
  <2> QED
    BY <1>1, <1>4, <2>1, <2>6, <2>7 DEF Stream, InStep
<1>7. CASE Behind
  <2>1. /\ \A i \in 1 .. Len(rx) : rx[i] = "msb" => Taken + i < 5
        /\ con \notin {"read", "write"} \/ sm \in {"disabled", "shifted"}
           \/ clocked >= 5 \/ Taken + Len(rx) < clocked
    BY <1>1, <1>7 DEF Behind
  <2>2. CASE rx' = rx
    BY <1>1, <1>4, <1>7, <2>1, <2>2, StreamTypes DEF Stream, Behind
  <2>3. CASE rx' = Append(rx, byte) /\ sm # "disabled"
    <3>1. byte = "msb" => Taken + (Len(rx) + 1) < 5
      BY <1>2, <2>1, <2>3, StreamTypes DEF byte
    <3>2. \A i \in 1 .. Len(rx') : rx'[i] = "msb" => Taken' + i < 5
      BY <1>4, <1>5, <2>1, <2>3, <3>1, StreamTypes
    <3>3. \/ con' \notin {"read", "write"} \/ sm' \in {"disabled", "shifted"}
          \/ clocked' >= 5 \/ Taken' + Len(rx') < clocked'
      BY <1>1, <1>4, <1>5, <2>1, <2>3, StreamTypes
    <3> QED
      BY <1>1, <1>4, <1>7, <3>2, <3>3 DEF Stream, Behind
  <2> QED
    BY <1>1, <2>2, <2>3
<1>8. CASE Misled
  <2>1. /\ hcmd = "mc" /\ irq # "reset" /\ sm = "running" /\ Len(rx) <= clocked
        /\ rx # <<>> => rx[1] \in {"81", "01"}
        /\ \A i \in 1 .. Len(rx) : rx[i] = "msb" => i <= 5
        /\ rx = <<>> => clocked = 0
    BY <1>1, <1>8 DEF Misled
  <2>2. CASE rx' = rx
    BY <1>1, <2>1, <2>2, StreamTypes DEF Stream, Misled
  <2>3. CASE rx' = Append(rx, byte)
    <3>1. rx'[1] \in {"81", "01"}
      BY <1>2, <1>5, <2>1, <2>3, SentFacts, StreamTypes DEF byte
    <3>2. \A i \in 1 .. Len(rx') : rx'[i] = "msb" => i <= 5
      BY <1>2, <1>5, <2>1, <2>3, StreamTypes
    <3> QED
      <4>1. rx' # <<>> /\ Len(rx') <= clocked' /\ irq' = irq
        BY <1>1, <1>5, <2>1, <2>3, StreamTypes
      <4> QED
        BY <1>1, <2>1, <3>1, <3>2, <4>1 DEF Stream, Misled
  <2> QED
    BY <1>1, <2>2, <2>3
<1> QED
  BY <1>3, <1>6, <1>7, <1>8 DEF StreamInv

LEMMA StopStream ==
    ASSUME Control, StreamInv, GiveUp \/ Abort PROVE StreamInv'
<1>1. /\ Selected /\ ~Selected' /\ edge' > 0 /\ irq' = IF irq = "late" THEN "off" ELSE irq
      /\ UNCHANGED <<rx, tx, osr, cut, main, hcmd, hpos, hstep, addr>>
  BY DEF GiveUp, Abort, Deselect, Selected, pio, handler, cards, Control, OtherTypes
<1>2. SUFFICES ASSUME Calm', ~cut PROVE Stream'
  BY <1>1 DEF StreamInv, Stream
<1>3. Calm /\ irq' = irq
  BY <1>1, <1>2 DEF Calm, Control, ControlInv, Latching
<1>4. Taken' = Taken /\ Receiving' = Receiving
  BY <1>1, <1>3 DEF Taken, Receiving
<1>5. Stream
  BY <1>2, <1>3 DEF StreamInv, Stream
<1> QED
  BY <1>1, <1>3, <1>4, <1>5 DEF Stream, InStep, Behind, Misled

LEMMA PullStream ==
    ASSUME Control, StreamInv, Pull PROVE StreamInv'
<1>1. /\ osr = "none" /\ osr' # "none" /\ Len(tx') = Len(tx) - 1
      /\ UNCHANGED <<con, clocked, sm, rx, edge, irq, cut, main, hcmd, hpos, hstep, addr>>
  <2>1. tx \in Seq(Bytes) /\ tx # <<>> /\ "none" \notin Bytes
    BY DEF Pull, PullReady, Control, OtherTypes, Bytes, Varying
  <2> QED
    BY <2>1, HeadTailProperties DEF Pull, PullReady, isr, handler, cards
<1>2. /\ Taken' = Taken /\ Receiving' = Receiving /\ Owing' = Owing /\ Pending' = Pending
      /\ Calm' = Calm /\ Selected' = Selected
  BY <1>1, StreamTypes DEF Taken, Receiving, Owing, Pending, Calm, Selected
<1>3. Stream => Stream'
  BY <1>1, <1>2 DEF Stream, InStep, Behind, Misled
<1> QED
  BY <1>1, <1>2, <1>3 DEF StreamInv, Stream

-----------------------------------------------------------------------------
(* The interrupt and the main loop. *)

LEMMA ServeEdgeStream ==
    ASSUME Control, StreamInv, ServeEdge PROVE StreamInv'
<1>1. /\ edge > 0 /\ irq' = IF MULTICORE THEN "reset" ELSE "on"
      /\ rx' = <<>> /\ Len(rx') = 0 /\ tx' = <<>> /\ osr' = "none"
      /\ sm' \in Restarted
      /\ cut' = (cut \/ (~MULTICORE /\ hcmd = "write" /\ hpos - 4 <= MC_SEC_SIZE))
      /\ UNCHANGED <<con, clocked, main, hcmd, hpos, hstep, addr, MULTICORE>>
  BY DEF ServeEdge, Restart, console, handler, cards
<1>2. Pending' = 0 /\ Owing' = Owing /\ Owing <= 2 /\ Pending' + Owing' <= 2
  <2>1. Pending' = 0 /\ Owing' = Owing
    BY <1>1 DEF Pending, Owing
  <2> QED
    BY <2>1, StreamTypes
<1>3. Receiving' => cut'
  <2>1. Receiving' => irq' # "reset" /\ hcmd = "write" /\ hpos - 4 <= MC_SEC_SIZE
    BY <1>1, StreamTypes, ExchangesFacts DEF Receiving
  <2> QED
    BY <1>1, <2>1
<1> SUFFICES ASSUME ~Receiving' PROVE Stream'
  BY <1>1, <1>2, <1>3 DEF StreamInv, Stream
<1>4. Selected => Taken' = 0
  <2>1. Selected => main \in {"reconnect", "release"}
    BY <1>1 DEF Control, ControlInv, Latching
  <2>2. Selected /\ ~MULTICORE => hcmd = "top"
    BY <2>1 DEF Control, ControlInv, Ownership
  <2> QED
    BY <1>1, <2>2 DEF Taken
<1>5. CASE ~Selected
  BY <1>1, <1>5 DEF Stream, InStep, Selected
<1>6. CASE Selected /\ (con \notin {"read", "write"} \/ sm' = "shifted" \/ clocked > 0)
  BY <1>1, <1>4, <1>6, StreamTypes DEF Stream, Behind
<1>7. CASE Selected /\ con \in {"read", "write"} /\ sm' = "running" /\ clocked = 0
  BY <1>1, <1>2, <1>4, <1>7, StreamTypes DEF Stream, InStep
<1> QED
  BY <1>1, <1>5, <1>6, <1>7, StreamTypes DEF Restarted

LEMMA ResetCore1Stream ==
    ASSUME Control, StreamInv, ResetCore1 PROVE StreamInv'
<1>1. /\ irq = "reset" /\ irq' = "on" /\ hcmd' = "top" /\ hstep' = "recv"
      /\ UNCHANGED <<con, clocked, acked, sm, rx, tx, osr, edge, cut, main>>
  BY DEF ResetCore1, Reset, Idle, GoTo, console, pio, cards
<1>2. /\ Taken' = 0 /\ Taken = 0 /\ ~Receiving' /\ ~Receiving /\ Owing' = 0
      /\ Pending' = Pending /\ Calm' = Calm /\ Selected' = Selected
  BY <1>1 DEF Taken, Receiving, Owing, Pending, Calm, Selected
<1>3. Stream => Stream'
  BY <1>1, <1>2, StreamTypes DEF Stream, InStep, Behind, Misled
<1> QED
  BY <1>1, <1>2, <1>3, StreamTypes DEF StreamInv, Stream

\* The main loop takes no part in the exchange, but for the reconnection.
LEMMA StreamStays ==
    ASSUME StreamInv, Calm' => Calm, irq' = "reset" <=> irq = "reset",
           UNCHANGED <<con, clocked, acked, sm, rx, tx, osr, edge, cut,
                       hcmd, hpos, hstep, addr>>
    PROVE  StreamInv'
<1>1. /\ Taken' = Taken /\ Receiving' = Receiving /\ Owing' = Owing /\ Pending' = Pending
      /\ Selected' = Selected
  BY DEF Taken, Receiving, Owing, Pending, Selected
<1>2. Stream => Stream'
  BY <1>1 DEF Stream, InStep, Behind, Misled
<1> QED
  BY <1>1, <1>2 DEF StreamInv, Stream

LEMMA ReconnectBeginStream ==
    ASSUME Control, ReconnectBegin PROVE StreamInv'
<1>1. /\ irq # "reset" /\ irq' = IF Selected THEN "late" ELSE "off"
      /\ main = "data" /\ main' = "reconnect"
      /\ rx' = <<>> /\ Len(rx') = 0 /\ tx' = <<>> /\ Len(tx') = 0 /\ osr' = "none"
      /\ UNCHANGED <<MULTICORE, con, edge, hcmd, hstep, hpos>>
  BY DEF ReconnectBegin, MainRuns, Restart, console, handler
<1>2. SUFFICES ASSUME Calm' PROVE Stream' /\ Pending' + Owing' <= 2 /\ ~Receiving'
  BY DEF StreamInv, Stream
<1>3. ~Selected /\ edge = 0
  BY <1>1, <1>2 DEF Calm
<1>4. hcmd = "top"
  BY <1>1, <1>3 DEF Control, ControlInv, Quiet, Ownership
<1>5. Pending' = 0 /\ Owing' = Owing /\ Owing <= 2 /\ ~Receiving'
  BY <1>1, <1>4, StreamTypes DEF Pending, Owing, Receiving
<1>6. Stream'
  BY <1>1, <1>3, <1>5 DEF Stream, InStep, Selected
<1> QED
  BY <1>5, <1>6, StreamTypes

LEMMA MainStream ==
    ASSUME Control, StreamInv, MainNext PROVE StreamInv'
<1>1. CASE StartChange \/ Lock \/ ImportFlag \/ ImportByte
  BY <1>1, StreamStays
     DEF StartChange, Lock, ImportFlag, ImportByte, Calm, console, pio, isr, handler
<1>2. CASE ReconnectEnd
  BY <1>2, StreamStays DEF ReconnectEnd, Calm, console, pio, isr, handler
<1>3. CASE Release
  BY <1>3, StreamStays DEF Release, LatchedServed, Calm, console, pio, isr, handler
<1> QED
  BY <1>1, <1>2, <1>3, ReconnectBeginStream DEF MainNext

-----------------------------------------------------------------------------
(* The handler: it sends, ... *)

LEMMA SendStream ==
    ASSUME Control, StreamInv, Send PROVE StreamInv'
<1>1. /\ UNCHANGED <<con, clocked, acked, sm, rx, osr, edge, irq, cut, main>>
      /\ hstep = "send" /\ Len(tx') = Len(tx) + 1
  <2>1. Out \in Bytes /\ tx \in Seq(Bytes)
    BY OutByte, TypesTogether DEF Control, HandlerTypes, OtherTypes
  <2> QED
    BY <2>1, AppendProperties DEF Send, console, isr, cards
<1>2. /\ Receiving' = Receiving /\ Taken' = Taken /\ (Receiving => addr' = addr /\ hpos' = hpos)
      /\ (hcmd = "mc" => hcmd' = "mc")
      /\ Owing' = Owing - 1
  <2>1. CASE SendOnly /\ hcmd = "id"
    <3>1. hpos = 3 /\ hcmd' = "id" /\ hpos' = 4 /\ hstep' = "send"
      BY <2>1 DEF Send, SendOnly, GoTo
    <3> QED
      BY <1>1, <2>1, <3>1 DEF Receiving, Taken, Owing
  <2>2. CASE SendOnly /\ hcmd # "id"
    <3>1. hcmd \in {"gameid", "refused"} /\ hcmd' = "top" /\ hstep' = "recv"
      BY <2>2 DEF Send, SendOnly, Idle, GoTo
    <3> QED
      BY <1>1, <2>2, <3>1 DEF Receiving, Taken, Owing
  <2>3. CASE ~SendOnly
    <3>1. UNCHANGED <<hcmd, hpos, addr>> /\ hstep' = "recv" /\ ~(hcmd = "id" /\ hpos = 3)
      BY <2>3 DEF Send, SendOnly
    <3> QED
      BY <1>1, <3>1 DEF Receiving, Taken, Owing
  <2> QED
    BY <2>1, <2>2, <2>3
<1>3. Calm' = Calm /\ Selected' = Selected
  BY <1>1 DEF Calm, Selected
<1>4. Pending' = Pending + 1 /\ Len(rx') + Pending' + Owing' = Len(rx) + Pending + Owing
      /\ Pending' + Owing' = Pending + Owing
  <2>1. Pending' = Pending + 1
    BY <1>1, StreamTypes DEF Pending
  <2>2. Len(rx') = Len(rx) /\ Len(rx) \in Nat /\ Pending \in Nat /\ Owing \in {0, 1, 2}
    BY <1>1, StreamTypes
  <2> QED
    BY <1>2, <2>1, <2>2
<1>5. InStep => InStep'
  BY <1>1, <1>2, <1>3, <1>4 DEF InStep
<1>6. Behind => Behind'
  BY <1>1, <1>2, <1>3 DEF Behind
<1>7. Misled => Misled'
  BY <1>1, <1>2, <1>3 DEF Misled
<1> QED
  BY <1>1, <1>2, <1>3, <1>4, <1>5, <1>6, <1>7 DEF StreamInv

LEMMA WriteEnterStream ==
    ASSUME Control, StreamInv, WriteEnter PROVE StreamInv'
<1>1. /\ UNCHANGED <<con, clocked, sm, acked, rx, tx, osr, edge, irq, cut, main, hcmd, hpos, addr>>
      /\ hstep = "lock" /\ hstep' = "send"
  BY DEF WriteEnter, console, pio, isr
<1>2. /\ Receiving' = Receiving /\ Taken' = Taken /\ Owing' = Owing /\ Pending' = Pending
      /\ Selected' = Selected /\ Calm' = Calm
  BY <1>1 DEF Receiving, Taken, Owing, Pending, Selected, Calm
<1>3. Stream => Stream'
  BY <1>1, <1>2 DEF Stream, InStep, Behind, Misled
<1> QED
  BY <1>1, <1>2, <1>3 DEF StreamInv, Stream

LEMMA PadDataStream ==
    ASSUME Control, StreamInv, PadData PROVE StreamInv'
<1>1. /\ UNCHANGED <<con, clocked, sm, acked, rx, tx, osr, edge, irq, cut, main>>
      /\ hcmd = "pad" /\ hcmd' \in {"top", "pad"} /\ hstep' \in {"recv", "dat"}
  BY CodeFacts
     DEF PadData, GoTo, Idle, console, isr, cards, Control, HandlerTypes, HandlerPlace
<1>2. /\ ~Receiving' /\ ~Receiving /\ Taken' = 0 /\ Taken = 0 /\ Owing' = 0
      /\ Pending' = Pending /\ Selected' = Selected /\ Calm' = Calm
  BY <1>1 DEF Receiving, Taken, Owing, Pending, Selected, Calm
<1>3. Stream => Stream'
  BY <1>1, <1>2, StreamTypes DEF Stream, InStep, Behind, Misled
<1> QED
  BY <1>1, <1>2, <1>3, StreamTypes DEF StreamInv, Stream

-----------------------------------------------------------------------------
(* ... and it receives.  A byte that is not one of a WRITE's, up to the end  *)
(* of the sector, leaves it behind.                                          *)

LEMMA ReceiveSteps ==
    ASSUME Control, NEW b, Receive(b)
    PROVE  /\ hstep = "recv" /\ Owing = 0 /\ b = rx[1] /\ b \in Bytes
           /\ rx # <<>> /\ Len(rx) >= 1 /\ Len(rx') = Len(rx) - 1
           /\ \A i \in 1 .. Len(rx') : rx'[i] = rx[i + 1]
           /\ UNCHANGED <<con, clocked, acked, sm, tx, osr, edge, irq, cut>>
<1>1. rx \in Seq(Bytes) /\ rx # <<>>
  BY DEF Receive, Control, OtherTypes
<1>2. Len(rx) >= 1
  BY <1>1, EmptySeq
<1>3. hstep = "recv" /\ Owing = 0
  BY DEF Receive, Owing
<1>4. Len(rx') = Len(rx) - 1 /\ \A i \in 1 .. Len(rx') : rx'[i] = rx[i + 1]
  BY <1>1, HeadTailProperties DEF Receive
<1> QED
  BY <1>1, <1>2, <1>3, <1>4, Received DEF Receive, console, isr

LEMMA Shifted ==
    ASSUME Control, NEW b, Receive(b)
    PROVE  /\ Len(rx) \in Nat /\ Len(rx) >= 1 /\ Len(rx') = Len(rx) - 1 /\ b = rx[1]
           /\ \A i \in 1 .. Len(rx') : i + 1 \in 1 .. Len(rx) /\ rx'[i] = rx[i + 1]
           /\ Owing = 0 /\ Taken \in Nat /\ Pending \in Nat /\ clocked \in Nat
           /\ UNCHANGED <<con, clocked, acked, sm, tx, osr, edge, irq, cut>>
<1>1. Len(rx) \in Nat /\ Len(rx) >= 1 /\ Len(rx') = Len(rx) - 1
  BY ReceiveSteps, StreamTypes
<1>2. \A i \in 1 .. Len(rx') : i + 1 \in 1 .. Len(rx) /\ rx'[i] = rx[i + 1]
  BY <1>1, ReceiveSteps
<1> QED
  BY <1>1, <1>2, ReceiveSteps, StreamTypes

LEMMA Dropped ==
    ASSUME Control, Stream, NEW b, Receive(b), Taken' = 0, ~Receiving'
    PROVE  Behind'
<1> USE Shifted
<1>1. Selected' = Selected
  BY DEF Selected
<1>2. CASE InStep
  <2>1. PICK c \in {"read", "write"} :
           /\ \A i \in 1 .. Len(rx) : rx[i] = Sent(c, Taken + i)
           /\ Selected => con = c /\ clocked = Taken + Len(rx)
    BY <1>2 DEF InStep
  <2>2. ASSUME NEW i \in 1 .. Len(rx'), rx'[i] = "msb" PROVE Taken' + i < 5
    <3>1. Sent(c, Taken + (i + 1)) = "msb" /\ i + 1 \in 1 .. Len(rx)
      BY <2>1, <2>2
    <3>2. c \in DOMAIN Code /\ Taken + (i + 1) \in Nat \ {0}
      BY CodeFacts
    <3>3. Taken + (i + 1) = 5
      BY ONLY <3>1, <3>2, SentFacts
    <3> QED
      BY <3>3
  <2>3. Selected => Taken' + Len(rx') < clocked'
    BY <2>1
  <2> QED
    BY <1>1, <2>2, <2>3 DEF Behind
<1>3. CASE Behind
  <2>1. ASSUME NEW i \in 1 .. Len(rx'), rx'[i] = "msb" PROVE Taken' + i < 5
    <3>1. i + 1 \in 1 .. Len(rx) /\ rx[i + 1] = "msb"
      BY <2>1
    <3>2. Taken + (i + 1) < 5
      BY <1>3, <3>1 DEF Behind
    <3> QED
      BY <3>2
  <2>2. Taken + Len(rx) < clocked => Taken' + Len(rx') < clocked'
    OBVIOUS
  <2> QED
    BY <1>1, <1>3, <2>1, <2>2 DEF Behind
<1>4. CASE Misled
  <2>1. ASSUME NEW i \in 1 .. Len(rx'), rx'[i] = "msb" PROVE Taken' + i < 5
    <3>1. i + 1 \in 1 .. Len(rx) /\ rx[i + 1] = "msb"
      BY <2>1
    <3>2. i + 1 <= 5
      BY <1>4, <3>1 DEF Misled
    <3> QED
      BY <3>2
  <2>2. Selected => Taken' + Len(rx') < clocked'
    BY <1>4 DEF Misled
  <2> QED
    BY <1>1, <2>1, <2>2 DEF Behind
<1> QED
  BY <1>2, <1>3, <1>4 DEF Stream

\* The next byte of a command that may be a WRITE.
LEMMA StaysInStep ==
    ASSUME Control, NEW b, Receive(b), InStep,
           Taken' = Taken + 1, Owing' <= 1,
           \A d \in {"read", "write"} : b = Sent(d, Taken + 1) /\ Receiving' /\
               (Receiving => d = "write" /\ (hpos >= 4 => addr[1] = "msb")
                                         /\ (hpos >= 5 => addr[2] = "lsb"))
               => /\ d = "write"
                  /\ hpos' >= 4 => addr'[1] = "msb"
                  /\ hpos' >= 5 => addr'[2] = "lsb"
    PROVE  InStep'
<1> USE Shifted
<1>1. PICK d \in {"read", "write"} :
         /\ \A i \in 1 .. Len(rx) : rx[i] = Sent(d, Taken + i)
         /\ Receiving => /\ d = "write"
                         /\ hpos >= 4 => addr[1] = "msb"
                         /\ hpos >= 5 => addr[2] = "lsb"
         /\ Selected => /\ con = d /\ sm = "running" /\ clocked = Taken + Len(rx)
                        /\ clocked > 0 /\ acked => osr # "none"
                        /\ Len(rx) + Pending + Owing <= IF clocked = 0 THEN 2 ELSE 3
  BY DEF InStep
<1>2. \A i \in 1 .. Len(rx') : rx'[i] = Sent(d, Taken' + i)
  <2> SUFFICES ASSUME NEW i \in 1 .. Len(rx') PROVE rx'[i] = Sent(d, Taken' + i)
    OBVIOUS
  <2>1. i + 1 \in 1 .. Len(rx) /\ rx'[i] = rx[i + 1]
    OBVIOUS
  <2>2. Taken + (i + 1) = Taken' + i
    OBVIOUS
  <2>3. rx[i + 1] = Sent(d, Taken + (i + 1))
    BY <1>1, <2>1
  <2> QED
    BY ONLY <2>1, <2>2, <2>3
<1>3. b = Sent(d, Taken + 1)
  BY <1>1
<1>4. Pending' = Pending /\ Selected' = Selected
  BY DEF Pending, Selected
<1>5. Owing' \in Nat
  BY DEF Owing
<1>6. Selected => /\ clocked' = Taken' + Len(rx') /\ clocked' # 0
                  /\ Len(rx') + Pending' + Owing' <= 3
  <2>1. Selected => clocked = Taken + Len(rx) /\ clocked > 0 /\ Len(rx) + Pending + Owing <= 3
    BY <1>1
  <2>2. /\ Len(rx') = Len(rx) - 1 /\ clocked' = clocked /\ Owing = 0
        /\ Len(rx) \in Nat /\ Pending \in Nat /\ Taken \in Nat /\ clocked \in Nat
    OBVIOUS
  <2> QED
    BY ONLY <2>1, <2>2, <1>4, <1>5, Taken' = Taken + 1, Owing' <= 1
<1>7. Receiving' => /\ d = "write"
                    /\ hpos' >= 4 => addr'[1] = "msb"
                    /\ hpos' >= 5 => addr'[2] = "lsb"
  BY <1>1, <1>3
<1> QED
  BY <1>1, <1>2, <1>4, <1>6, <1>7 DEF InStep

LEMMA StaysBehind ==
    ASSUME Control, NEW b, Receive(b), Behind, Taken' = Taken + 1,
           Receiving' /\ hpos' >= 4 /\ (b = "msb" => Taken + 1 < 5)
             /\ (Receiving /\ hpos >= 4 => addr[1] # "msb") => addr'[1] # "msb"
    PROVE  Behind'
<1> USE Shifted
<1>1. ASSUME NEW i \in 1 .. Len(rx'), rx'[i] = "msb" PROVE Taken' + i < 5
  <2>1. i + 1 \in 1 .. Len(rx) /\ rx[i + 1] = "msb"
    BY <1>1
  <2>2. Taken + (i + 1) < 5
    BY <2>1 DEF Behind
  <2> QED
    BY ONLY <2>2, i \in 1 .. Len(rx'), Taken' = Taken + 1, Taken \in Nat
<1>2. b = "msb" => Taken + 1 < 5
  BY DEF Behind
<1>3. Receiving' /\ hpos' >= 4 => addr'[1] # "msb"
  BY <1>2 DEF Behind
<1>4. Taken + Len(rx) < clocked => Taken' + Len(rx') < clocked'
  OBVIOUS
<1> QED
  BY <1>1, <1>3, <1>4 DEF Behind, Selected

LEMMA ReceiveSuffices ==
    ASSUME Control, StreamInv, NEW b, Receive(b), UNCHANGED main, Stream => Stream'
    PROVE  StreamInv'
<1>1. Calm' = Calm /\ Selected' = Selected /\ cut' = cut /\ edge' = edge /\ rx # <<>>
  BY ReceiveSteps DEF Calm, Selected
<1>2. Selected \/ edge # 0
  BY <1>1 DEF Control, ControlInv, Quiet
<1> QED
  BY <1>1, <1>2 DEF StreamInv, Stream

LEMMA DroppedStream ==
    ASSUME Control, StreamInv, NEW b, Receive(b), UNCHANGED main, Taken' = 0, ~Receiving'
    PROVE  StreamInv'
BY ReceiveSuffices, Dropped DEF Stream

LEMMA TopByteStream ==
    ASSUME Control, StreamInv, NEW b, TopByte(b) PROVE StreamInv'
<1>1. Receive(b) /\ hcmd = "top" /\ main' = main /\ irq' = irq
  BY DEF TopByte, Receive, isr, cards
<1>2. CASE hcmd' # "mc" \/ irq = "reset"
  <2>1. hcmd' \in {"top", "mc", "pad"}
    BY DEF TopByte, GoTo, Idle
  <2> QED
    BY <1>1, <1>2, <2>1, DroppedStream DEF Taken, Receiving
<1>3. CASE hcmd' = "mc" /\ irq # "reset"
  <2>1. /\ ~Receiving' /\ Taken = 0 /\ Taken' = 1
        /\ Owing' <= 1
    BY <1>1, <1>3 DEF Taken, Receiving, Owing
  <2>2. ~Misled
    BY <1>1 DEF Misled
  <2>3. Taken' = Taken + 1
    BY <2>1
  <2>4. InStep => InStep'
    BY <1>1, <2>1, <2>3, StaysInStep
  <2>5. Behind => Behind'
    BY <1>1, <2>1, <2>3, StaysBehind
  <2> QED
    BY <1>1, <2>2, <2>4, <2>5, ReceiveSuffices DEF Stream
<1> QED
  BY <1>2, <1>3

LEMMA CommandByteStream ==
    ASSUME Control, StreamInv, NEW b, CommandByte(b) PROVE StreamInv'
<1>1. Receive(b) /\ hcmd = "mc" /\ main' = main /\ irq' = irq
  BY DEF CommandByte, Receive, isr, cards
<1>2. CASE hcmd' # "write" \/ irq = "reset"
  <2>1. hcmd' # "mc"
    BY CodeFacts DEF CommandByte, GoTo, Idle
  <2> QED
    BY <1>1, <1>2, <2>1, DroppedStream DEF Taken, Receiving
<1>3. CASE hcmd' = "write" /\ irq # "reset"
  <2>1. hpos' = 1 /\ hstep' = "lock" /\ MayBe(b, "57")
    BY <1>3 DEF CommandByte, GoTo, Idle, Code
  <2>2. /\ Receiving' /\ ~Receiving /\ Taken = 1 /\ Taken' = 2 /\ Owing' <= 1
    BY <1>1, <1>3, <2>1, ExchangesFacts DEF Taken, Receiving, Owing
  <2>3. Taken' = Taken + 1
    BY <2>2
  <2>4. ~Misled
    BY <1>1, <2>1, ReceiveSteps DEF Misled, MayBe, Varying
  <2>5. ASSUME NEW d \in {"read", "write"}, b = Sent(d, Taken + 1) PROVE d = "write"
    <3>1. b = Code[d] /\ d \in DOMAIN Code
      BY <2>2, <2>5, SentFacts, CodeFacts
    <3> QED
      BY <2>1, <3>1 DEF MayBe, Varying, Code
  <2>6. InStep => InStep'
    BY <1>1, <2>1, <2>2, <2>3, <2>5, StaysInStep
  <2>7. Behind => Behind'
    BY <1>1, <2>1, <2>3, StaysBehind
  <2> QED
    BY <1>1, <2>4, <2>6, <2>7, ReceiveSuffices DEF Stream
<1> QED
  BY <1>2, <1>3

LEMMA AddressByteStream ==
    ASSUME Control, StreamInv, NEW b, AddressByte(b) PROVE StreamInv'
<1>1. /\ Receive(b) /\ hcmd \in {"read", "write"} /\ main' = main /\ irq' = irq
      /\ addr' = IF hpos \in {3, 4} THEN Append(addr, b) ELSE addr
      /\ \/ hcmd' = hcmd /\ hpos' = hpos + 1 /\ hstep' = "send"
         \/ hcmd' = "refused"
  BY DEF AddressByte, Following, Refuse, Receive, isr, cards
<1>2. CASE hcmd' # "write" \/ irq = "reset"
  BY <1>1, <1>2, DroppedStream DEF Taken, Receiving
<1>3. CASE hcmd' = "write" /\ irq # "reset"
  <2>1. hcmd = "write" /\ hpos' = hpos + 1 /\ hstep' = "send" /\ hpos \in 1 .. 4
    BY <1>1, <1>3 DEF AddressByte, LastBeforeCheck, Control, HandlerTypes, HandlerPlace
  <2>2. /\ Receiving' /\ Receiving /\ Taken = hpos + 1 /\ Taken' = Taken + 1 /\ Owing' <= 1
    BY <1>1, <1>3, <2>1, ExchangesFacts DEF Taken, Receiving, Owing
  <2>3. ~Misled
    BY <2>1 DEF Misled
  <2>4. /\ addr \in Seq(Bytes) /\ Len(addr) = IF hpos <= 3 THEN 0 ELSE 1
        /\ b \in Bytes
    BY <1>1, <2>1, ReceiveSteps DEF Control, HandlerTypes, HandlerPlace
  <2>5. /\ hpos = 3 => addr'[1] = b
        /\ hpos = 4 => addr'[1] = addr[1] /\ addr'[2] = b
    BY <1>1, <2>4, AppendProperties
  <2>6. ASSUME NEW d \in {"read", "write"}, b = Sent(d, Taken + 1), d = "write",
               hpos >= 4 => addr[1] = "msb"
        PROVE  /\ hpos' >= 4 => addr'[1] = "msb"
               /\ hpos' >= 5 => addr'[2] = "lsb"
    <3>1. hpos = 3 => b = "msb"
      BY <2>2, <2>6, SentFacts, CodeFacts
    <3>2. hpos = 4 => b = "lsb"
      BY <2>2, <2>6, SentFacts
    <3> QED
      BY <2>1, <2>5, <2>6, <3>1, <3>2
  <2>7. InStep => InStep'
    BY <1>1, <2>2, <2>6, StaysInStep
  <2>8. Behind => Behind'
    <3>1. hpos' >= 4 /\ (b = "msb" => Taken + 1 < 5) /\ (hpos >= 4 => addr[1] # "msb")
             => addr'[1] # "msb"
      BY <2>1, <2>2, <2>5
    <3> QED
      BY <1>1, <2>2, <3>1, StaysBehind
  <2> QED
    BY <1>1, <2>3, <2>7, <2>8, ReceiveSuffices DEF Stream
<1> QED
  BY <1>2, <1>3

LEMMA WriteDataStream ==
    ASSUME Control, StreamInv, NEW b, WriteData(b) PROVE StreamInv'
<1>1. /\ Receive(b) /\ hcmd = "write" /\ hpos \in 5 .. 4 + MC_SEC_SIZE /\ main' = main
      /\ irq' = irq /\ addr' = addr /\ hcmd' = "write" /\ hpos' = hpos + 1 /\ hstep' = "send"
  <2>1. hpos \in Nat /\ hpos - 4 \in Indices
    BY StreamTypes DEF WriteData
  <2> QED
    BY <2>1, ExchangesFacts DEF WriteData, Following, Receive, isr, Indices
<1>2. CASE hpos = 4 + MC_SEC_SIZE \/ irq = "reset"
  BY <1>1, <1>2, ExchangesFacts, DroppedStream DEF Taken, Receiving
<1>3. CASE hpos < 4 + MC_SEC_SIZE /\ irq # "reset"
  <2>1. /\ Receiving' /\ Receiving /\ Taken' = Taken + 1 /\ Owing' <= 1
    BY <1>1, <1>3, ExchangesFacts DEF Taken, Receiving, Owing
  <2>2. InStep => InStep'
    BY <1>1, <2>1, StaysInStep
  <2>3. Behind => Behind'
    BY <1>1, <2>1, StaysBehind
  <2> QED
    BY <1>1, <2>2, <2>3, ReceiveSuffices DEF Stream, Misled
<1> QED
  BY <1>1, <1>2, <1>3, ExchangesFacts

LEMMA OtherBytesStream ==
    ASSUME Control, StreamInv, NEW b,
           ReadByte(b) \/ WriteEnd(b) \/ OtherByte(b) \/ PadByte(b)
    PROVE  StreamInv'
<1>1. Receive(b) /\ main' = main
  BY DEF ReadByte, WriteEnd, OtherByte, PadByte, cards
<1>2. hcmd' # "mc" /\ (hcmd' = "write" => hpos' > 4 + MC_SEC_SIZE)
  BY StreamTypes, ExchangesFacts
     DEF ReadByte, WriteEnd, OtherByte, PadByte, GoTo, Idle, Following
<1>3. hpos' \in Nat \/ hcmd' # "write"
  BY StreamTypes DEF ReadByte, WriteEnd, OtherByte, PadByte, GoTo, Idle, Following
<1> QED
  BY <1>1, <1>2, <1>3, ExchangesFacts, DroppedStream DEF Taken, Receiving

LEMMA StreamNext == Control /\ StreamInv /\ [Next]_vars => StreamInv'
<1> SUFFICES ASSUME Control, StreamInv, [Next]_vars PROVE StreamInv'
  OBVIOUS
<1>1. CASE ConsoleNext \/ Pull
  BY <1>1, ClockStream, StopStream, SelectStream, PullStream DEF ConsoleNext
<1>2. CASE HandlerNext
  BY <1>2, SendStream, WriteEnterStream, PadDataStream, TopByteStream, CommandByteStream,
     AddressByteStream, WriteDataStream, OtherBytesStream DEF HandlerNext
<1>3. CASE InterruptNext
  BY <1>3, ServeEdgeStream, ResetCore1Stream DEF InterruptNext
<1>4. CASE MainNext
  BY <1>4, MainStream
<1>5. CASE UNCHANGED vars
  BY <1>5, StreamStays DEF vars, console, pio, isr, handler, cards, Calm
<1> QED
  BY <1>1, <1>2, <1>3, <1>4, <1>5 DEF Next

-----------------------------------------------------------------------------
(* The sector. *)

LEMMA InitSector == Init => SectorFromWrite
BY BusAssumption DEF Init, SectorFromWrite

\* A byte that is stored is the one the console sent for its place.
LEMMA WriteDataSector ==
    ASSUME Control, StreamInv, SectorFromWrite, NEW b, WriteData(b)
    PROVE  SectorFromWrite'
<1>1. /\ Receive(b) /\ hcmd = "write" /\ hpos - 4 \in Indices /\ hstep = "recv"
      /\ cut' = cut /\ rx # <<>> /\ b = rx[1] /\ Len(rx) >= 1
      /\ mc_data' = IF Ours THEN [mc_data EXCEPT ![hpos - 4] = b] ELSE mc_data
  BY ReceiveSteps DEF WriteData, Place
<1>2. mutex = "handler" /\ main \notin {"import", "data", "reconnect", "release"}
  BY <1>1 DEF Control, ControlInv, Ownership
<1>3. irq \in {"on", "reset"} /\ Calm
  BY <1>2 DEF Control, OtherTypes, ControlInv, Latching, Calm
<1>4. irq # "reset"
  <2> SUFFICES ASSUME irq = "reset" PROVE FALSE
    OBVIOUS
  <2>1. ~Selected /\ edge = 0
    BY <1>2 DEF Control, OtherTypes, ControlInv, Latching
  <2> QED
    BY <1>1, <2>1 DEF Control, ControlInv, Quiet
<1>5. hpos \in 5 .. 4 + MC_SEC_SIZE
  BY <1>1, StreamTypes, ExchangesFacts DEF Indices
<1>6. Receiving /\ Taken + 1 = 6 + (hpos - 4)
  BY <1>1, <1>4, <1>5, ExchangesFacts DEF Receiving, Taken
<1>7. ASSUME ~cut, Ours PROVE b = Data(hpos - 4)
  <2>1. InStep
    BY <1>1, <1>3, <1>5, <1>6, <1>7 DEF StreamInv, Behind, Misled, Ours
  <2>2. b = Sent("write", Taken + 1)
    BY <1>1, <1>6, <2>1, StreamTypes DEF InStep
  <2> QED
    BY <1>1, <1>6, <2>2, SentFacts
<1>8. mc_data \in [Indices -> Bytes]
  BY DEF Control, OtherTypes
<1> QED
  BY <1>1, <1>7, <1>8 DEF SectorFromWrite

LEMMA SectorNext ==
    Control /\ StreamInv /\ SectorFromWrite /\ [Next]_vars => SectorFromWrite'
<1> SUFFICES ASSUME Control, StreamInv, SectorFromWrite, [Next]_vars
             PROVE  SectorFromWrite'
  OBVIOUS
<1>1. CASE ConsoleNext \/ Pull
  BY <1>1 DEF ConsoleNext, Clock, GiveUp, Abort, Select, Deselect, Pull, isr, cards,
              SectorFromWrite
<1>2. CASE HandlerNext
  <2>1. CASE Send \/ WriteEnter \/ PadData
    BY <2>1 DEF Send, WriteEnter, PadData, isr, cards, SectorFromWrite
  <2>2. ASSUME NEW b, \/ TopByte(b) \/ CommandByte(b) \/ AddressByte(b) \/ ReadByte(b)
                      \/ WriteEnd(b) \/ OtherByte(b) \/ PadByte(b)
        PROVE  SectorFromWrite'
    <3>1. mc_data' = mc_data
      BY <2>2 DEF TopByte, CommandByte, AddressByte, ReadByte, WriteEnd, OtherByte, PadByte, cards
    <3>2. cut' = cut
      BY <2>2 DEF TopByte, CommandByte, AddressByte, ReadByte, WriteEnd, OtherByte, PadByte,
                  Receive, isr
    <3> QED
      BY <3>1, <3>2 DEF SectorFromWrite
  <2> QED
    BY <1>2, <2>1, <2>2, WriteDataSector DEF HandlerNext
<1>3. CASE InterruptNext
  BY <1>3 DEF InterruptNext, ServeEdge, ResetCore1, cards, SectorFromWrite
<1>4. CASE ImportByte
  <2>1. card \in 1 .. MaxCards /\ mc_data \in [Indices -> Bytes]
    BY DEF Control, OtherTypes
  <2>2. /\ mc_data' = [mc_data EXCEPT ![imported + 1] = Original(card)] /\ cut' = cut
    BY <1>4 DEF ImportByte, isr
  <2> QED
    BY <2>1, <2>2 DEF SectorFromWrite
<1>5. CASE MainNext /\ ~ImportByte
  BY <1>5 DEF MainNext, StartChange, Lock, ImportFlag, ReconnectBegin, ReconnectEnd, Release,
              isr, SectorFromWrite
<1>6. CASE UNCHANGED vars
  BY <1>6 DEF vars, isr, cards, SectorFromWrite
<1> QED
  BY <1>1, <1>2, <1>3, <1>4, <1>5, <1>6 DEF Next

-----------------------------------------------------------------------------
LEMMA StreamInvariant == Spec => [](Control /\ StreamInv /\ SectorFromWrite)
<1>1. Init => Control /\ StreamInv /\ SectorFromWrite
  BY InitControl, InitStream, InitSector
<1>2. Control /\ StreamInv /\ SectorFromWrite /\ [Next]_vars
      => (Control /\ StreamInv /\ SectorFromWrite)'
  BY ControlNext, StreamNext, SectorNext
<1> QED
  BY <1>1, <1>2, PTL DEF Spec

\* The inductive invariant: where handler and main loop can be, and that the
\* handler is in step with the console or too far behind to see its address.
THEOREM BusInvariant == Spec => []BusInv
<1>1. Control /\ StreamInv => BusInv
  BY DEF Control, BusInv
<1> QED
  BY <1>1, StreamInvariant, PTL

\* Every byte of the sector is a card's own or the one the console sent for
\* that place, however many commands are cut short, until with one core a WRITE
\* is (process_memcard_cmd, restart_pio_sm).
THEOREM SectorFromWriteInvariant == Spec => []SectorFromWrite
BY StreamInvariant, PTL
=============================================================================
