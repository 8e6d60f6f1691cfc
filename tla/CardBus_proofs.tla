--------------------------- MODULE CardBus_proofs ---------------------------
(* What a WRITE changes is the card the console was told of, and every byte  *)
(* of the sector is where the console sent it, for any size of the sector    *)
(* and of the FIFOs, any commands, and however many of them are cut short.   *)
EXTENDS CardBus, SequenceTheorems, TLAPS

-----------------------------------------------------------------------------
(* Bytes and exchanges. *)

LEMMA CodeFacts ==
    /\ DOMAIN Code = {"read", "write", "id", "ping", "gameid", "pad"}
    /\ MemcardCommands = {"read", "write", "id", "ping", "gameid"}
    /\ \A c \in DOMAIN Code : Code[c] \in Bytes
BY DEF Code, MemcardCommands, Bytes

LEMMA ExchangesFacts ==
    /\ MC_SEC_SIZE \in Nat /\ MC_SEC_SIZE >= 1 /\ GameIdLen \in Nat
    /\ FifoDepth \in Nat /\ FifoDepth >= 3
    /\ Exchanges("read") = 10 + MC_SEC_SIZE /\ Exchanges("write") = 8 + MC_SEC_SIZE
    /\ Exchanges("id") = 9 /\ Exchanges("gameid") = 2 + GameIdLen
    /\ Exchanges("ping") = 3 /\ Exchanges("pad") = 3
BY BusAssumption DEF Exchanges

LEMMA OriginalByte == \A c : Original(c) \in Bytes
BY DEF Original, Bytes, Varying

LEMMA SentByte ==
    ASSUME NEW c \in DOMAIN Code, NEW k \in Nat
    PROVE  Sent(c, k) \in Bytes
<1>1. Payload(c, k) \in Bytes
  BY DEF Payload, Data, Bytes, Varying
<1> QED
  BY <1>1, CodeFacts DEF Sent, Top, Bytes

LEMMA AnswerByte ==
    ASSUME NEW c, NEW n PROVE Answer(c, n) \in Bytes
BY DEF Answer, Bytes, Varying

LEMMA OutByte ==
    ASSUME TypeOK, HandlerPlace PROVE Out \in Bytes
<1>1. hcmd = "read" /\ hpos \in {7, 8} => addr[hpos - 6] \in Bytes
  <2> SUFFICES ASSUME hcmd = "read", hpos \in {7, 8} PROVE addr[hpos - 6] \in Bytes
    OBVIOUS
  <2>1. Len(addr) = 2 /\ addr \in Seq(Bytes)
    BY DEF HandlerPlace, TypeOK
  <2>2. addr[1] \in Bytes /\ addr[2] \in Bytes
    BY <2>1
  <2>3. hpos - 6 = 1 \/ hpos - 6 = 2
    OBVIOUS
  <2> QED
    BY <2>2, <2>3
<1>2. hpos - 8 \in Indices => mc_data[hpos - 8] \in Bytes
  BY DEF TypeOK
<1>3. {flag_byte, "FF", "other", "chk", "47", "4E", "echo"} \subseteq Bytes
  BY DEF TypeOK, Bytes, Varying
<1> QED
  BY <1>1, <1>2, <1>3, AnswerByte DEF Out

-----------------------------------------------------------------------------
(* Types, without and with the handler's. *)

OtherTypes ==
    /\ MULTICORE \in Builds
    /\ con \in Commands \cup {"none"}
    /\ clocked \in 0 .. (IF con = "none" THEN 0 ELSE Length(con))
    /\ acked \in BOOLEAN /\ ok \in BOOLEAN /\ cut \in BOOLEAN
    /\ got \in Seq(Bytes)
    /\ aborts \in 0 .. MaxAborts
    /\ sm \in {"disabled", "waiting", "running", "shifted"}
    /\ rx \in Seq(Bytes) /\ Len(rx) <= FifoDepth
    /\ tx \in Seq(Bytes) /\ Len(tx) <= FifoDepth
    /\ osr \in Bytes \cup {"none"} /\ dat \in 0 .. FifoDepth
    /\ edge \in 0 .. MaxEdges
    /\ irq \in {"on", "reset", "off", "late"}
    /\ main \in {"serve", "lock", "import", "data", "reconnect", "release"}
    /\ imported \in 0 .. MC_SEC_SIZE
    /\ mutex \in {"free", "handler", "main"}
    /\ flag_byte \in {"08", "00"}
    /\ card \in 1 .. MaxCards
    /\ mc_data \in [Indices -> Bytes]

HandlerTypes ==
    /\ HandlerPlace
    /\ addr \in Seq(Bytes) /\ sum \in BOOLEAN
    /\ seen \in 0 .. MaxCards

Control == OtherTypes /\ HandlerTypes /\ ControlInv

LEMMA HandlerRange ==
    ASSUME HandlerPlace
    PROVE  /\ hcmd \in DOMAIN Code \cup {"top", "mc", "refused"}
           /\ hpos \in 0 .. (IF hcmd = "pad" THEN 4
                            ELSE IF hcmd \in DOMAIN Code THEN Exchanges(hcmd) ELSE 1)
           /\ hstep \in {"send", "recv", "dat", "lock"}
           /\ Len(addr) <= 2
<1>1. CASE hcmd \in MemcardCommands
  BY <1>1, CodeFacts, ExchangesFacts DEF HandlerPlace
<1>2. CASE hcmd \notin MemcardCommands
  BY <1>2, CodeFacts DEF HandlerPlace
<1> QED
  BY <1>1, <1>2

LEMMA TypesTogether == Control => TypeOK
<1> SUFFICES ASSUME Control PROVE TypeOK
  OBVIOUS
<1>1. Len(got) <= MC_SEC_SIZE
  BY ExchangesFacts DEF Control, ControlInv, Collected, OtherTypes, Length, Indices
<1> QED
  BY <1>1, HandlerRange DEF Control, OtherTypes, HandlerTypes, TypeOK

LEMMA InitControl == Init => Control
<1> SUFFICES ASSUME Init PROVE Control
  OBVIOUS
<1>1. OtherTypes
  <2>1. mc_data \in [Indices -> Bytes]
    BY OriginalByte DEF Init
  <2>2. acked \in BOOLEAN /\ ok \in BOOLEAN /\ cut \in BOOLEAN
    BY DEF Init
  <2> QED
    BY <2>1, <2>2, BusAssumption, ExchangesFacts DEF Init, OtherTypes
<1>2. HandlerTypes
  BY BusAssumption DEF Init, HandlerTypes, HandlerPlace
<1>3. ControlInv
  BY <1>2, BusAssumption
     DEF Init, ControlInv, HandlerTypes, Collected, Ownership, Latching, Quiet, Announced,
         Selected
<1> QED
  BY <1>1, <1>2, <1>3 DEF Control

-----------------------------------------------------------------------------
(* The console, the state machines, the interrupt and the main loop leave   *)
(* the handler where it is.                                                  *)

LEMMA HandlerStays ==
    ASSUME HandlerTypes, UNCHANGED <<hcmd, hpos, hstep, addr, sum, seen>> PROVE HandlerTypes'
BY DEF HandlerTypes, HandlerPlace, SendOnly

LEMMA SelectControl ==
    ASSUME Control, NEW c \in Commands, Select(c) PROVE Control'
<1> USE DEF Control, ControlInv
<1>1. OtherTypes'
  BY BusAssumption, ExchangesFacts DEF OtherTypes, Ownership, Select, Selected, Length, isr, cards, handler
<1>2. HandlerTypes'
  BY HandlerStays DEF Select, Selected, Length, isr, cards, handler
<1>3. Collected'
  BY ExchangesFacts DEF Collected, OtherTypes, Indices, Select, Selected
<1>4. Ownership'
  BY DEF Ownership, OtherTypes, Select, Selected, Length, isr, cards, handler
<1>5. Latching'
  BY DEF Latching, Selected, OtherTypes, Select, Selected, Length, isr, cards, handler
<1>6. Quiet'
  BY DEF Quiet, Selected, OtherTypes, Select, Selected, Length, isr, cards, handler
<1>7. Announced'
  BY DEF Announced, ResetToCome, Latching, Quiet, Ownership, Selected, OtherTypes, Select, Selected, Length, isr, cards, handler
<1> QED
  BY <1>1, <1>2, <1>3, <1>4, <1>5, <1>6, <1>7 DEF HandlerTypes

LEMMA ClockControl ==
    ASSUME Control, Clock PROVE Control'
<1> USE DEF Control, ControlInv
<1>1. OtherTypes'
  <2> DEFINE b == IF osr = "none" THEN "FF" ELSE IF sm = "shifted" THEN "garbage" ELSE osr
             r == IF sm = "shifted" THEN "garbage" ELSE Sent(con, clocked + 1)
  <2>1. con \in DOMAIN Code /\ clocked \in Nat
    BY BusAssumption, CodeFacts, ExchangesFacts DEF OtherTypes, Clock, Selected, Length
  <2>2. b \in Bytes /\ r \in Bytes
    BY <2>1, SentByte DEF OtherTypes, Bytes, Varying
  <2>3. got' \in Seq(Bytes)
    <3>1. got' = got \/ got' = Append(got, b)
      BY DEF Clock
    <3>2. got \in Seq(Bytes) /\ b \in Bytes
      BY <2>2 DEF OtherTypes
    <3> QED
      BY <3>1, <3>2, AppendProperties
  <2>4. rx' \in Seq(Bytes) /\ Len(rx') <= FifoDepth
    <3>1. rx' = rx \/ (rx' = Append(rx, r) /\ Len(rx) < FifoDepth)
      BY DEF Clock
    <3>2. rx \in Seq(Bytes) /\ Len(rx) <= FifoDepth /\ r \in Bytes
      BY <2>2 DEF OtherTypes
    <3> HIDE DEF r
    <3> QED
      BY <3>1, <3>2, ExchangesFacts, AppendProperties
  <2>5. ok' \in BOOLEAN /\ acked' \in BOOLEAN /\ cut' \in BOOLEAN
    BY DEF OtherTypes, Clock, isr
  <2>6. clocked' \in 0 .. (IF con' = "none" THEN 0 ELSE Length(con'))
    <3>1. con' = con /\ con # "none" /\ clocked' = clocked + 1 /\ clocked < Length(con)
      BY DEF Clock, Selected
    <3>2. clocked \in 0 .. Length(con) /\ Length(con) \in Nat
      <4>1. Exchanges(con) \in Nat
        BY <2>1, CodeFacts, ExchangesFacts
      <4> QED
        BY <3>1, <4>1 DEF OtherTypes, Length
    <3> QED
      BY <3>1, <3>2
  <2>7. dat' \in 0 .. FifoDepth /\ osr' = "none"
    <3>1. osr' = "none" /\ (dat' = dat \/ (dat' = dat + 1 /\ dat < FifoDepth))
      BY DEF Clock
    <3> QED
      BY <3>1, ExchangesFacts DEF OtherTypes
  <2> QED
    BY <2>3, <2>4, <2>5, <2>6, <2>7 DEF OtherTypes, Clock, isr, cards
<1>2. HandlerTypes'
  BY HandlerStays DEF Clock, Selected, Length, Indices, isr, cards, handler
<1>3. Collected'
  <2>1. con' = con /\ clocked' = clocked + 1 /\ got \in Seq(Bytes) /\ clocked \in Nat
    BY BusAssumption, CodeFacts, ExchangesFacts DEF OtherTypes, Clock, Selected, Length
  <2>2. Len(got') = IF con = "read" /\ clocked - 9 \in Indices THEN Len(got) + 1 ELSE Len(got)
    <3>1. CASE con = "read" /\ clocked - 9 \in Indices
      <4>1. PICK b : got' = Append(got, b)
        BY <2>1, <3>1 DEF Clock
      <4> QED
        BY <2>1, <3>1, <4>1, AppendProperties DEF Clock
    <3>2. CASE ~(con = "read" /\ clocked - 9 \in Indices)
      BY <2>1, <3>2 DEF Clock
    <3> QED
      BY <3>1, <3>2
  <2> QED
    BY <2>1, <2>2, ExchangesFacts DEF Collected, Indices
<1>4. Ownership'
  BY DEF Ownership, OtherTypes, Clock, Selected, Length, Indices, isr, cards, handler
<1>5. Latching'
  BY DEF Latching, Selected, OtherTypes, Clock, Selected, Length, Indices, isr, cards, handler
<1>6. Quiet'
  BY DEF Quiet, Selected, OtherTypes, Clock, Selected, Length, Indices, isr, cards, handler
<1>7. Announced'
  BY DEF Announced, ResetToCome, Latching, Quiet, Ownership, Selected, OtherTypes, Clock, Selected, Length, Indices, isr, cards, handler
<1> QED
  BY <1>1, <1>2, <1>3, <1>4, <1>5, <1>6, <1>7 DEF HandlerTypes

LEMMA StopControl ==
    ASSUME Control, GiveUp \/ Abort PROVE Control'
<1> USE DEF Control, ControlInv
<1>1. OtherTypes'
  <2>1. edge' \in 0 .. MaxEdges
    BY BusAssumption DEF OtherTypes, Latching, GiveUp, Abort, Deselect, Selected
  <2>2. /\ irq' \in {"on", "reset", "off", "late"} /\ aborts' \in 0 .. MaxAborts
        /\ con' = "none" /\ clocked' = 0 /\ got' = <<>>
    BY BusAssumption DEF OtherTypes, GiveUp, Abort, Deselect
  <2>3. ok' \in BOOLEAN /\ acked' \in BOOLEAN /\ cut' \in BOOLEAN
    BY DEF OtherTypes, GiveUp, Abort, Deselect
  <2> QED
    BY SMTT(30), <2>1, <2>2, <2>3 DEF OtherTypes, GiveUp, Abort, Deselect, pio, cards
<1>2. HandlerTypes'
  BY HandlerStays DEF GiveUp, Abort, Deselect, Selected, pio, cards, handler
<1>3. Collected'
  BY DEF Collected, GiveUp, Abort, Deselect, Selected, pio, cards, handler
<1>4. Ownership'
  BY DEF Ownership, OtherTypes, GiveUp, Abort, Deselect, Selected, pio, cards, handler
<1>5. Latching'
  BY DEF Latching, Selected, OtherTypes, GiveUp, Abort, Deselect, Selected, pio, cards, handler
<1>6. Quiet'
  BY DEF Quiet, Selected, OtherTypes, GiveUp, Abort, Deselect, Selected, pio, cards, handler
<1>7. Announced'
  BY DEF Announced, ResetToCome, Latching, Quiet, Ownership, Selected, OtherTypes, GiveUp, Abort, Deselect, Selected, pio, cards, handler
<1> QED
  BY <1>1, <1>2, <1>3, <1>4, <1>5, <1>6, <1>7 DEF HandlerTypes

LEMMA PullControl ==
    ASSUME Control, Pull PROVE Control'
<1> USE DEF Control, ControlInv
<1>1. OtherTypes'
  BY BusAssumption, ExchangesFacts DEF OtherTypes, Ownership, Pull, PullReady, isr, cards, handler
<1>2. HandlerTypes'
  BY HandlerStays DEF Pull, PullReady, isr, cards, handler
<1>3. Collected'
  BY DEF Collected, Pull, PullReady, isr, cards, handler
<1>4. Ownership'
  BY DEF Ownership, OtherTypes, Pull, PullReady, isr, cards, handler
<1>5. Latching'
  BY DEF Latching, Selected, OtherTypes, Pull, PullReady, isr, cards, handler
<1>6. Quiet'
  BY DEF Quiet, Selected, OtherTypes, Pull, PullReady, isr, cards, handler
<1>7. Announced'
  BY DEF Announced, ResetToCome, Latching, Quiet, Ownership, Selected, OtherTypes, Pull, PullReady, isr, cards, handler
<1> QED
  BY <1>1, <1>2, <1>3, <1>4, <1>5, <1>6, <1>7 DEF HandlerTypes

LEMMA ServeEdgeControl ==
    ASSUME Control, ServeEdge PROVE Control'
<1> USE DEF Control, ControlInv
<1>1. OtherTypes'
  BY BusAssumption, ExchangesFacts DEF OtherTypes, Ownership, ServeEdge, Restart, Restarted, console, cards, handler
<1>2. HandlerTypes'
  BY HandlerStays DEF ServeEdge, Restart, Restarted, console, cards, handler
<1>3. Collected'
  BY DEF Collected, ServeEdge, Restart, Restarted, console, cards, handler
<1>4. Ownership'
  BY DEF Ownership, OtherTypes, ServeEdge, Restart, Restarted, console, cards, handler
<1>5. Latching'
  BY BusAssumption DEF Latching, Selected, ServeEdge, console, cards
<1>6. Quiet'
  BY DEF Quiet, Selected, OtherTypes, ServeEdge, Restart, Restarted, console, cards, handler
<1>7. Announced'
  BY DEF Announced, ResetToCome, Latching, Quiet, Ownership, Selected, OtherTypes, ServeEdge, Restart, Restarted, console, cards, handler
<1> QED
  BY <1>1, <1>2, <1>3, <1>4, <1>5, <1>6, <1>7 DEF HandlerTypes

LEMMA ResetCore1Control ==
    ASSUME Control, ResetCore1 PROVE Control'
<1> USE DEF Control, ControlInv
<1>1. OtherTypes'
  BY BusAssumption, ExchangesFacts DEF OtherTypes, Ownership, ResetCore1, Reset, Idle, GoTo, console, pio, cards
<1>2. HandlerTypes'
  BY BusAssumption DEF HandlerTypes, HandlerPlace, ResetCore1, Reset, Idle, GoTo
<1>3. Collected'
  BY DEF Collected, ResetCore1, Reset, Idle, GoTo, console, pio, cards
<1>4. Ownership'
  BY DEF Ownership, OtherTypes, ResetCore1, Reset, Idle, GoTo, console, pio, cards
<1>5. Latching'
  BY DEF Latching, Selected, OtherTypes, ResetCore1, Reset, Idle, GoTo, console, pio, cards
<1>6. Quiet'
  BY DEF Quiet, Selected, OtherTypes, ResetCore1, Reset, Idle, GoTo, console, pio, cards
<1>7. Announced'
  BY DEF Announced, ResetToCome, Latching, Quiet, Ownership, Selected, OtherTypes, ResetCore1, Reset, Idle, GoTo, console, pio, cards
<1> QED
  BY <1>1, <1>2, <1>3, <1>4, <1>5, <1>6, <1>7 DEF HandlerTypes

LEMMA StartChangeControl ==
    ASSUME Control, StartChange PROVE Control'
<1> USE DEF Control, ControlInv
<1>1. OtherTypes'
  BY BusAssumption, ExchangesFacts DEF OtherTypes, Ownership, StartChange, console, pio, isr, handler
<1>2. HandlerTypes'
  BY HandlerStays DEF StartChange, console, pio, isr, handler
<1>3. Collected'
  BY DEF Collected, StartChange, console, pio, isr, handler
<1>4. Ownership'
  BY DEF Ownership, OtherTypes, StartChange, console, pio, isr, handler
<1>5. Latching'
  BY DEF Latching, Selected, OtherTypes, StartChange, console, pio, isr, handler
<1>6. Quiet'
  BY DEF Quiet, Selected, OtherTypes, StartChange, console, pio, isr, handler
<1>7. Announced'
  BY DEF Announced, ResetToCome, Latching, Quiet, Ownership, Selected, OtherTypes, StartChange, console, pio, isr, handler
<1> QED
  BY <1>1, <1>2, <1>3, <1>4, <1>5, <1>6, <1>7 DEF HandlerTypes

LEMMA LockControl ==
    ASSUME Control, Lock PROVE Control'
<1> USE DEF Control, ControlInv
<1>1. OtherTypes'
  BY BusAssumption, ExchangesFacts DEF OtherTypes, Ownership, Lock, console, pio, isr, handler
<1>2. HandlerTypes'
  BY HandlerStays DEF Lock, console, pio, isr, handler
<1>3. Collected'
  BY DEF Collected, Lock, console, pio, isr, handler
<1>4. Ownership'
  BY DEF Ownership, OtherTypes, Lock, console, pio, isr, handler
<1>5. Latching'
  BY DEF Latching, Selected, OtherTypes, Lock, console, pio, isr, handler
<1>6. Quiet'
  BY DEF Quiet, Selected, OtherTypes, Lock, console, pio, isr, handler
<1>7. Announced'
  BY DEF Announced, ResetToCome, Latching, Quiet, Ownership, Selected, OtherTypes, Lock, console, pio, isr, handler
<1> QED
  BY <1>1, <1>2, <1>3, <1>4, <1>5, <1>6, <1>7 DEF HandlerTypes

LEMMA ImportFlagControl ==
    ASSUME Control, ImportFlag PROVE Control'
<1> USE DEF Control, ControlInv
<1>1. OtherTypes'
  BY BusAssumption, ExchangesFacts DEF OtherTypes, Ownership, ImportFlag, FlagAtImport, MainRuns, console, pio, isr, handler
<1>2. HandlerTypes'
  BY HandlerStays DEF ImportFlag, FlagAtImport, MainRuns, console, pio, isr, handler
<1>3. Collected'
  BY DEF Collected, ImportFlag, FlagAtImport, MainRuns, console, pio, isr, handler
<1>4. Ownership'
  BY DEF Ownership, OtherTypes, ImportFlag, FlagAtImport, MainRuns, console, pio, isr, handler
<1>5. Latching'
  BY DEF Latching, Selected, OtherTypes, ImportFlag, FlagAtImport, MainRuns, console, pio, isr, handler
<1>6. Quiet'
  BY DEF Quiet, Selected, OtherTypes, ImportFlag, FlagAtImport, MainRuns, console, pio, isr, handler
<1>7. Announced'
  BY DEF Announced, ResetToCome, Latching, Quiet, Ownership, Selected, OtherTypes, ImportFlag, FlagAtImport, MainRuns, console, pio, isr, handler
<1> QED
  BY <1>1, <1>2, <1>3, <1>4, <1>5, <1>6, <1>7 DEF HandlerTypes

LEMMA ImportByteControl ==
    ASSUME Control, ImportByte PROVE Control'
<1> USE DEF Control, ControlInv
<1>1. OtherTypes'
  <2>1. mc_data' \in [Indices -> Bytes]
    BY OriginalByte DEF OtherTypes, ImportByte
  <2>2. imported' \in 0 .. MC_SEC_SIZE
    BY ExchangesFacts DEF OtherTypes, ImportByte
  <2> QED
    BY <2>1, <2>2 DEF OtherTypes, ImportByte, console, pio, isr
<1>2. HandlerTypes'
  BY HandlerStays DEF ImportByte, MainRuns, console, pio, isr, handler
<1>3. Collected'
  BY DEF Collected, ImportByte, MainRuns, console, pio, isr, handler
<1>4. Ownership'
  BY DEF Ownership, OtherTypes, ImportByte, MainRuns, console, pio, isr, handler
<1>5. Latching'
  BY DEF Latching, Selected, OtherTypes, ImportByte, MainRuns, console, pio, isr, handler
<1>6. Quiet'
  BY DEF Quiet, Selected, OtherTypes, ImportByte, MainRuns, console, pio, isr, handler
<1>7. Announced'
  BY DEF Announced, ResetToCome, Latching, Quiet, Ownership, Selected, OtherTypes, ImportByte, MainRuns, console, pio, isr, handler
<1> QED
  BY <1>1, <1>2, <1>3, <1>4, <1>5, <1>6, <1>7 DEF HandlerTypes

LEMMA ReconnectBeginControl ==
    ASSUME Control, ReconnectBegin PROVE Control'
<1> USE DEF Control, ControlInv
<1>1. OtherTypes'
  <2>1. /\ sm' \in {"disabled", "waiting", "running", "shifted"}
        /\ rx' = <<>> /\ tx' = <<>> /\ osr' = "none" /\ dat' = 0
    BY DEF OtherTypes, ReconnectBegin, Restart, Restarted
  <2> QED
    BY <2>1, ExchangesFacts DEF OtherTypes, ReconnectBegin, console
<1>2. HandlerTypes'
  BY HandlerStays DEF ReconnectBegin, Restart, Restarted, MainRuns, console, handler
<1>3. Collected'
  BY DEF Collected, ReconnectBegin, Restart, Restarted, MainRuns, console, handler
<1>4. Ownership'
  BY DEF Ownership, OtherTypes, ReconnectBegin, Restart, Restarted, MainRuns, console, handler
<1>5. Latching'
  BY DEF Latching, Selected, OtherTypes, ReconnectBegin, Restart, Restarted, MainRuns, console, handler
<1>6. Quiet'
  BY DEF Quiet, Selected, OtherTypes, ReconnectBegin, Restart, Restarted, MainRuns, console, handler
<1>7. Announced'
  BY DEF Announced, ResetToCome, Latching, Quiet, Ownership, Selected, OtherTypes, ReconnectBegin, Restart, Restarted, MainRuns, console, handler
<1> QED
  BY <1>1, <1>2, <1>3, <1>4, <1>5, <1>6, <1>7 DEF HandlerTypes

LEMMA ReconnectEndControl ==
    ASSUME Control, ReconnectEnd PROVE Control'
<1> USE DEF Control, ControlInv
<1>1. OtherTypes'
  BY BusAssumption, ExchangesFacts DEF OtherTypes, Ownership, ReconnectEnd, console, pio, handler
<1>2. HandlerTypes'
  BY HandlerStays DEF ReconnectEnd, console, pio, handler
<1>3. Collected'
  BY DEF Collected, ReconnectEnd, console, pio, handler
<1>4. Ownership'
  BY DEF Ownership, OtherTypes, ReconnectEnd, console, pio, handler
<1>5. Latching'
  BY DEF Latching, Selected, OtherTypes, ReconnectEnd, console, pio, handler
<1>6. Quiet'
  BY DEF Quiet, Selected, OtherTypes, ReconnectEnd, console, pio, handler
<1>7. Announced'
  BY DEF Announced, ResetToCome, Latching, Quiet, Ownership, Selected, OtherTypes, ReconnectEnd, console, pio, handler
<1> QED
  BY <1>1, <1>2, <1>3, <1>4, <1>5, <1>6, <1>7 DEF HandlerTypes

LEMMA ReleaseControl ==
    ASSUME Control, Release PROVE Control'
<1> USE DEF Control, ControlInv
<1>1. OtherTypes'
  BY BusAssumption, ExchangesFacts DEF OtherTypes, Ownership, Release, LatchedServed, MainRuns, console, pio, isr, handler
<1>2. HandlerTypes'
  BY HandlerStays DEF Release, LatchedServed, MainRuns, console, pio, isr, handler
<1>3. Collected'
  BY DEF Collected, Release, LatchedServed, MainRuns, console, pio, isr, handler
<1>4. Ownership'
  BY DEF Ownership, OtherTypes, Release, LatchedServed, MainRuns, console, pio, isr, handler
<1>5. Latching'
  BY DEF Latching, Selected, OtherTypes, Release, LatchedServed, MainRuns, console, pio, isr, handler
<1>6. Quiet'
  BY DEF Quiet, Selected, OtherTypes, Release, LatchedServed, MainRuns, console, pio, isr, handler
<1>7. Announced'
  BY DEF Announced, ResetToCome, Latching, Quiet, Ownership, Selected, OtherTypes, Release, LatchedServed, MainRuns, console, pio, isr, handler
<1> QED
  BY <1>1, <1>2, <1>3, <1>4, <1>5, <1>6, <1>7 DEF HandlerTypes

-----------------------------------------------------------------------------
(* What the handler's actions have in common. *)

Unannounced == hcmd \in {"top", "pad"} \/ (hcmd = "mc" /\ hstep = "send")

HandlerEffect ==
    /\ HandlerRuns
    /\ UNCHANGED <<MULTICORE, console, sm, osr, isr, main, imported, card>>
    /\ rx' = rx \/ (rx # <<>> /\ rx' = Tail(rx))
    /\ hcmd = "top" => rx # <<>>
    /\ tx' \in Seq(Bytes) /\ Len(tx') <= FifoDepth
    /\ dat' \in 0 .. FifoDepth
    /\ flag_byte' \in {"08", "00"} /\ mc_data' \in [Indices -> Bytes]
    /\ mutex' = mutex \/ {mutex, mutex'} \subseteq {"free", "handler"}
    /\ HandlerTypes'
    /\ hcmd' = "write" /\ hstep' # "lock" => mutex' = "handler"
    /\ Unannounced' \/ seen' = card \/ (seen' = seen /\ ~Unannounced)

LEMMA HandlerControl ==
    ASSUME Control, HandlerEffect PROVE Control'
<1> USE DEF Control, ControlInv
<1>1. OtherTypes'
  <2>1. rx' \in Seq(Bytes) /\ Len(rx') <= FifoDepth
    <3>1. rx \in Seq(Bytes) /\ Len(rx) <= FifoDepth
      BY DEF OtherTypes
    <3>2. CASE rx' = rx
      BY <3>1, <3>2
    <3>3. CASE rx # <<>> /\ rx' = Tail(rx)
      BY <3>1, <3>3, HeadTailProperties, ExchangesFacts
    <3> QED
      BY <3>2, <3>3 DEF HandlerEffect
  <2>2. acked' \in BOOLEAN /\ ok' \in BOOLEAN /\ cut' \in BOOLEAN
    BY DEF OtherTypes, HandlerEffect, console, isr
  <2> QED
    BY <2>1, <2>2 DEF OtherTypes, HandlerEffect, console, isr
<1>2. Collected'
  BY DEF Collected, HandlerEffect, console
<1>3. Ownership'
  BY DEF Ownership, HandlerEffect, HandlerRuns
<1>4. Latching'
  BY DEF Latching, Selected, HandlerEffect, console, isr
<1>5. Quiet'
  BY DEF Quiet, Selected, HandlerEffect, console, isr
<1>6. Announced'
  BY DEF Announced, Unannounced, ResetToCome, Selected, HandlerEffect, console, isr
<1> QED
  BY <1>1, <1>2, <1>3, <1>4, <1>5, <1>6 DEF HandlerEffect, HandlerTypes

LEMMA Returned ==
    ASSUME HandlerTypes, Idle PROVE HandlerTypes' /\ hcmd' = "top"
BY BusAssumption DEF Idle, GoTo, HandlerTypes, HandlerPlace

LEMMA Received ==
    ASSUME Control, NEW b, Receive(b)
    PROVE  /\ HandlerRuns /\ hstep = "recv" /\ rx # <<>> /\ rx' = Tail(rx)
           /\ b = rx[1] /\ b \in Bytes
           /\ UNCHANGED <<MULTICORE, console, sm, osr, isr>>
           /\ tx' = tx /\ tx \in Seq(Bytes) /\ Len(tx) <= FifoDepth
           /\ dat \in 0 .. FifoDepth /\ flag_byte \in {"08", "00"}
           /\ mc_data \in [Indices -> Bytes]
BY HeadTailProperties DEF Receive, Control, OtherTypes

\* The next exchange of the same command.
LEMMA Followed ==
    ASSUME HandlerTypes, hstep = "recv", hcmd \in MemcardCommands, hpos < Exchanges(hcmd),
           Following, addr' \in Seq(Bytes), sum' \in BOOLEAN,
           Len(addr') = IF hcmd \notin {"read", "write"} \/ hpos < 3 THEN 0
                        ELSE IF hpos = 3 THEN 1 ELSE 2
    PROVE  HandlerTypes'
<1>1. hpos \in 1 .. Exchanges(hcmd) /\ Exchanges(hcmd) \in Nat
  BY CodeFacts, ExchangesFacts DEF HandlerTypes, HandlerPlace
<1>2. hcmd' = hcmd /\ hpos' = hpos + 1 /\ hstep' = "send" /\ seen' = seen
  BY DEF Following
<1>3. hcmd # "refused" /\ hpos' \in 1 .. Exchanges(hcmd')
  BY <1>1, <1>2, CodeFacts
<1>4. Len(addr') = IF hcmd' \notin {"read", "write"} \/ hpos' <= 3 THEN 0
                   ELSE IF hpos' = 4 THEN 1 ELSE 2
  BY <1>1, <1>2
<1>5. HandlerPlace'
  BY <1>2, <1>3, <1>4 DEF HandlerPlace
<1> QED
  BY <1>2, <1>5 DEF HandlerTypes

LEMMA SendEffect == ASSUME Control, Send PROVE HandlerEffect
<1>1. tx' \in Seq(Bytes) /\ Len(tx') <= FifoDepth
  <2>1. Out \in Bytes
    BY OutByte, TypesTogether DEF Control, HandlerTypes
  <2>2. tx \in Seq(Bytes) /\ Len(tx) < FifoDepth /\ tx' = Append(tx, Out)
    BY DEF Send, Control, OtherTypes
  <2> QED
    BY <2>1, <2>2, AppendProperties, ExchangesFacts
<1>2. /\ HandlerTypes'
      /\ hcmd' = "write" /\ hstep' # "lock" => hcmd = "write" /\ hstep # "lock"
      /\ Unannounced' \/ seen' = card \/ (seen' = seen /\ ~Unannounced)
  <2>1. CASE SendOnly /\ hcmd = "id"
    BY <2>1, CodeFacts, ExchangesFacts
       DEF Send, SendOnly, GoTo, Control, HandlerTypes, HandlerPlace, Unannounced
  <2>2. CASE SendOnly /\ hcmd # "id"
    BY <2>2, Returned DEF Send, Control, Unannounced
  <2>3. CASE ~SendOnly
    <3>1. /\ UNCHANGED <<hcmd, hpos, addr, sum>> /\ hstep = "send" /\ hstep' = "recv"
          /\ seen' = IF hcmd = "mc" THEN card ELSE seen
      BY <2>3 DEF Send
    <3>2. HandlerPlace'
      BY <2>3, <3>1 DEF Control, HandlerTypes, HandlerPlace, SendOnly
    <3> QED
      BY <3>1, <3>2, BusAssumption
         DEF Control, OtherTypes, HandlerTypes, HandlerPlace, Unannounced
  <2> QED
    BY <2>1, <2>2, <2>3
<1>3. hcmd # "top"
  BY CodeFacts DEF Send, Control, HandlerTypes, HandlerPlace
<1> QED
  BY <1>1, <1>2, <1>3
     DEF Send, HandlerEffect, cards, Control, ControlInv, Ownership, OtherTypes

LEMMA WriteEnterEffect == ASSUME Control, WriteEnter PROVE HandlerEffect
<1>1. hcmd = "write" /\ hpos = 1
  BY DEF WriteEnter, Control, HandlerTypes, HandlerPlace
<1>2. HandlerTypes'
  BY <1>1, CodeFacts, ExchangesFacts DEF WriteEnter, Control, HandlerTypes, HandlerPlace
<1> QED
  BY <1>1, <1>2
     DEF WriteEnter, Available, HandlerEffect, pio, Control, OtherTypes, Unannounced

LEMMA PadDataEffect == ASSUME Control, PadData PROVE HandlerEffect
<1>1. hcmd = "pad" /\ hpos \in {3, 4}
  BY DEF PadData, Control, HandlerTypes, HandlerPlace
<1>2. HandlerTypes' /\ hcmd' \in {"top", "pad"}
  <2>1. CASE hpos = 3
    BY <1>1, <2>1 DEF PadData, GoTo, Control, HandlerTypes, HandlerPlace, MemcardCommands
  <2>2. CASE hpos = 4
    BY <2>2, Returned DEF PadData, Control
  <2> QED
    BY <1>1, <2>1, <2>2
<1>3. dat' \in 0 .. FifoDepth
  BY ExchangesFacts DEF PadData, Control, OtherTypes
<1> QED
  BY <1>1, <1>2, <1>3
     DEF PadData, HandlerEffect, cards, Control, OtherTypes, Unannounced

LEMMA TopByteEffect ==
    ASSUME Control, NEW b, TopByte(b) PROVE HandlerEffect
<1>1. HandlerTypes' /\ Unannounced' /\ hcmd' # "write"
  <2>1. CASE Idle
    BY <2>1, Returned DEF Control, Unannounced
  <2>2. HandlerTypes /\ Len(addr) = 0
    BY DEF TopByte, Control, HandlerTypes, HandlerPlace
  <2>3. CASE UNCHANGED seen /\ GoTo("mc", 1, "send")
    <3>1. hcmd' = "mc" /\ hpos' = 1 /\ hstep' = "send" /\ addr' = <<>> /\ sum' = TRUE
      BY <2>3 DEF GoTo
    <3>2. HandlerPlace'
      BY <3>1 DEF HandlerPlace
    <3> QED
      BY <2>2, <2>3, <3>1, <3>2 DEF HandlerTypes, Unannounced
  <2>4. CASE UNCHANGED seen /\ GoTo("pad", 1, "recv")
    <3>1. hcmd' = "pad" /\ hpos' = 1 /\ hstep' = "recv" /\ addr' = addr /\ sum' = sum
      BY <2>4 DEF GoTo
    <3>2. HandlerPlace'
      BY <2>2, <3>1 DEF HandlerPlace
    <3> QED
      BY <2>2, <2>4, <3>1, <3>2 DEF HandlerTypes, Unannounced
  <2> QED
    BY <2>1, <2>3, <2>4 DEF TopByte
<1> QED
  BY <1>1, Received DEF TopByte, HandlerEffect, cards

LEMMA CommandByteEffect ==
    ASSUME Control, NEW b, CommandByte(b) PROVE HandlerEffect
<1>1. /\ HandlerTypes' /\ (hcmd' = "write" => hstep' = "lock")
      /\ Unannounced' \/ (seen' = seen /\ ~Unannounced)
  <2>1. CASE Idle
    BY <2>1, Returned DEF Control, Unannounced
  <2>2. ASSUME NEW c \in MemcardCommands,
               GoTo(c, 1, IF c = "write" THEN "lock" ELSE "send"), UNCHANGED seen
        PROVE  /\ HandlerTypes' /\ (hcmd' = "write" => hstep' = "lock")
               /\ Unannounced' \/ (seen' = seen /\ ~Unannounced)
    <3>1. hcmd = "mc" /\ hstep = "recv" /\ Len(addr) = 0
      BY Received, CodeFacts DEF CommandByte, Control, HandlerTypes, HandlerPlace
    <3>2. 1 \in 1 .. Exchanges(c)
      BY CodeFacts, ExchangesFacts
    <3>3. QED
      <4>1. /\ hcmd' = c /\ hpos' = 1 /\ hstep' = IF c = "write" THEN "lock" ELSE "send"
            /\ addr' = addr /\ sum' = sum /\ seen' = seen
            /\ c \notin {"top", "mc", "pad", "refused"}
        BY <2>2, CodeFacts DEF GoTo
      <4>2. HandlerPlace'
        BY <3>1, <3>2, <4>1 DEF HandlerPlace
      <4> QED
        BY <3>1, <4>1, <4>2 DEF Control, HandlerTypes, Unannounced
  <2> QED
    BY <2>1, <2>2 DEF CommandByte
<1>2. hcmd = "mc"
  BY DEF CommandByte
<1> QED
  BY <1>1, <1>2, Received DEF CommandByte, HandlerEffect, cards

LEMMA AddressByteEffect ==
    ASSUME Control, NEW b, AddressByte(b) PROVE HandlerEffect
<1>1. /\ hcmd \in {"read", "write"} /\ hstep = "recv" /\ b \in Bytes /\ HandlerTypes
      /\ hpos \in 1 .. LastBeforeCheck /\ LastBeforeCheck \in {4, 6}
      /\ hpos < Exchanges(hcmd)
  BY Received, ExchangesFacts
     DEF AddressByte, Control, HandlerTypes, HandlerPlace, LastBeforeCheck
<1>2. /\ addr' = IF hpos \in {3, 4} THEN Append(addr, b) ELSE addr
      /\ sum' = sum /\ (Following \/ (hpos = LastBeforeCheck /\ Refuse))
  BY DEF AddressByte
<1>3. addr' \in Seq(Bytes)
  BY <1>1, <1>2, AppendProperties DEF HandlerTypes
<1>4. Len(addr') = IF hpos < 3 THEN 0 ELSE IF hpos = 3 THEN 1 ELSE 2
  <2>1. Len(addr) = IF hpos <= 3 THEN 0 ELSE IF hpos = 4 THEN 1 ELSE 2
    BY <1>1 DEF HandlerTypes, HandlerPlace
  <2>2. Len(addr') = IF hpos \in {3, 4} THEN Len(addr) + 1 ELSE Len(addr)
    BY <1>1, <1>2, AppendProperties DEF HandlerTypes
  <2> QED
    BY <1>1, <2>1, <2>2
<1>5. HandlerTypes' /\ seen' = seen /\ (hcmd' = "write" => hcmd = "write")
  <2>1. CASE Following
    BY <1>1, <1>2, <1>3, <1>4, <2>1, CodeFacts, Followed DEF HandlerTypes, Following
  <2>2. CASE hpos = LastBeforeCheck /\ Refuse
    BY <1>1, <1>2, <1>3, <1>4, <2>2
       DEF Refuse, HandlerTypes, HandlerPlace, LastBeforeCheck
  <2> QED
    BY <1>2, <2>1, <2>2
<1>6. mutex' = mutex /\ (hcmd = "write" => mutex = "handler") /\ ~Unannounced
  BY <1>1 DEF AddressByte, cards, Control, ControlInv, Ownership, Unannounced
<1> QED
  BY <1>1, <1>5, <1>6, Received DEF AddressByte, HandlerEffect, cards

LEMMA ReadByteEffect ==
    ASSUME Control, NEW b, ReadByte(b) PROVE HandlerEffect
<1>1. /\ hcmd = "read" /\ hstep = "recv" /\ HandlerTypes
      /\ hpos \in 7 .. Exchanges("read")
  BY Received, ExchangesFacts DEF ReadByte, Control, HandlerTypes, HandlerPlace
<1>2. HandlerTypes' /\ hcmd' # "write" /\ (Unannounced' \/ seen' = seen)
  <2>1. CASE LastExchange
    BY <2>1, Returned DEF ReadByte, Control, Unannounced
  <2>2. CASE ~LastExchange
    <3>1. Following /\ addr' = addr /\ sum' = sum /\ hpos < Exchanges("read")
      BY <1>1, <2>2, ExchangesFacts DEF ReadByte, LastExchange
    <3>2. Len(addr) = 2 /\ addr \in Seq(Bytes) /\ sum \in BOOLEAN
      BY <1>1 DEF HandlerTypes, HandlerPlace
    <3>3. hcmd' = "read" /\ seen' = seen
      BY <1>1, <3>1 DEF Following
    <3> QED
      BY <1>1, <3>1, <3>2, <3>3, CodeFacts, Followed
  <2> QED
    BY <2>1, <2>2
<1>3. ~Unannounced
  BY <1>1 DEF Unannounced
<1> QED
  BY <1>1, <1>2, <1>3, Received DEF ReadByte, HandlerEffect, cards

LEMMA WriteDataEffect ==
    ASSUME Control, NEW b, WriteData(b) PROVE HandlerEffect
<1>1. /\ hcmd = "write" /\ hstep = "recv" /\ HandlerTypes /\ b \in Bytes
      /\ hpos \in 5 .. 4 + MC_SEC_SIZE
  <2>1. hcmd = "write" /\ hpos - 4 \in 1 .. MC_SEC_SIZE
    BY DEF WriteData, Indices
  <2>2. hpos \in Nat
    BY <2>1, CodeFacts, ExchangesFacts DEF Control, HandlerTypes, HandlerPlace
  <2>3. Receive(b)
    BY DEF WriteData
  <2> QED
    BY <2>1, <2>2, <2>3, Received, ExchangesFacts DEF Control
<1>2. Following /\ addr' = addr /\ sum' \in BOOLEAN /\ mutex' = mutex
  BY DEF WriteData
<1>3. Len(addr) = 2 /\ addr \in Seq(Bytes)
  BY <1>1 DEF HandlerTypes, HandlerPlace
<1>4. HandlerTypes'
  BY <1>1, <1>2, <1>3, CodeFacts, ExchangesFacts, Followed
<1>5. mc_data' \in [Indices -> Bytes]
  BY <1>1, Received DEF WriteData
<1>6. mutex = "handler" /\ seen' = seen /\ ~Unannounced
  BY <1>1, <1>2 DEF Following, Control, ControlInv, Ownership, Unannounced
<1> QED
  BY <1>1, <1>2, <1>4, <1>5, <1>6, Received DEF WriteData, HandlerEffect

LEMMA WriteEndEffect ==
    ASSUME Control, NEW b, WriteEnd(b) PROVE HandlerEffect
<1>1. /\ hcmd = "write" /\ hstep = "recv" /\ HandlerTypes
      /\ hpos \in 5 + MC_SEC_SIZE .. Exchanges("write")
  <2>1. hcmd = "write" /\ hpos > 4 + MC_SEC_SIZE /\ Receive(b)
    BY DEF WriteEnd
  <2>2. hpos \in 1 .. Exchanges("write")
    BY <2>1, CodeFacts, ExchangesFacts DEF Control, HandlerTypes, HandlerPlace
  <2> QED
    BY <2>1, <2>2, Received, ExchangesFacts DEF Control
<1>2. mutex = "handler" /\ ~Unannounced
  BY <1>1 DEF Control, ControlInv, Ownership, Unannounced
<1>3. flag_byte' \in {"08", "00"}
  BY Received DEF WriteEnd
<1>4. CASE LastExchange
  BY <1>1, <1>2, <1>3, <1>4, Returned, Received DEF WriteEnd, HandlerEffect, Control, Unannounced
<1>5. CASE ~LastExchange
  <2>1. Following /\ addr' = addr /\ mutex' = mutex /\ hpos < Exchanges("write")
    BY <1>1, <1>5, ExchangesFacts DEF WriteEnd, LastExchange
  <2>2. sum' \in BOOLEAN
    BY <1>5 DEF WriteEnd
  <2>3. Len(addr) = 2 /\ addr \in Seq(Bytes)
    BY <1>1, ExchangesFacts DEF HandlerTypes, HandlerPlace
  <2>4. HandlerTypes' /\ seen' = seen
    BY <1>1, <2>1, <2>2, <2>3, CodeFacts, ExchangesFacts, Followed DEF Following
  <2> QED
    BY <1>1, <1>2, <1>3, <2>1, <2>4, Received DEF WriteEnd, HandlerEffect
<1> QED
  BY <1>4, <1>5

LEMMA OtherByteEffect ==
    ASSUME Control, NEW b, OtherByte(b) PROVE HandlerEffect
<1>1. /\ hcmd \in {"id", "ping", "gameid"} /\ hstep = "recv" /\ HandlerTypes
      /\ hpos \in 1 .. Exchanges(hcmd) /\ (hcmd = "gameid" => hpos < Exchanges(hcmd))
      /\ addr \in Seq(Bytes) /\ Len(addr) = 0 /\ sum \in BOOLEAN
  <2>1. hcmd \in {"id", "ping", "gameid"} /\ hstep = "recv"
    BY Received DEF OtherByte
  <2> QED
    BY <2>1, ExchangesFacts DEF Control, HandlerTypes, HandlerPlace, SendOnly
<1>2. HandlerTypes' /\ hcmd' # "write" /\ (Unannounced' \/ seen' = seen)
  <2>1. CASE hcmd = "gameid" /\ hpos = 1
    <3>1. PICK n \in 0 .. GameIdLen : GoTo(hcmd, 2 + GameIdLen - n, "send") /\ UNCHANGED seen
      BY <2>1, ExchangesFacts DEF OtherByte, Lengths
    <3>2. 2 + GameIdLen - n \in 1 .. Exchanges("gameid")
      BY ExchangesFacts
    <3> QED
      BY <1>1, <2>1, <3>1, <3>2, CodeFacts DEF GoTo, HandlerTypes, HandlerPlace
  <2>2. CASE LastExchange /\ ~(hcmd = "gameid" /\ hpos = 1)
    BY <2>2, Returned DEF OtherByte, Control, Unannounced
  <2>3. CASE ~LastExchange /\ ~(hcmd = "gameid" /\ hpos = 1)
    <3>1. Following /\ addr' = addr /\ sum' = sum /\ hpos < Exchanges(hcmd)
      BY <1>1, <2>3, ExchangesFacts DEF OtherByte, LastExchange
    <3> QED
      BY <1>1, <3>1, CodeFacts, Followed DEF Following
  <2> QED
    BY <2>1, <2>2, <2>3
<1>3. ~Unannounced
  BY <1>1 DEF Unannounced
<1> QED
  BY <1>1, <1>2, <1>3, Received DEF OtherByte, HandlerEffect, cards

LEMMA PadByteEffect ==
    ASSUME Control, NEW b, PadByte(b) PROVE HandlerEffect
<1>1. hcmd = "pad" /\ HandlerTypes /\ Len(addr) = 0
  BY CodeFacts DEF PadByte, Control, HandlerTypes, HandlerPlace
<1>2. HandlerTypes' /\ Unannounced' /\ hcmd' # "write"
  BY <1>1, Returned DEF PadByte, GoTo, HandlerTypes, HandlerPlace, Unannounced
<1>3. dat' \in 0 .. FifoDepth
  BY Received, ExchangesFacts DEF PadByte
<1> QED
  BY <1>1, <1>2, <1>3, Received DEF PadByte, HandlerEffect, cards

-----------------------------------------------------------------------------
LEMMA ControlNext == Control /\ [Next]_vars => Control'
<1> SUFFICES ASSUME Control, [Next]_vars PROVE Control'
  OBVIOUS
<1>1. CASE ConsoleNext
  BY <1>1, ClockControl, StopControl, SelectControl DEF ConsoleNext
<1>2. CASE HandlerNext
  <2>1. HandlerEffect
    BY <1>2, SendEffect, WriteEnterEffect, PadDataEffect, TopByteEffect, CommandByteEffect,
       AddressByteEffect, ReadByteEffect, WriteDataEffect, WriteEndEffect, OtherByteEffect,
       PadByteEffect DEF HandlerNext
  <2> QED
    BY <2>1, HandlerControl
<1>3. CASE InterruptNext
  BY <1>3, ServeEdgeControl, ResetCore1Control DEF InterruptNext
<1>4. CASE MainNext
  BY <1>4, StartChangeControl, LockControl, ImportFlagControl, ImportByteControl,
     ReconnectBeginControl, ReconnectEndControl, ReleaseControl DEF MainNext
<1>5. CASE UNCHANGED vars
  BY <1>5 DEF vars, console, pio, isr, handler, cards, Control, OtherTypes, HandlerTypes,
     HandlerPlace, SendOnly, ControlInv, Collected, Ownership, Latching, Quiet, Announced,
     ResetToCome, Selected
<1> QED
  BY <1>1, <1>2, <1>3, <1>4, <1>5, PullControl DEF Next

LEMMA ControlInvariant == Spec => []Control
BY InitControl, ControlNext, PTL DEF Spec

\* Every variable has its type: no FIFO is over-filled, no command goes on
\* beyond its last exchange, no address has a third byte (process_cmd).
THEOREM BusTypeCorrect == Spec => []TypeOK
BY ControlInvariant, TypesTogether, PTL

\* A WRITE that has the mutex goes to the card whose flag_byte the console was
\* sent (process_memcard_cmd, simulate_mc_reconnect).
THEOREM WriteToAnnouncedCardInvariant == Spec => []WriteToAnnouncedCard
<1>1. Control => WriteToAnnouncedCard
  BY DEF Control, ControlInv, Ownership, Announced, ResetToCome, WriteToAnnouncedCard
<1> QED
  BY <1>1, ControlInvariant, PTL
=============================================================================
