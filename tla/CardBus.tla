------------------------------ MODULE CardBus ------------------------------
(***************************************************************************)
(* The bus between the console and the card: the console's selections, the *)
(* three PIO programs with their FIFOs (psxSPI.pio), the command handler   *)
(* as the sequence of bytes it exchanges, the deselect interrupt and the   *)
(* simulated reconnection after a change of card.                          *)
(*                                                                         *)
(* Both builds are covered: with one core the handler runs inside the main *)
(* loop and is left where it is by the interrupt, which clears the FIFOs   *)
(* only; with two it runs beside the main loop and is reset.  What is      *)
(* written and when it is saved is the subject of MemcardSimulator; here   *)
(* one sector stands for the card.                                         *)
(*                                                                         *)
(* The console is external.  It clocks a byte, waits for ACK before the    *)
(* next one, gives up when no ACK comes or an answer is wrong, and may be  *)
(* stopped in the middle of a command (an abort).                          *)
(***************************************************************************)
EXTENDS Naturals, Sequences

CONSTANTS
    MC_SEC_SIZE,    \* bytes of the sector
    GameIdLen,      \* bytes of a game ID
    FifoDepth,      \* entries of a joined FIFO: 8 in the RP2040
    Builds,         \* values of the build option MULTICORE
    Commands,       \* what the console asks for
    MaxAborts,      \* bound: commands the console abandons
    MaxEdges,       \* bound: selections the console ends in a reconnection
    MaxCards        \* bound: cards, each imported once

ASSUME BusAssumption ==
    /\ MC_SEC_SIZE \in Nat \ {0} /\ GameIdLen \in Nat
    /\ FifoDepth \in Nat /\ FifoDepth >= 3
    /\ Builds \subseteq BOOLEAN
    /\ Commands \subseteq {"read", "write", "id", "ping", "gameid", "pad"}
    /\ MaxAborts \in Nat /\ MaxEdges \in Nat \ {0} /\ MaxCards \in Nat \ {0}

VARIABLES
    MULTICORE,
    \* the console
    con,            \* the command it is sending, "none" if it has deselected
    clocked,        \* bytes clocked in this selection
    acked,          \* it has seen ACK since the last of them
    ok,             \* the answers were right so far
    got,            \* the data bytes it received
    aborts,
    \* the PIO
    sm,             \* the state machines: not enabled yet, waiting for SEL to
                    \* go low, running, or running from the middle of a byte
    rx,             \* FIFO of cmd_reader
    dat,            \* number of bytes in the FIFO of dat_reader
    tx,             \* FIFO of dat_writer
    osr,            \* the byte dat_writer has acknowledged and will shift out
    \* the deselect interrupt
    cut,            \* a WRITE was cut short and the handler left inside it
    edge,           \* how often SEL has risen since that was served
    irq,            \* "on", "reset" (core 1 is about to be reset), "off", or
                    \* "late": switched off in a selection that still goes on
    \* the command handler
    hcmd, hpos,     \* the command it serves and the exchange it has reached
    hstep,          \* "send", "recv" (from cmd_reader), "dat" or "lock"
    addr,           \* the address bytes received
    sum,            \* the checksum agrees so far
    seen,           \* the card whose flag_byte was sent for this command
    \* the main loop and the card
    main, imported, mutex, flag_byte, card, mc_data

console == <<con, clocked, acked, ok, got, aborts>>
pio     == <<sm, rx, dat, tx, osr>>
isr     == <<cut, edge, irq>>
handler == <<hcmd, hpos, hstep, addr, sum, seen>>
cards   == <<main, imported, mutex, flag_byte, card, mc_data>>
vars    == <<MULTICORE, console, pio, isr, handler, cards>>

-----------------------------------------------------------------------------
(* Bytes.  The sector's bytes are told apart by the card they come from,    *)
(* those of a WRITE by their place in it.                                   *)

Indices == 1 .. MC_SEC_SIZE
Original(c) == IF c = 1 THEN "card1" ELSE "card2"
Data(i) == IF i = 1 THEN "d1" ELSE "d2"

\* Bytes that may have any value; "garbage" is what a state machine started in
\* the middle of a byte receives, "echo" repeats what was received.
Varying == {"msb", "lsb", "chk", "len", "card1", "card2", "other", "d1", "d2",
            "garbage", "echo"}
MayBe(b, value) == b = value \/ b \in Varying
Bytes == Varying \cup {"81", "01", "52", "57", "53", "20", "21", "42", "00", "FF", "5A",
                       "5C", "5D", "47", "4E", "04", "80", "27", "08"}

\* What the console sends as byte k of a command ...
Top(c) == IF c = "pad" THEN "01" ELSE "81"
Code == [read |-> "52", write |-> "57", id |-> "53", ping |-> "20",
         gameid |-> "21", pad |-> "42"]
MemcardCommands == DOMAIN Code \ {"pad"}
Payload(c, k) ==
    CASE c \in {"read", "write"} /\ k = 5 -> "msb"
      [] c \in {"read", "write"} /\ k = 6 -> "lsb"
      [] c = "write" /\ k - 6 \in Indices -> Data(k - 6)
      [] c = "write" /\ k = 7 + MC_SEC_SIZE -> "chk"
      [] c = "gameid" /\ k = 3 -> "len"
      [] c = "gameid" /\ k - 3 \in 1 .. GameIdLen -> "echo"
      [] OTHER -> "00"
Sent(c, k) == CASE k = 1 -> Top(c) [] k = 2 -> Code[c] [] OTHER -> Payload(c, k)

\* ... and the exchanges of a byte that follow its first two.
Exchanges(c) ==
    CASE c = "read" -> 10 + MC_SEC_SIZE [] c = "write" -> 8 + MC_SEC_SIZE
      [] c = "id" -> 9 [] c = "gameid" -> 2 + GameIdLen [] OTHER -> 3
Length(c) == 2 + Exchanges(c)

\* The answers to them that are always the same, and those the console checks.
Answer(c, n) ==
    CASE c \in {"read", "write", "id"} /\ n = 1 -> "5A"
      [] c \in {"read", "write", "id"} /\ n = 2 -> "5D"
      [] c = "read" -> CASE n = 5 -> "5C" [] n = 6 -> "5D" [] n = 7 -> "msb"
                         [] n = 8 -> "lsb" [] n = Exchanges(c) -> "47"
                         [] OTHER -> "00"
      [] c = "write" -> CASE n = 6 + MC_SEC_SIZE -> "5C"
                          [] n = 7 + MC_SEC_SIZE -> "5D"
                          [] n = Exchanges(c) -> "47" [] OTHER -> "00"
      [] c = "id" -> CASE n = 4 -> "5C" [] n = 5 -> "5D" [] n = 6 -> "04"
                       [] n = 9 -> "80" [] OTHER -> "00"
      [] OTHER -> IF c = "ping" /\ n = 3 THEN "27" ELSE "00"
Checked(c) ==
    CASE c = "read" -> {1, 2, 5, 6, 7, 8, Exchanges(c)}
      [] c = "write" -> {1, 2} \cup (6 + MC_SEC_SIZE) .. Exchanges(c)
      [] c = "id" -> 1 .. 9
      [] OTHER -> {}

-----------------------------------------------------------------------------
TypeOK ==
    /\ MULTICORE \in Builds
    /\ con \in Commands \cup {"none"}
    /\ clocked \in 0 .. (IF con = "none" THEN 0 ELSE Length(con))
    /\ {acked, ok, cut, sum} \subseteq BOOLEAN
    /\ got \in Seq(Bytes) /\ Len(got) <= MC_SEC_SIZE
    /\ aborts \in 0 .. MaxAborts
    /\ sm \in {"disabled", "waiting", "running", "shifted"}
    /\ {rx, tx} \subseteq Seq(Bytes) /\ osr \in Bytes \cup {"none"}
    /\ Len(rx) <= FifoDepth /\ Len(tx) <= FifoDepth /\ dat \in 0 .. FifoDepth
    /\ edge \in 0 .. MaxEdges
    /\ irq \in {"on", "reset", "off", "late"}
    /\ hcmd \in DOMAIN Code \cup {"top", "mc", "refused"}
    /\ hpos \in 0 .. (IF hcmd = "pad" THEN 4
                     ELSE IF hcmd \in DOMAIN Code THEN Exchanges(hcmd) ELSE 1)
    /\ hstep \in {"send", "recv", "dat", "lock"}
    /\ addr \in Seq(Bytes) /\ Len(addr) <= 2
    /\ seen \in 0 .. MaxCards
    /\ main \in {"serve", "lock", "import", "data", "reconnect", "release"}
    /\ imported \in 0 .. MC_SEC_SIZE
    /\ mutex \in {"free", "handler", "main"}
    /\ flag_byte \in {"08", "00"}
    /\ card \in 1 .. MaxCards
    /\ mc_data \in [Indices -> Bytes]

\* simulate_memory_card when it has imported the first card.
Init ==
    /\ MULTICORE \in Builds
    /\ con = "none" /\ clocked = 0 /\ acked = FALSE /\ ok = TRUE /\ got = <<>>
    /\ aborts = 0
    /\ sm = "disabled" /\ rx = <<>> /\ dat = 0 /\ tx = <<>> /\ osr = "none"
    /\ cut = FALSE /\ edge = 0 /\ irq = "on"
    /\ hcmd = "top" /\ hpos = 0 /\ hstep = "recv" /\ addr = <<>>
    /\ sum = TRUE /\ seen = 0
    /\ main = "serve" /\ imported = 0 /\ mutex = "free" /\ flag_byte = "08"
    /\ card = 1 /\ mc_data = [i \in Indices |-> Original(1)]

-----------------------------------------------------------------------------
(* The console. *)

Selected == con # "none"

HandlerRuns == MULTICORE \/ main = "serve"
HandlerBusy == /\ HandlerRuns
               /\ \/ hstep = "send" /\ Len(tx) < FifoDepth
                  \/ hstep = "recv" /\ rx # <<>>
PullReady == sm \in {"running", "shifted"} /\ tx # <<>> /\ osr = "none"

\* An edge is served and the handler waits long before the next selection,
\* unless the interrupt is switched off.
Select(c) ==
    /\ ~Selected /\ ~HandlerBusy /\ irq # "reset" /\ edge < MaxEdges /\ (edge > 0 => irq = "off")
    /\ con' = c
    /\ sm' = IF sm = "waiting" THEN "running" ELSE sm
    /\ UNCHANGED <<MULTICORE, clocked, acked, ok, got, aborts, rx, dat, tx, osr,
                   isr, handler, cards>>

\* A byte in both directions; dat_writer has taken what there is by then.  A
\* full FIFO stalls its state machine.  The card need not acknowledge the bytes
\* of a pad poll: the pad does.
Clock ==
    LET k == clocked + 1
        b == IF osr = "none" THEN "FF" ELSE IF sm = "shifted" THEN "garbage" ELSE osr
    IN  /\ Selected /\ ok /\ clocked < Length(con)
        /\ clocked = 0 \/ acked \/ con = "pad"
        /\ ~PullReady
        /\ clocked' = k /\ acked' = FALSE /\ osr' = "none"
        /\ ok' = (k - 2 \in Checked(con) => b = Answer(con, k - 2))
        /\ got' = IF con = "read" /\ k - 10 \in Indices THEN Append(got, b) ELSE got
        /\ IF sm # "disabled" /\ Len(rx) < FifoDepth
           THEN rx' = Append(rx, IF sm = "shifted" THEN "garbage" ELSE Sent(con, k))
           ELSE UNCHANGED rx
        /\ dat' = IF sm # "disabled" /\ dat < FifoDepth THEN dat + 1 ELSE dat
        /\ UNCHANGED <<MULTICORE, con, aborts, sm, tx, isr, handler, cards>>

Deselect ==
    /\ con' = "none" /\ clocked' = 0 /\ acked' = FALSE /\ ok' = TRUE /\ got' = <<>>
    /\ edge' = edge + 1 /\ irq' = IF irq = "late" THEN "off" ELSE irq
    /\ UNCHANGED <<MULTICORE, pio, cut, handler, cards>>

\* No ACK is coming: the handler does not run, or waits for something else.
Silent == /\ tx = <<>>
          /\ \/ ~HandlerRuns
             \/ hstep = "recv" /\ rx = <<>>
             \/ hstep = "dat" /\ dat = 0
             \/ hstep = "lock" /\ mutex # "free"

\* The command is complete, an answer was wrong or no ACK is coming.
GiveUp ==
    /\ Selected
    /\ \/ clocked = Length(con) \/ ~ok
       \/ ~acked /\ clocked > 0 /\ Silent
    /\ Deselect /\ UNCHANGED aborts

\* The console drops a command, or its patience ends as the ACK is coming.
Abort ==
    /\ Selected /\ clocked > 0 /\ aborts < MaxAborts
    /\ Deselect /\ aborts' = aborts + 1

-----------------------------------------------------------------------------
(* The state machines and the interrupt. *)

\* dat_writer takes a byte and asserts ACK; once started it does not look at
\* SEL again.
Pull ==
    /\ PullReady
    /\ osr' = Head(tx) /\ tx' = Tail(tx)
    /\ acked' = (acked \/ Selected)
    /\ UNCHANGED <<MULTICORE, con, clocked, ok, got, aborts, sm, rx, dat,
                   isr, handler, cards>>

\* Restarting in a selection may be in the middle of a byte.
\* Seeded bug: the FIFOs keep what is in them.
Restarted == IF Selected THEN {"running", "shifted"} ELSE {"waiting"}
RestartKeeping == sm' \in Restarted /\ UNCHANGED <<rx, dat, tx, osr>>
Restart ==
    /\ sm' \in Restarted
    /\ rx' = <<>> /\ dat' = 0 /\ tx' = <<>> /\ osr' = "none"

\* sel_isr_callback, restart_pio_sm.  The handler on core 1 runs on meanwhile.
ServeEdge ==
    /\ edge > 0 /\ irq = "on"
    /\ edge' = 0 /\ irq' = IF MULTICORE THEN "reset" ELSE "on"
    /\ Restart
    /\ cut' = (cut \/ (~MULTICORE /\ hcmd = "write" /\ hpos - 4 <= MC_SEC_SIZE))
    /\ UNCHANGED <<MULTICORE, console, handler, cards>>

GoTo(c, n, step) ==
    /\ hcmd' = c /\ hpos' = n /\ hstep' = step
    /\ IF c \in {"top", "mc"} THEN addr' = <<>> /\ sum' = TRUE
                              ELSE UNCHANGED <<addr, sum>>
Idle == GoTo("top", 0, "recv") /\ seen' = 0

\* Seeded bug: the core is not reset.
ResetNothing == UNCHANGED handler
Reset == Idle

ResetCore1 ==
    /\ irq = "reset" /\ irq' = "on"
    /\ Reset
    /\ UNCHANGED <<MULTICORE, console, pio, cut, edge, cards>>

-----------------------------------------------------------------------------
(* The command handler: process_cmd and what it calls, as exchanges of a    *)
(* SEND and a RECV.                                                         *)

Ours == addr = <<"msb", "lsb">>

\* SEND(sec_ptr[i]) and the other answers that vary.  The final answer to a
\* WRITE depends on the checksum.
Out ==
    CASE hcmd = "mc" -> flag_byte
      [] hcmd = "refused" -> "FF"
      [] hcmd = "read" /\ hpos \in {7, 8} -> addr[hpos - 6]
      [] hcmd = "read" /\ hpos - 8 \in Indices -> IF Ours THEN mc_data[hpos - 8] ELSE "other"
      [] hcmd = "read" /\ hpos = 9 + MC_SEC_SIZE -> "chk"
      [] hcmd = "write" /\ hpos = 8 + MC_SEC_SIZE -> IF sum THEN "47" ELSE "4E"
      [] hcmd \in {"read", "write"} /\ Answer(hcmd, hpos) = "00" /\ hpos > 3 -> "echo"
      [] OTHER -> Answer(hcmd, hpos)

\* Sent without a RECV after it.
SendOnly == \/ hcmd = "id" /\ hpos = 3
            \/ hcmd = "gameid" /\ hpos = Exchanges("gameid")
            \/ hcmd = "refused"

Send ==
    /\ HandlerRuns
    /\ hstep = "send" /\ Len(tx) < FifoDepth
    /\ tx' = Append(tx, Out)
    /\ IF SendOnly THEN IF hcmd = "id" THEN GoTo("id", 4, "send") /\ UNCHANGED seen
                                       ELSE Idle
       ELSE /\ hstep' = "recv" /\ UNCHANGED <<hcmd, hpos, addr, sum>>
            /\ seen' = IF hcmd = "mc" THEN card ELSE seen
    /\ UNCHANGED <<MULTICORE, console, sm, rx, dat, osr, isr, cards>>

\* RECV_CMD returns b.
Receive(b) == /\ HandlerRuns
              /\ hstep = "recv" /\ rx # <<>>
              /\ b = Head(rx) /\ rx' = Tail(rx)
              /\ UNCHANGED <<MULTICORE, console, sm, tx, osr, isr>>

\* process_cmd; a byte that begins no command is dropped.
TopByte(b) ==
    /\ hcmd = "top" /\ Receive(b)
    /\ \/ MayBe(b, "81") /\ GoTo("mc", 1, "send") /\ UNCHANGED seen
       \/ MayBe(b, "01") /\ GoTo("pad", 1, "recv") /\ UNCHANGED seen
       \/ b \notin {"81", "01"} /\ Idle
    /\ UNCHANGED <<dat, cards>>

\* process_memcard_cmd: the command.
CommandByte(b) ==
    /\ hcmd = "mc" /\ Receive(b)
    /\ \/ \E c \in MemcardCommands :
             /\ MayBe(b, Code[c])
             /\ GoTo(c, 1, IF c = "write" THEN "lock" ELSE "send")
             /\ UNCHANGED seen
       \/ b \notin {Code[c] : c \in MemcardCommands} /\ Idle
    /\ UNCHANGED <<dat, cards>>

\* mutex_enter_blocking.  Seeded bug: a WRITE does not wait.
AvailableAlways == TRUE
Available == mutex = "free"
WriteEnter ==
    /\ HandlerRuns
    /\ hstep = "lock" /\ Available
    /\ hstep' = "send" /\ mutex' = "handler"
    /\ UNCHANGED <<MULTICORE, console, pio, isr, hcmd, hpos, addr, sum, seen,
                   main, imported, flag_byte, card, mc_data>>

\* memory_card_is_sector_valid: another sector may be valid as far as its first
\* byte leaves it open.
MayBeValid == addr'[1] \notin {"81", "52", "57", "53", "42"}
MayBeInvalid == ~Ours' /\ addr'[1] \notin {"00", "01"}

\* Seeded bug: one exchange too many.
LastExchangeLate == hpos = Exchanges(hcmd) + 1
LastExchange == hpos = Exchanges(hcmd)

Following == hcmd' = hcmd /\ hpos' = hpos + 1 /\ hstep' = "send" /\ UNCHANGED seen
Refuse == hcmd' = "refused" /\ hpos' = 0 /\ hstep' = "send" /\ UNCHANGED seen

\* The two bytes of the address; it is checked when the console has sent it
\* (WRITE) or after the acks (READ).  A refused WRITE keeps the mutex.
LastBeforeCheck == IF hcmd = "read" THEN 6 ELSE 4
AddressByte(b) ==
    /\ hcmd \in {"read", "write"} /\ hpos <= LastBeforeCheck /\ Receive(b)
    /\ addr' = IF hpos \in {3, 4} THEN Append(addr, b) ELSE addr
    /\ sum' = sum
    /\ IF hpos = LastBeforeCheck
       THEN (MayBeValid /\ Following) \/ (MayBeInvalid /\ Refuse)
       ELSE Following
    /\ UNCHANGED <<dat, cards>>

\* READ: what the console sends meanwhile is ignored.
ReadByte(b) ==
    /\ hcmd = "read" /\ hpos > 6 /\ Receive(b)
    /\ IF LastExchange THEN Idle ELSE Following /\ UNCHANGED <<addr, sum>>
    /\ UNCHANGED <<dat, cards>>

\* WRITE: a byte of the sector goes straight into the card in RAM.
\* Seeded bug: the byte is stored after the place has moved on.
PlaceNext(i) == IF i = MC_SEC_SIZE THEN 1 ELSE i + 1
Place(i) == i
WriteData(b) ==
    /\ hcmd = "write" /\ hpos - 4 \in Indices /\ Receive(b)
    /\ mc_data' = IF Ours THEN [mc_data EXCEPT ![Place(hpos - 4)] = b] ELSE mc_data
    /\ sum' = (sum /\ Ours /\ b = Data(hpos - 4))
    /\ Following
    /\ UNCHANGED <<addr, dat, main, imported, mutex, flag_byte, card>>

\* The checksum, the acks - after which the card is no longer new - and the
\* answer, after which the transaction ends.
WriteEnd(b) ==
    /\ hcmd = "write" /\ hpos > 4 + MC_SEC_SIZE /\ Receive(b)
    /\ flag_byte' = IF hpos = 7 + MC_SEC_SIZE THEN "00" ELSE flag_byte
    /\ IF LastExchange THEN Idle /\ mutex' = "free"
       ELSE /\ Following /\ UNCHANGED <<addr, mutex>>
            /\ sum' = (sum /\ (hpos = 5 + MC_SEC_SIZE => b = "chk"))
    /\ UNCHANGED <<dat, main, imported, card, mc_data>>

\* MEMCARD_GAMEID with the length received; an unexpected one may be any.
Lengths(b) == CASE b = "len" -> {GameIdLen} [] b = "00" -> {0} [] OTHER -> 0 .. GameIdLen

OtherByte(b) ==
    /\ hcmd \in {"id", "ping", "gameid"} /\ Receive(b)
    /\ IF hcmd = "gameid" /\ hpos = 1
       THEN \E n \in Lengths(b) : GoTo(hcmd, 2 + GameIdLen - n, "send") /\ UNCHANGED seen
       ELSE IF LastExchange THEN Idle
       ELSE Following /\ UNCHANGED <<addr, sum>>
    /\ UNCHANGED <<dat, cards>>

\* process_pad_cmd only listens, first to the console and then to the pad.
PadByte(b) ==
    /\ hcmd = "pad" /\ Receive(b)
    /\ IF hpos = 1
       THEN /\ UNCHANGED dat
            /\ \/ MayBe(b, Code["pad"]) /\ GoTo("pad", 2, "recv") /\ UNCHANGED seen
               \/ b # Code["pad"] /\ Idle
       ELSE dat' = 0 /\ GoTo("pad", 3, "dat") /\ UNCHANGED seen
    /\ UNCHANGED cards

PadData ==
    /\ HandlerRuns
    /\ hstep = "dat" /\ dat > 0
    /\ dat' = dat - 1
    /\ IF hpos = 3 THEN GoTo("pad", 4, "dat") /\ UNCHANGED seen ELSE Idle
    /\ UNCHANGED <<MULTICORE, console, sm, rx, tx, osr, isr, cards>>
-----------------------------------------------------------------------------
(* The main loop: a change of card.  The interrupt runs on the same core.   *)

MainRuns == irq # "reset"

\* With one core the loop goes on to it between two commands only.
StartChange ==
    /\ MainRuns
    /\ main = "serve" /\ card < MaxCards
    /\ MULTICORE \/ (hcmd = "top" /\ rx = <<>>)
    /\ main' = "lock"
    /\ UNCHANGED <<MULTICORE, console, pio, isr, handler, imported, mutex,
                   flag_byte, card, mc_data>>

Lock ==
    /\ MainRuns
    /\ main = "lock" /\ mutex = "free"
    /\ main' = "import" /\ mutex' = "main"
    /\ UNCHANGED <<MULTICORE, console, pio, isr, handler, imported, flag_byte,
                   card, mc_data>>

\* memory_card_import.  Seeded bug: the flag is set when the data is there.
FlagAtImportLate == flag_byte
FlagAtImport == "08"
ImportFlag ==
    /\ MainRuns
    /\ main = "import"
    /\ main' = "data" /\ card' = card + 1
    /\ flag_byte' = FlagAtImport
    /\ UNCHANGED <<MULTICORE, console, pio, isr, handler, imported, mutex, mc_data>>

ImportByte ==
    /\ MainRuns
    /\ main = "data" /\ imported < MC_SEC_SIZE
    /\ imported' = imported + 1
    /\ mc_data' = [mc_data EXCEPT ![imported + 1] = Original(card)]
    /\ UNCHANGED <<MULTICORE, console, pio, isr, handler, main, mutex, flag_byte, card>>

\* simulate_mc_reconnect: the interrupt is off for a second, longer than the
\* selection it may have been switched off in.
ReconnectBegin ==
    /\ MainRuns
    /\ main = "data" /\ imported = MC_SEC_SIZE
    /\ main' = "reconnect" /\ imported' = 0
    /\ irq' = IF Selected THEN "late" ELSE "off"
    /\ IF sm = "disabled" THEN UNCHANGED sm /\ rx' = <<>> /\ dat' = 0 /\ tx' = <<>> /\ osr' = "none"
                          ELSE Restart
    /\ UNCHANGED <<MULTICORE, console, cut, edge, handler, mutex, flag_byte, card,
                   mc_data>>

ReconnectEnd ==
    /\ main = "reconnect" /\ irq = "off"
    /\ main' = "release" /\ irq' = "on"
    /\ UNCHANGED <<MULTICORE, console, pio, cut, edge, handler, imported, mutex,
                   flag_byte, card, mc_data>>

\* An edge that came meanwhile is served before the mutex is left.
\* Seeded bug: the mutex is left first.
LatchedServedLate == TRUE
LatchedServed == edge = 0
Release ==
    /\ MainRuns
    /\ main = "release" /\ LatchedServed
    /\ main' = "serve" /\ mutex' = "free"
    /\ UNCHANGED <<MULTICORE, console, pio, isr, handler, imported, flag_byte,
                   card, mc_data>>

-----------------------------------------------------------------------------
ConsoleNext == Clock \/ GiveUp \/ Abort \/ \E c \in Commands : Select(c)

HandlerNext ==
    \/ Send \/ WriteEnter \/ PadData
    \/ \E b \in {rx[k] : k \in {1} \cap DOMAIN rx} :
          \/ TopByte(b) \/ CommandByte(b) \/ AddressByte(b) \/ ReadByte(b)
          \/ WriteData(b) \/ WriteEnd(b) \/ OtherByte(b) \/ PadByte(b)

InterruptNext == ServeEdge \/ ResetCore1

MainNext == \/ StartChange \/ Lock \/ ImportFlag \/ ImportByte
            \/ ReconnectBegin \/ ReconnectEnd \/ Release

Next == ConsoleNext \/ Pull \/ HandlerNext \/ InterruptNext \/ MainNext

Spec == Init /\ [][Next]_vars

-----------------------------------------------------------------------------
(* What the component promises. *)

\* Every byte of the sector in RAM is a card's own or one the console sent
\* for that very place, whatever commands were cut short, by the console, a
\* timeout or a change of card, and were taken up by the handler afterwards.
\* With one core this ends with the first WRITE the console abandons: the
\* handler takes what comes next for the rest of it (process_memcard_cmd,
\* restart_pio_sm).
SectorFromWrite ==
    ~cut =>
        \A i \in Indices : mc_data[i] \in {Original(c) : c \in 1 .. MaxCards} \cup {Data(i)}

\* A READ the console accepts delivers the sector, or the card is announced as
\* new when the console asks next: with two cores the card may be replaced
\* in the middle of it (process_memcard_cmd, memory_card_import).
AcceptedRead ==
    [][con = "read" /\ clocked = Length(con) - 1 /\ clocked' = Length(con) /\ ok'
       => flag_byte = "08" \/ got = [i \in Indices |-> mc_data[i]]]_vars

\* When the console is told that its WRITE is good, the sector is what it
\* sent and the card is no longer new.
AcceptedWrite ==
    [][con = "write" /\ clocked = Length(con) - 1 /\ clocked' = Length(con) /\ ok'
       => flag_byte = "00" /\ mc_data = [i \in Indices |-> Data(i)]]_vars

\* A WRITE that has the mutex goes to the card whose flag_byte the console was
\* sent: one that waited while the card was replaced is reset by the latched
\* edge before it can go on (simulate_mc_reconnect).
WriteToAnnouncedCard ==
    hcmd = "write" /\ hstep # "lock" => seen = card

-----------------------------------------------------------------------------
(* What the promises rest on: an inductive invariant.                       *)

\* Where the handler can be, and how much of an address it has.
HandlerPlace ==
    /\ \/ hcmd = "top" /\ hpos = 0 /\ hstep = "recv"
       \/ hcmd = "mc" /\ hpos = 1 /\ hstep \in {"send", "recv"}
       \/ hcmd = "refused" /\ hpos = 0 /\ hstep = "send"
       \/ hcmd = "pad" /\ hpos \in {1, 2} /\ hstep = "recv"
       \/ hcmd = "pad" /\ hpos \in {3, 4} /\ hstep = "dat"
       \/ hcmd = "write" /\ hpos = 1 /\ hstep = "lock"
       \/ /\ hcmd \in MemcardCommands /\ hpos \in 1 .. Exchanges(hcmd)
          /\ hstep = "send" \/ (hstep = "recv" /\ ~SendOnly)
    /\ Len(addr) = IF hcmd = "refused" THEN 2
                   ELSE IF hcmd \notin {"read", "write"} \/ hpos <= 3 THEN 0
                   ELSE IF hpos = 4 THEN 1 ELSE 2

\* What a console has of the sector follows from where it is.
Collected ==
    Len(got) = IF con = "read" /\ clocked - 10 \in Indices THEN clocked - 10
               ELSE IF con = "read" /\ clocked > 10 THEN MC_SEC_SIZE ELSE 0

\* The mutex follows the main loop and the handler.
Ownership ==
    /\ mutex = "main" <=> main \in {"import", "data", "reconnect", "release"}
    /\ hcmd = "write" /\ hstep # "lock" => mutex = "handler"
    /\ main \in {"lock", "import"} => card < MaxCards
    /\ ~MULTICORE /\ main # "serve" => hcmd = "top"

\* An edge is latched in a selection, and core 1 about to be reset in one, only
\* around the end of a reconnection.
Latching ==
    /\ irq \in {"off", "late"} <=> main = "reconnect"
    /\ irq = "late" => Selected
    /\ irq = "reset" => MULTICORE /\ (edge > 0 => main = "release")
    /\ Selected => /\ edge < MaxEdges
                   /\ (edge > 0 \/ irq = "reset") => main \in {"reconnect", "release"}

\* Once an edge is served nothing is left of the selection, with two cores.
Quiet ==
    ~Selected /\ edge = 0 =>
        rx = <<>> /\ (MULTICORE => hcmd = "top" \/ irq = "reset")

\* A handler that has sent the flag_byte of a card that is gone will be reset
\* before the mutex is free.
ResetToCome ==
    /\ MULTICORE /\ main \in {"data", "reconnect", "release"}
    /\ irq \in {"late", "reset"} \/ edge > 0 \/ (main = "data" /\ Selected)
Announced ==
    hcmd \in {"top", "pad"} \/ (hcmd = "mc" /\ hstep = "send") \/ seen = card \/ ResetToCome

ControlInv == HandlerPlace /\ Collected /\ Ownership /\ Latching /\ Quiet /\ Announced

\* How many bytes of a WRITE the handler may have taken of this selection, and
\* how many answers it has sent that were not shifted out, or will send without
\* another byte.
Receiving == hcmd = "write" /\ hpos <= 4 + MC_SEC_SIZE /\ irq # "reset"
Taken == IF irq # "reset" /\ hcmd = "mc" THEN 1 ELSE IF Receiving THEN hpos + 1 ELSE 0
Pending == Len(tx) + (IF osr = "none" THEN 0 ELSE 1)
Owing == IF hstep \notin {"send", "lock"} THEN 0 ELSE IF hcmd = "id" /\ hpos = 3 THEN 2 ELSE 1

\* Handler and FIFO hold what the console sent from the first byte on, in order
\* and in full; the answers the console waits for leave room in the FIFO.
InStep ==
    \E c \in {"read", "write"} :
        /\ \A i \in 1 .. Len(rx) : rx[i] = Sent(c, Taken + i)
        /\ Receiving => /\ c = "write"
                        /\ hpos >= 4 => addr[1] = "msb"
                        /\ hpos >= 5 => addr[2] = "lsb"
        /\ Selected => /\ con = c /\ sm = "running" /\ clocked = Taken + Len(rx)
                       /\ clocked > 0 /\ acked => osr # "none"
                       /\ Len(rx) + Pending + Owing <= IF clocked = 0 THEN 2 ELSE 3

\* The handler has taken fewer: the address comes too early to be one.
Behind ==
    /\ \A i \in 1 .. Len(rx) : rx[i] = "msb" => Taken + i < 5
    /\ Receiving /\ hpos >= 4 => addr[1] # "msb"
    /\ Selected => \/ con \notin {"read", "write"} \/ sm \in {"disabled", "shifted"}
                   \/ clocked >= 5 \/ Taken + Len(rx) < clocked

\* The handler is still in the command before; what comes is no code.
Misled ==
    /\ hcmd = "mc" /\ irq # "reset"
    /\ rx # <<>> => rx[1] \in {"81", "01"}
    /\ \A i \in 1 .. Len(rx) : rx[i] = "msb" => i <= 5
    /\ Selected => sm = "running" /\ Len(rx) <= clocked /\ (rx = <<>> => clocked = 0)

Calm == irq # "late" /\ (edge = 0 \/ main \notin {"reconnect", "release"})
StreamInv ==
    Calm => /\ ~cut => InStep \/ Behind \/ Misled
            /\ ~Selected /\ edge = 0 => Pending + Owing <= 2 /\ (Receiving => cut)

BusInv == ControlInv /\ StreamInv

-----------------------------------------------------------------------------
(* Fairness: the device runs, a console that has begun goes on, and it asks   *)
(* for the card again and again.                                              *)

FairSpec ==
    /\ Spec
    /\ WF_vars(Clock) /\ WF_vars(GiveUp) /\ SF_vars(Select("read"))
    /\ WF_vars(Pull) /\ WF_vars(HandlerNext) /\ WF_vars(InterruptNext)
    /\ WF_vars(MainNext) /\ SF_vars(Release)

Answered == con = "read" /\ clocked = Length(con) /\ ok

\* With one core a WRITE cut short may end with a refused address, which keeps
\* the mutex: the next to enter it stops the device.
Stuck == /\ cut /\ mutex = "handler"
         /\ main = "lock" \/ hstep = "lock"

\* However often a command was cut short, a console that goes on with READs is
\* answered in the end: the interrupt brings handler and state machines back
\* in step with it, as does the handler itself with one core.
Recovers == <>[](con \in {"none", "read"}) => ([]<>Answered \/ <>[]Stuck)
=============================================================================
