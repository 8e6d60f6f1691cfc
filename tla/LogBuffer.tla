----------------------------- MODULE LogBuffer -----------------------------
(***************************************************************************)
(* The ring buffer of the debug log (debug.c) and the macros that use it   *)
(* (debug.h).  Messages are written to the ring and sent from there to the *)
(* serial port, as far as the port takes them; what does not fit is        *)
(* dropped and counted.  Everything runs in one thread: the serial port is *)
(* the only other actor, through the room it offers.  The report on what   *)
(* was dropped (usb_log_report_drops, through DBG_FLUSH) is left out:      *)
(* nothing in the program asks for it.                                     *)
(*                                                                         *)
(* A byte is represented by its number among all the bytes printed.        *)
(***************************************************************************)
EXTENDS Naturals, Sequences

CONSTANTS
    LOG_BUFFER_SIZE,   \* bytes of the ring
    MaxMessage,        \* the longest message, the size of tmp less one
    NewlineLen,        \* bytes of the end of line the macros add
    MaxRoom,           \* the most the serial port offers at once
    MaxPrinted         \* bound: bytes printed in a run

ASSUME LogBufferAssumption ==
    /\ LOG_BUFFER_SIZE \in Nat \ {0}
    /\ {MaxMessage, NewlineLen, MaxRoom} \subseteq Nat \ {0}
    /\ MaxPrinted \in Nat

VARIABLES
    calls,      \* the calls the macro under way has still to make
    log_buf,
    head, tail,
    dropped,    \* messages cut because the ring was full
    printed,    \* bytes printed so far
    accepted,   \* those of them that entered the ring, in order
    sent        \* those the serial port took, in order

vars == <<calls, log_buf, head, tail, dropped, printed, accepted, sent>>

Index == 0 .. LOG_BUFFER_SIZE - 1
Calls == {"print", "newline", "flush"}

TypeOK ==
    /\ calls \in Seq(Calls) /\ Len(calls) <= 3
    /\ log_buf \in [Index -> 0 .. MaxPrinted]
    /\ head \in Index /\ tail \in Index
    /\ dropped \in Nat /\ printed \in 0 .. MaxPrinted
    /\ accepted \in Seq(1 .. MaxPrinted) /\ sent \in Seq(1 .. MaxPrinted)

Init ==
    /\ calls = <<>>
    /\ log_buf = [i \in Index |-> 0]
    /\ head = 0 /\ tail = 0 /\ dropped = 0
    /\ printed = 0 /\ accepted = <<>> /\ sent = <<>>

-----------------------------------------------------------------------------
Smaller(a, b) == IF a <= b THEN a ELSE b

\* Seeded bug: positions are not brought back to the start of the ring.
AdvanceUnwrapped(i, n) == i + n
Advance(i, n) == (i + n) % LOG_BUFFER_SIZE

rb_used == IF head >= tail THEN head - tail ELSE LOG_BUFFER_SIZE - (tail - head)

\* One place stays empty.
Room == LOG_BUFFER_SIZE - rb_used - 1

\* rb_write: the bytes that fit enter the ring; one of the others is counted.
rb_write(len) ==
    LET n == Smaller(len, Room)
    IN  /\ printed + len <= MaxPrinted
        /\ printed' = printed + len
        /\ log_buf' = [i \in Index |->
                          LET k == (i + LOG_BUFFER_SIZE - head) % LOG_BUFFER_SIZE
                          IN  IF k < n THEN printed + k + 1 ELSE log_buf[i]]
        /\ head' = Advance(head, n)
        /\ dropped' = IF Room < len THEN dropped + 1 ELSE dropped
        /\ accepted' = accepted \o [k \in 1 .. n |-> printed + k]

Return == calls' = Tail(calls)
Calling(c) == calls # <<>> /\ Head(calls) = c

-----------------------------------------------------------------------------
\* DBG_INFO and DBG_VERBOSE.
Info == /\ calls = <<>> /\ calls' = <<"print", "newline", "flush">>
        /\ UNCHANGED <<log_buf, head, tail, dropped, printed, accepted, sent>>

\* usb_debug_printf of a message and of the end of line.
PrintMessage(len) ==
    /\ \/ Calling("print")
       \/ Calling("newline") /\ len = NewlineLen
    /\ rb_write(len)
    /\ Return
    /\ UNCHANGED <<tail, sent>>

\* An empty message, or one that cannot be formatted, is not written.
PrintNothing ==
    /\ Calling("print") /\ Return
    /\ UNCHANGED <<log_buf, head, tail, dropped, printed, accepted, sent>>

\* One turn of the loop of usb_log_flush: what the port has room for is sent,
\* in two parts if it goes around the end of the ring.
Part(from, n) == [k \in 1 .. n |-> log_buf[from + k - 1]]

\* Seeded bug: the second part is not sent from the start of the ring.
SecondPartFromTail(first) == tail
SecondPart(first) == Advance(tail, first)

FlushChunk(avail) ==
    LET chunk == Smaller(rb_used, avail)
        first == Smaller(chunk, LOG_BUFFER_SIZE - tail)
    IN  /\ Calling("flush") /\ rb_used > 0
        /\ sent' = sent \o Part(tail, first) \o Part(SecondPart(first), chunk - first)
        /\ tail' = Advance(Advance(tail, first), chunk - first)
        /\ UNCHANGED <<calls, log_buf, head, dropped, printed, accepted>>

\* The ring is empty, the port is full or nobody is connected to it.
FlushEnd ==
    /\ Calling("flush") /\ Return
    /\ UNCHANGED <<log_buf, head, tail, dropped, printed, accepted, sent>>

Next ==
    \/ Info \/ PrintNothing \/ FlushEnd
    \/ \E len \in 1 .. MaxMessage : PrintMessage(len)
    \/ \E avail \in 1 .. MaxRoom : FlushChunk(avail)

Spec == Init /\ [][Next]_vars

-----------------------------------------------------------------------------
(* What the component promises. *)

\* What the serial port took and what waits in the ring are together what was
\* accepted, in order, each byte once - across the wrap of the ring, a flush
\* the port stops half way and the messages that did not fit (rb_write,
\* usb_log_flush).
InRing == [k \in 1 .. rb_used |-> log_buf[(tail + k - 1) % LOG_BUFFER_SIZE]]
SentInOrder == accepted = sent \o InRing
=============================================================================
