------------------------------- MODULE Console -------------------------------
(***************************************************************************)
(* Characters in and out: threads print lines through the console lock, the *)
(* serial port sends them from a ring buffer under interrupts while the VGA  *)
(* text screen shows them, and keys from the keyboard and the serial line    *)
(* wait in a second ring buffer for the threads that read them               *)
(* (lib/kernel/console.c, devices/serial.c, intq.c, input.c, kbd.c, vga.c).   *)
(* One CPU: what runs with interrupts off is one step, up to the point where  *)
(* it sleeps.                                                                *)
(***************************************************************************)
EXTENDS Integers, SequencesExt, FiniteSets

CONSTANTS
  Printer,        \* threads that print one line each
  InSyscall,      \* those of them that print through write(), under file_lock
  Reader,         \* processes that call read() on the keyboard, for one key each
  Main,           \* the thread that boots the kernel, a printer
  Line,           \* [Printer -> sequence of characters], without the new-line
  PanicLine, RebootLine,
  TXSIZE, INSIZE, \* INTQ_BUFSIZE of the two queues
  COL_CNT, ROW_CNT,
  Codes,          \* scancodes the keyboard may send as its first, second... each with
                  \* TRUE for a release; bound: Len(Codes) scancodes and characters arrive
  Bytes,          \* characters the serial line may send
  MayPanic,       \* TRUE when a thread may panic
  NoThread, NoChar

VARIABLES
  pc, rest,             \* of each thread: where it is, what it has yet to print
  console_lock, file_lock,
  mode,                 \* of the serial driver: POLL or QUEUE
  txq, buffer,          \* the transmit queue and the input buffer
  uart,                 \* [ier, thr, rx]: interrupts enabled, byte to send, byte received
  wire,                 \* what has left the serial port
  screen,               \* [fb, cx, cy]
  keys,                 \* [left_shift, right_shift, ..., caps_lock]
  halted,               \* "no", "panic" or "reboot"
  history               \* [lines, events, got]: who printed, what was typed, what was read

consoleVars == <<pc, rest, console_lock, file_lock, mode, txq, buffer, uart, wire, screen,
          keys, halted, history>>

Caller == Printer \cup Reader
NL == 10

(***************************************************************************)
(* intq.c.  A queue is a ring of which one place stays free.  Its lock is   *)
(* held by the one thread asleep in it.                                     *)
(***************************************************************************)
next(q, pos) == (pos + 1) % Cardinality(DOMAIN q.buf)
intq_init(size) == [buf |-> [i \in 0 .. size - 1 |-> NoChar], head |-> 0, tail |-> 0,
                    lock |-> NoThread, not_full |-> NoThread, not_empty |-> NoThread]
intq_empty(q) == q.head = q.tail
intq_full(q) == next(q, q.head) = q.tail
oldest(q) == q.buf[q.tail]
removed(q) == [q EXCEPT !.tail = next(q, @), !.not_full = NoThread]
added(q, byte) == [q EXCEPT !.buf[q.head] = byte, !.head = next(q, @), !.not_empty = NoThread]

\* What is in the queue, oldest first.
Queued(q) == [i \in 1 .. (q.head - q.tail) % Cardinality(DOMAIN q.buf) |->
                q.buf[(q.tail + i - 1) % Cardinality(DOMAIN q.buf)]]

\* The program counters when the thread WAITER names is made ready.
signal(waiter) == IF waiter = NoThread THEN pc ELSE [pc EXCEPT ![waiter] = "woken"]

(***************************************************************************)
(* vga.c: the text screen.                                                  *)
(***************************************************************************)
blank == [x \in 0 .. COL_CNT - 1 |-> 32]
cls == [fb |-> [y \in 0 .. ROW_CNT - 1 |-> blank], cx |-> 0, cy |-> 0]
newline(s) ==
  IF s.cy + 1 < ROW_CNT THEN [s EXCEPT !.cx = 0, !.cy = @ + 1]
  ELSE [s EXCEPT !.cx = 0,
                 !.fb = [y \in DOMAIN s.fb |-> IF y = ROW_CNT - 1 THEN blank ELSE s.fb[y + 1]]]
vga_putc(s, c) ==
  LET tab == (s.cx \div 8 + 1) * 8 IN
  CASE c = NL -> newline(s)
    [] c = 12 -> cls
    [] c = 8  -> [s EXCEPT !.cx = IF @ > 0 THEN @ - 1 ELSE 0]
    [] c = 13 -> [s EXCEPT !.cx = 0]
    [] c = 9  -> IF tab >= COL_CNT THEN newline(s) ELSE [s EXCEPT !.cx = tab]
    [] OTHER  -> LET shown == [s EXCEPT !.fb[s.cy][s.cx] = c] IN
                 IF s.cx + 1 >= COL_CNT THEN newline(shown) ELSE [shown EXCEPT !.cx = @ + 1]

\* Variant: the transmit interrupt stays as it was.
write_ier_recv(u, tx, in) ==
  [u EXCEPT !.ier = (@ \cap {"xmit"}) \cup (IF intq_full(in) THEN {} ELSE {"recv"})]

(***************************************************************************)
(* serial.c.                                                               *)
(***************************************************************************)
write_ier(u, tx, in) ==
  [u EXCEPT !.ier = (IF intq_empty(tx) THEN {} ELSE {"xmit"}) \cup
                    (IF intq_full(in) THEN {} ELSE {"recv"})]
\* The input buffer has more room or less: only with a queue is there an interrupt to
\* block or to let through.
serial_notify(in) == IF mode = "QUEUE" THEN write_ier(uart, txq, in) ELSE uart
\* Waits until the byte before has left, then hands BYTE to the port: the port and the wire.
putc_poll(port, byte) == [uart |-> [port.uart EXCEPT !.thr = <<byte>>],
                          wire |-> port.wire \o port.uart.thr, txq |-> port.txq]

\* serial_putc() called with interrupts off: a full queue gives up its oldest byte.
putc_off(port, byte) ==
  IF mode = "POLL" THEN putc_poll(port, byte)
  ELSE LET room == IF intq_full(port.txq)
                   THEN [putc_poll(port, oldest(port.txq)) EXCEPT !.txq = removed(@)]
                   ELSE port
           q == added(room.txq, byte)
       IN  [room EXCEPT !.txq = q, !.uart = write_ier(@, q, buffer)]

\* serial_flush(): everything queued goes out by polling.
flushed(port) ==
  LET sent == FoldLeft(putc_poll, port, Queued(port.txq)) IN
  [sent EXCEPT !.txq.tail = port.txq.head]

Port == [uart |-> uart, wire |-> wire, txq |-> txq]
SetPort(port) == uart' = port.uart /\ wire' = port.wire /\ txq' = port.txq

-----------------------------------------------------------------------------
(***************************************************************************)
(* Printing: puts(), and putbuf() under write().                            *)
(***************************************************************************)
keyvars == <<buffer, keys>>

\* Variant: the console lock is not taken.
Begin_unlocked(t) ==
  /\ pc[t] = "start" /\ (t # Main => mode = "QUEUE")
  /\ t \in InSyscall => file_lock = NoThread
  /\ console_lock' = t
  /\ file_lock' = IF t \in InSyscall THEN t ELSE file_lock
  /\ pc' = [pc EXCEPT ![t] = "serial"]
  /\ history' = [history EXCEPT !.lines = Append(@, t)]
  /\ UNCHANGED <<rest, mode, txq, uart, wire, screen, keyvars, halted>>

\* acquire_console(), after write() has taken file_lock.  Until the serial driver
\* has its queue only the boot thread runs.
Begin(t) ==
  /\ pc[t] = "start" /\ (t # Main => mode = "QUEUE")
  /\ console_lock = NoThread
  /\ t \in InSyscall => file_lock = NoThread
  /\ console_lock' = t
  /\ file_lock' = IF t \in InSyscall THEN t ELSE file_lock
  /\ pc' = [pc EXCEPT ![t] = "serial"]
  /\ history' = [history EXCEPT !.lines = Append(@, t)]
  /\ UNCHANGED <<rest, mode, txq, uart, wire, screen, keyvars, halted>>

\* serial_putc() while the driver polls.
PutPolled(t) ==
  /\ pc[t] = "serial" /\ mode = "POLL"
  /\ SetPort(putc_poll(Port, Head(rest[t])))
  /\ pc' = [pc EXCEPT ![t] = "vga"]
  /\ UNCHANGED <<rest, console_lock, file_lock, mode, screen, keyvars, halted, history>>

\* serial_putc() with a queue that has room: the byte is queued.
PutQueued(t) ==
  /\ pc[t] = "serial" /\ mode = "QUEUE" /\ ~intq_full(txq)
  /\ txq' = added(txq, Head(rest[t]))
  /\ uart' = write_ier(uart, txq', buffer)
  /\ pc' = [signal(txq.not_empty) EXCEPT ![t] = "vga"]
  /\ UNCHANGED <<rest, console_lock, file_lock, mode, wire, screen, keyvars, halted, history>>

\* serial_putc() with a full queue: the thread sleeps in intq_putc(), with the queue's lock.
PutSleeps(t) ==
  /\ pc[t] = "serial" /\ mode = "QUEUE" /\ intq_full(txq)
  /\ txq.lock = NoThread
  /\ txq' = [txq EXCEPT !.lock = t, !.not_full = t]
  /\ pc' = [pc EXCEPT ![t] = "asleep"]
  /\ UNCHANGED <<rest, console_lock, file_lock, mode, uart, wire, screen, keyvars, halted, history>>

\* The sleeper runs again, releases the queue's lock and looks at the queue anew.
PutWakes(t) ==
  /\ pc[t] = "woken" /\ t \in Printer
  /\ txq' = [txq EXCEPT !.lock = NoThread]
  /\ pc' = [pc EXCEPT ![t] = "serial"]
  /\ UNCHANGED <<rest, console_lock, file_lock, mode, uart, wire, screen, keyvars, halted, history>>

\* The end of puts(), and of write().
release_console(t) ==
  /\ console_lock' = NoThread
  /\ file_lock' = IF t \in InSyscall THEN NoThread ELSE file_lock

\* vga_putc(), and the next character after it.
Show(t) ==
  /\ pc[t] = "vga"
  /\ screen' = vga_putc(screen, Head(rest[t]))
  /\ rest' = [rest EXCEPT ![t] = Tail(@)]
  /\ IF Len(rest[t]) > 1
     THEN pc' = [pc EXCEPT ![t] = "serial"] /\ UNCHANGED <<console_lock, file_lock>>
     ELSE pc' = [pc EXCEPT ![t] = "done"] /\ release_console(t)
  /\ UNCHANGED <<mode, txq, uart, wire, keyvars, halted, history>>

\* main() switches the serial port to interrupts once it has printed its line.
serial_init_queue ==
  /\ mode = "POLL" /\ pc[Main] = "done"
  /\ mode' = "QUEUE"
  /\ uart' = write_ier(uart, txq, buffer)
  /\ UNCHANGED <<pc, rest, console_lock, file_lock, txq, wire, screen, keyvars, halted, history>>

\* debug_panic(): interrupts go off for good, the message is printed past the
\* console lock and whatever is queued is flushed by polling.
debug_panic ==
  /\ MayPanic /\ mode = "QUEUE"
  /\ halted' = "panic"
  /\ SetPort(flushed(FoldLeft(putc_off, Port, PanicLine)))
  /\ screen' = FoldLeft(vga_putc, screen, PanicLine)
  /\ UNCHANGED <<pc, rest, console_lock, file_lock, mode, keyvars, history>>

-----------------------------------------------------------------------------
\* Variant: read() does not take file_lock.
read_unlocked(t) ==
  /\ pc[t] = "start" /\ mode = "QUEUE"
  /\ file_lock' = t
  /\ pc' = [pc EXCEPT ![t] = "getc"]
  /\ UNCHANGED <<rest, console_lock, mode, txq, uart, wire, screen, keyvars, halted, history>>

(***************************************************************************)
(* Reading: read() on the keyboard, under file_lock.                        *)
(***************************************************************************)
read(t) ==
  /\ pc[t] = "start" /\ mode = "QUEUE"
  /\ file_lock = NoThread
  /\ file_lock' = t
  /\ pc' = [pc EXCEPT ![t] = "getc"]
  /\ UNCHANGED <<rest, console_lock, mode, txq, uart, wire, screen, keyvars, halted, history>>

\* input_getc() with a key in the buffer.
GetKey(t) ==
  /\ pc[t] = "getc" /\ ~intq_empty(buffer)
  /\ history' = [history EXCEPT !.got = Append(@, oldest(buffer))]
  /\ buffer' = removed(buffer)
  /\ uart' = serial_notify(buffer')
  /\ pc' = [signal(buffer.not_full) EXCEPT ![t] = "done"]
  /\ file_lock' = IF file_lock = t THEN NoThread ELSE file_lock
  /\ UNCHANGED <<rest, console_lock, mode, txq, wire, screen, keys, halted>>

\* input_getc() with an empty buffer: the thread takes the queue's lock and sleeps.
\* A thread that finds the lock taken goes on from there when it gets it.
GetSleeps(t) ==
  /\ \/ pc[t] = "getc" /\ intq_empty(buffer)
     \/ pc[t] = "locking" /\ buffer.lock = NoThread
  /\ IF buffer.lock = NoThread
     THEN /\ buffer' = [buffer EXCEPT !.lock = t, !.not_empty = t]
          /\ pc' = [pc EXCEPT ![t] = IF intq_empty(buffer) THEN "asleep" ELSE "failed"]
     ELSE /\ pc' = [pc EXCEPT ![t] = "locking"]
          /\ UNCHANGED buffer
  /\ UNCHANGED <<rest, console_lock, file_lock, mode, txq, uart, wire, screen, keys, halted, history>>

GetWakes(t) ==
  /\ pc[t] = "woken" /\ t \in Reader
  /\ buffer' = [buffer EXCEPT !.lock = NoThread]
  /\ pc' = [pc EXCEPT ![t] = "getc"]
  /\ UNCHANGED <<rest, console_lock, file_lock, mode, txq, uart, wire, screen, keys, halted, history>>

-----------------------------------------------------------------------------
(***************************************************************************)
(* kbd.c: scancodes, shift keys and the characters they make.               *)
(***************************************************************************)
Keymap(rows) == UNION { { <<r[1] + i - 1, r[2][i]>> : i \in 1 .. Len(r[2]) } : r \in rows }

invariant_keymap == Keymap({ <<1, <<27>>>>, <<14, <<8>>>>,
    <<15, <<9, 81, 87, 69, 82, 84, 89, 85, 73, 79, 80>>>>, <<28, <<13>>>>,
    <<30, <<65, 83, 68, 70, 71, 72, 74, 75, 76>>>>, <<44, <<90, 88, 67, 86, 66, 78, 77>>>>,
    <<55, <<42>>>>, <<57, <<32>>>>, <<83, <<127>>>> })
unshifted_keymap == Keymap({ <<2, <<49, 50, 51, 52, 53, 54, 55, 56, 57, 48, 45, 61>>>>,
    <<26, <<91, 93>>>>, <<39, <<59, 39, 96>>>>, <<43, <<92>>>>, <<51, <<44, 46, 47>>>> })
shifted_keymap == Keymap({ <<2, <<33, 64, 35, 36, 37, 94, 38, 42, 40, 41, 95, 43>>>>,
    <<26, <<123, 125>>>>, <<39, <<58, 34, 126>>>>, <<43, <<124>>>>, <<51, <<60, 62, 63>>>> })

\* The characters CODE stands for: at most one.
keymap == [shift \in BOOLEAN |->
             invariant_keymap \cup (IF shift THEN shifted_keymap ELSE unshifted_keymap)]
map_key(code, shift) == { p[2] : p \in { k \in keymap[shift] : k[1] = code } }

CAPS == 58
shift_keys == { <<42, "left_shift">>, <<54, "right_shift">>, <<56, "left_alt">>,
                <<57400, "right_alt">>, <<29, "left_ctrl">>, <<57373, "right_ctrl">> }

tolower(c) == IF c \in 65 .. 90 THEN c + 32 ELSE c

\* The byte put in the buffer for the ordinary character C.
Modified(c, shift, ctrl, alt) ==
  LET base == IF ctrl /\ c >= 64 /\ c < 96 THEN c - 64
              ELSE IF shift = keys.caps_lock THEN tolower(c) ELSE c
  IN  IF alt THEN base + 128 ELSE base

Typed(event) == [history EXCEPT !.events = Append(@, event)]

\* keyboard_interrupt(): CODE is a scancode without its 0x80, RELEASE that bit.
keyboard_interrupt(code, release) ==
  LET shift == keys.left_shift \/ keys.right_shift
      alt   == keys.left_alt \/ keys.right_alt
      ctrl  == keys.left_ctrl \/ keys.right_ctrl
      chars == map_key(code, shift)
      event == [key |-> TRUE, code |-> code, release |-> release, lost |-> intq_full(buffer)]
  IN
  /\ mode = "QUEUE"
  /\ history' = Typed(event)
  /\ \/ /\ code = CAPS
        /\ keys' = [keys EXCEPT !.caps_lock = IF release THEN @ ELSE ~@]
        /\ UNCHANGED <<pc, txq, buffer, uart, wire, screen, halted>>
     \/ \E c \in chars :                      \* Ctrl+Alt+Del restarts the machine
        /\ ~release /\ c = 127 /\ ctrl /\ alt
        /\ halted' = "reboot"
        /\ SetPort(FoldLeft(putc_off, Port, RebootLine))
        /\ screen' = FoldLeft(vga_putc, screen, RebootLine)
        /\ UNCHANGED <<pc, buffer, keys>>
     \/ \E c \in chars :
        /\ ~release /\ ~(c = 127 /\ ctrl /\ alt)
        /\ ~intq_full(buffer)
        /\ buffer' = added(buffer, Modified(c, shift, ctrl, alt))
        /\ uart' = serial_notify(buffer')
        /\ pc' = signal(buffer.not_empty)
        /\ UNCHANGED <<txq, wire, screen, keys, halted>>
     \/ /\ chars # {} /\ (release \/ intq_full(buffer))
        /\ \A c \in chars : release \/ ~(c = 127 /\ ctrl /\ alt)
        /\ UNCHANGED <<pc, txq, buffer, uart, wire, screen, keys, halted>>
     \/ /\ code # CAPS /\ chars = {}
        /\ keys' = [k \in DOMAIN keys |-> IF <<code, k>> \in shift_keys THEN ~release ELSE keys[k]]
        /\ UNCHANGED <<pc, txq, buffer, uart, wire, screen, halted>>
  /\ UNCHANGED <<rest, console_lock, file_lock, mode>>

-----------------------------------------------------------------------------
(***************************************************************************)
(* The serial port and its interrupt.                                       *)
(***************************************************************************)
\* serial_interrupt(): a byte received goes to the input buffer if it has room, the
\* oldest byte queued goes out if the port is free.
serial_interrupt ==
  LET receives == ~intq_full(buffer) /\ uart.rx # <<>>
      sends == ~intq_empty(txq) /\ uart.thr = <<>>
  IN
  /\ mode = "QUEUE"
  /\ ("recv" \in uart.ier /\ uart.rx # <<>>) \/ ("xmit" \in uart.ier /\ uart.thr = <<>>)
  /\ buffer' = IF receives THEN added(buffer, Head(uart.rx)) ELSE buffer
  /\ txq' = IF sends THEN removed(txq) ELSE txq
  /\ uart' = write_ier([uart EXCEPT !.rx = IF receives THEN <<>> ELSE @,
                                   !.thr = IF sends THEN <<oldest(txq)>> ELSE @], txq', buffer')
  /\ pc' = [t \in Caller |-> IF (receives /\ t = buffer.not_empty) \/ (sends /\ t = txq.not_full)
                            THEN "woken" ELSE pc[t]]
  /\ history' = IF receives THEN Typed([key |-> FALSE, code |-> Head(uart.rx)]) ELSE history
  /\ UNCHANGED <<rest, console_lock, file_lock, mode, wire, screen, keys, halted>>

\* The port sends the byte it holds, and receives one when it has none (bound: Len(Codes)).
PortSends ==
  /\ uart.thr # <<>>
  /\ wire' = wire \o uart.thr /\ uart' = [uart EXCEPT !.thr = <<>>]
  /\ UNCHANGED <<pc, rest, console_lock, file_lock, mode, txq, screen, keyvars, halted, history>>

PortReceives(byte) ==
  /\ uart.rx = <<>> /\ Len(history.events) < Len(Codes)
  /\ uart' = [uart EXCEPT !.rx = <<byte>>]
  /\ UNCHANGED <<pc, rest, console_lock, file_lock, mode, txq, wire, screen, keyvars, halted, history>>

-----------------------------------------------------------------------------
ConsoleInit ==
  /\ pc = [t \in Caller |-> "start"]
  /\ rest = [t \in Printer |-> Append(Line[t], NL)]
  /\ console_lock = NoThread /\ file_lock = NoThread
  /\ mode = "POLL"
  /\ txq = intq_init(TXSIZE) /\ buffer = intq_init(INSIZE)
  /\ uart = [ier |-> {}, thr |-> <<>>, rx |-> <<>>]
  /\ wire = <<>> /\ screen = cls
  /\ keys = [k \in { p[2] : p \in shift_keys } \cup {"caps_lock"} |-> FALSE]
  /\ halted = "no"
  /\ history = [lines |-> <<>>, events |-> <<>>, got |-> <<>>]

Puts(t) == Begin(t) \/ PutPolled(t) \/ PutQueued(t) \/ PutSleeps(t) \/ PutWakes(t) \/ Show(t)
ReadKey(t) == read(t) \/ GetKey(t) \/ GetSleeps(t) \/ GetWakes(t)

ConsoleNext ==
  /\ halted = "no"
  /\ \/ \E t \in Printer : Puts(t)
     \/ \E t \in Reader : ReadKey(t)
     \/ serial_init_queue \/ debug_panic
     \/ /\ Len(history.events) < Len(Codes)
        /\ \E scan \in Codes[Len(history.events) + 1] : keyboard_interrupt(scan[1], scan[2])
     \/ serial_interrupt
     \/ \E byte \in Bytes : PortReceives(byte)

PortNext == PortSends /\ (halted # "reboot")

\* Every thread that can run is scheduled in the end, a pending serial interrupt is
\* delivered, and the port sends what it holds.
ConsoleSpec ==
  /\ ConsoleInit /\ [][ConsoleNext \/ PortNext]_consoleVars
  /\ \A t \in Printer : WF_consoleVars(halted = "no" /\ Puts(t))
  /\ \A t \in Reader : WF_consoleVars(halted = "no" /\ ReadKey(t))
  /\ WF_consoleVars(halted = "no" /\ serial_init_queue)
  /\ WF_consoleVars(halted = "no" /\ serial_interrupt)
  /\ WF_consoleVars(PortNext)

-----------------------------------------------------------------------------
(***************************************************************************)
(* Output.                                                                 *)
(***************************************************************************)
\* What printer T has printed so far on the serial side, and on the screen.
Printed(t, ahead) ==
  SubSeq(Append(Line[t], NL), 1, Len(Line[t]) + 1 - Len(rest[t]) + (IF ahead /\ pc[t] = "vga" THEN 1 ELSE 0))

Text(ahead) == FlattenSeq([i \in DOMAIN history.lines |-> Printed(history.lines[i], ahead)])

LastWords == CASE halted = "panic" -> PanicLine [] halted = "reboot" -> RebootLine [] OTHER -> <<>>

\* Where character I of a text of characters and new-lines stands, rows counted from the first.
BreakBefore(text, i) == Max({0} \cup { j \in 1 .. i - 1 : text[j] = NL })
RowOf(text, i) ==
  MapThenSumSet(LAMBDA j : (j - BreakBefore(text, j) - 1) \div COL_CNT + 1,
                { j \in 1 .. i - 1 : text[j] = NL })
    + (i - BreakBefore(text, i) - 1) \div COL_CNT
ColOf(text, i) == (i - BreakBefore(text, i) - 1) % COL_CNT

\* The screen shows the end of TEXT, wrapped at the right margin, and nothing else.
Shows(s, text) ==
  LET row == [i \in 1 .. Len(text) + 1 |-> RowOf(text, i)]
      end == row[Len(text) + 1]
      top == Max({0, end - ROW_CNT + 1})
      visible == { i \in DOMAIN text : text[i] # NL /\ row[i] >= top }
  IN
  /\ s.cx = ColOf(text, Len(text) + 1) /\ s.cy = end - top
  /\ \A i \in visible : s.fb[row[i] - top][ColOf(text, i)] = text[i]
  /\ Cardinality({ p \in (0 .. ROW_CNT - 1) \X (0 .. COL_CNT - 1) : s.fb[p[1]][p[2]] # 32 })
       = Cardinality(visible)

(***************************************************************************)
(* The lines of different threads are never mixed, on the wire or on the    *)
(* screen; no character is lost, doubled or overtaken on its way through the *)
(* transmit queue, not even by a panic that empties it; and the screen shows *)
(* the last rows of what was printed.                                       *)
(***************************************************************************)
OutputExact ==
  /\ wire \o uart.thr \o Queued(txq) = Text(TRUE) \o LastWords
  /\ halted = "panic" => intq_empty(txq)
  /\ Shows(screen, Text(FALSE) \o LastWords)

(***************************************************************************)
(* Every kernel line that is begun reaches the wire, and a program's line   *)
(* is held up only by a program that waits for the keyboard: no wake-up of  *)
(* a thread asleep on a full queue is lost, and the transmit interrupt is on *)
(* whenever bytes are queued.                                               *)
(***************************************************************************)
OutputDrains ==
  /\ <>[](halted = "reboot" \/ (intq_empty(txq) /\ uart.thr = <<>>))
  /\ \A t \in Printer :
       <>[](halted # "no" \/ pc[t] = "done" \/ (t \in InSyscall /\ file_lock \in Reader))

(***************************************************************************)
(* Input: what an event means, from the events before it.                   *)
(***************************************************************************)
Event(i) == history.events[i]
Down(code, i) ==
  \E j \in 1 .. i - 1 :
    /\ Event(j).key /\ Event(j).code = code /\ ~Event(j).release
    /\ \A k \in j + 1 .. i - 1 : Event(k).key /\ Event(k).code = code => ~Event(k).release
Caps(i) ==
  Cardinality({ j \in 1 .. i - 1 : Event(j).key /\ Event(j).code = CAPS /\ ~Event(j).release }) % 2 = 1

Meaning(i) ==
  IF ~Event(i).key THEN <<Event(i).code>>
  ELSE LET shift == Down(42, i) \/ Down(54, i)
           ctrl == Down(29, i) \/ Down(57373, i)
           alt == Down(56, i) \/ Down(57400, i)
           c == CHOOSE x \in map_key(Event(i).code, shift) : TRUE
           letter == c \in 65 .. 90
           plain == IF ctrl /\ c \in 64 .. 95 THEN c - 64
                    ELSE IF letter /\ (shift <=> Caps(i)) THEN c + 32 ELSE c
       IN IF \/ Event(i).release \/ Event(i).lost \/ map_key(Event(i).code, shift) = {}
             \/ (c = 127 /\ ctrl /\ alt)
          THEN <<>>
          ELSE <<IF alt THEN plain + 128 ELSE plain>>

(***************************************************************************)
(* What the programs read and what still waits is what was typed, in order, *)
(* each key read with the shift keys as they were then; and a reader goes to *)
(* sleep only on an empty buffer, as wait() asserts.                        *)
(***************************************************************************)
InputExact ==
  /\ history.got \o Queued(buffer) = FlattenSeq([i \in DOMAIN history.events |-> Meaning(i)])
  /\ \A t \in Reader : pc[t] # "failed"
=============================================================================
