------------------------------ MODULE Console ------------------------------
(***************************************************************************)
(* The terminals, the keyboard interrupt and the shell that talks through  *)
(* them: kernel/tty, kernel/vga, kernel/io/key_layout.c, getc.c, printk.c, *)
(* irq_keybord of boot/x86/IDT/idt.c, kernel/minishell and the power-off   *)
(* sequence of cmd/power_off.c.                                            *)
(*                                                                         *)
(* con is the display: for every terminal its cursor and its screen, and   *)
(* what the card shows.  A character is an atom: a printable letter "w",   *)
(* "nl", "bs", "cr", "nul", "silent" (stored, never printed), or a word    *)
(* the shell knows, typed and echoed as one character; an argument is      *)
(* typed with the space before it.  A cell holds whether it is blank and   *)
(* the terminal, whose colour tells it from the others.  What printk       *)
(* formats is one letter.                                                  *)
(*                                                                         *)
(* The shell prints, switches terminals and copies key tables with         *)
(* interrupts on: half is where it is in the middle of that, and a key can *)
(* arrive there; the interrupt itself is one step.  Of the shell's, a      *)
(* store of a cell with the reads of the cursor around it, ++row, --row    *)
(* and a scroll with what it renders are one step each: a key within them  *)
(* counts as raced and torn, like one behind them.                         *)
(***************************************************************************)
EXTENDS Acpi

CONSTANTS
    MAX_TTY,                    \* inc/tty.h
    VGA_WIDTH, VGA_HEIGHT,      \* inc/vga.h
    STREAM_BUFF,                \* inc/stream.h
    SIZE_MAX_CMD,               \* inc/shell.h
    MAX_POLL,                   \* polls of acpiEnable, 300
    value_table,                \* [layout -> [shift -> [scan code -> character]]]
    Firmware,                   \* the ACPI tables of the machines booted on
    MaxKeys                     \* bound on the keys pressed

Ttys == 0..(MAX_TTY - 1)
Cells == 0..(VGA_WIDTH * VGA_HEIGHT - 1)
Layouts == {"qwerty", "azerty"}
Keys == DOMAIN value_table["qwerty"][FALSE]
Char == {value_table[l][s][k] : l \in Layouts, s \in BOOLEAN, k \in Keys}
Numbers == [n \in {"0", "1", "2"} |-> CASE n = "0" -> 0 [] n = "1" -> 1 [] n = "2" -> 2]
Spaced == Layouts \cup DOMAIN Numbers \cup {" "}

\* What may be read behind the key tables: any byte, of every kind there is.
Beyond == {"nul", "w", "nl", "bs", "cr", "silent"}

\* isprint: what tty_printchar puts on the screen.
Printable(c) == c \notin {"nl", "bs", "cr", "silent"}

ASSUME ConsoleAssumption ==
    /\ {MAX_TTY, VGA_WIDTH, VGA_HEIGHT} \subseteq Nat \ {0}
    /\ STREAM_BUFF \in Nat /\ STREAM_BUFF >= 2 /\ SIZE_MAX_CMD >= STREAM_BUFF
    /\ STREAM_BUFF - 2 <= (VGA_HEIGHT - 1) * VGA_WIDTH
    /\ {MAX_POLL, MaxKeys, SIZE_MAX_CMD} \subseteq Nat
    /\ {"nl", "bs"} \subseteq Char

VARIABLES
    con,                \* [row, column, screen, vga_buffer, cursor], and what happened:
                        \* [wild, raced, silent, torn], see Properties
    current_tty,
    input_raw, input,   \* struct s_tty: the line being typed, and the stream of lines
    shift_locked,
    layout_of,          \* [shift -> layouts]: what the entries of the two live tables are copies of
    cmd,                \* the shell's line; cmd_ind is its length
    out,                \* what the shell has still to print
    half,               \* what the shell is in the middle of and what it has read for it, or <<>>
    acpi,               \* the globals of power_off.c
    power,              \* [pc, i, smi, sci]: acpiPowerOff, and the power controller
    machine,            \* "on", "halted", "off", "lost"
    keys, lines, cut    \* keys pressed; lines sent and not yet run; was one cut?

keyboard == <<shift_locked, layout_of>>
shell == <<cmd, out, half>>
terms == <<input_raw, input>>
typed == <<keys, lines, cut>>
vars == <<con, current_tty, input_raw, input, shift_locked, layout_of, cmd, out, half,
          acpi, power, machine, keys, lines, cut>>

-----------------------------------------------------------------------------
(* The display *)

vga_entry(blank, t) == <<blank, t>>

\* The card shows what has been written to the terminal in front.
tty_render_vga(K, t) == [K EXCEPT !.vga_buffer = K.screen[t]]

vga_move_cursor(K, x, y) == [K EXCEPT !.cursor = y * VGA_WIDTH + x]

Position(K, t) == K.row[t] * VGA_WIDTH + K.column[t]

CursorOf(K, t) == IF t = current_tty THEN vga_move_cursor(K, K.column[t], K.row[t]) ELSE K

\* A store outside the screen: see overwritten and Overruns.
tty_putentryat(K, t, blank, x, y) ==
    LET index == y * VGA_WIDTH + x
        K1 == [K EXCEPT !.screen[t][index] = vga_entry(blank, t)]
    IN  IF index \notin Cells THEN [K EXCEPT !.wild = TRUE]
        ELSE IF t = current_tty THEN [K1 EXCEPT !.vga_buffer[index] = vga_entry(blank, t)]
        ELSE K1

\* The cell a character is stored to: a backspace erases the one before.
Stored(K, t, c) ==
    IF c = "bs" THEN {Position(K, t) - 1} ELSE IF Printable(c) THEN {Position(K, t)} ELSE {}

\* input_raw lies behind the screen: a cell is two of its bytes, character and colour.
overwritten(line, cells, c) ==
    LET first == {2 * (index - VGA_WIDTH * VGA_HEIGHT) + 1 : index \in cells}
    IN  [i \in DOMAIN line |-> IF i \in first THEN IF c = "bs" THEN " " ELSE c
                               ELSE IF i - 1 \in first THEN "colour" ELSE line[i]]

\* Behind input_raw lie its counter and the stream, before the screen the colour
\* and then the cursor: a store there leaves nothing to say about what follows.
Overruns(cells) ==
    \E index \in cells : index < -1 \/ 2 * (index - VGA_WIDTH * VGA_HEIGHT) + 2 > STREAM_BUFF

machine_after(cells) == IF Overruns(cells) THEN "lost" ELSE machine

tty_scrollup(K, t) ==
    [K EXCEPT !.screen[t] = [i \in Cells |->
        IF i + VGA_WIDTH \in Cells THEN @[i + VGA_WIDTH] ELSE vga_entry(TRUE, t)]]

NextRow(K, t) == IF K.row[t] # VGA_HEIGHT THEN [K EXCEPT !.row[t] = @ + 1] ELSE K

\* tty_scrollup; if (term == current_tty) tty_render_vga
ScrolledUp(K, t) ==
    IF t = current_tty THEN tty_render_vga(tty_scrollup(K, t), t) ELSE tty_scrollup(K, t)

\* The row stays behind the last one.
RowBack_not(K, t) == K

RowBack(K, t) == [K EXCEPT !.row[t] = @ - 1]

\* if (row == VGA_HEIGHT) { scroll; --row }
Scrolled(K, t) == IF K.row[t] # VGA_HEIGHT THEN K ELSE RowBack(ScrolledUp(K, t), t)

Column(K, t, x) == [K EXCEPT !.column[t] = x]

tty_printchar(K, t) ==
    LET K1 == Column(tty_putentryat(K, t, FALSE, K.column[t], K.row[t]), t, K.column[t] + 1)
    IN  CursorOf(IF K1.column[t] # VGA_WIDTH THEN K1
                 ELSE Scrolled(NextRow(Column(K1, t, 0), t), t), t)

tty_putendl(K, t) == CursorOf(Column(Scrolled(NextRow(K, t), t), t, 0), t)

tty_backspace(K, t) ==
    LET K1 == IF K.column[t] = 0 /\ K.row[t] # 0
              THEN [Column(K, t, VGA_WIDTH - 1) EXCEPT !.row[t] = @ - 1]
              ELSE Column(K, t, K.column[t] - 1)
    IN  CursorOf(tty_putentryat(K1, t, TRUE, K1.column[t], K1.row[t]), t)

tty_putretchariot(K, t) == Column(K, t, 0)

tty_putchar(K, t, c) ==
    CASE Printable(c) -> tty_printchar(K, t)
      [] c = "nl" -> tty_putendl(K, t)
      [] c = "cr" -> tty_putretchariot(K, t)
      [] c = "bs" -> tty_backspace(K, t)
      [] OTHER -> K

\* A terminal after tty_clear_screen.
tty_clear_screen(t) == [row |-> 0, column |-> 0, screen |-> [i \in Cells |-> vga_entry(TRUE, t)]]

\* What the loader left on the card.
Left == vga_entry(FALSE, -1)

\* Every terminal is cleared.  kmain calls init_tty before init_vga: the render
\* of the one in front goes through a vga_buffer that is still NULL and the
\* card keeps what it shows.
init_tty ==
    /\ current_tty = 0
    /\ con = [row |-> [t \in Ttys |-> tty_clear_screen(t).row],
              column |-> [t \in Ttys |-> tty_clear_screen(t).column],
              screen |-> [t \in Ttys |-> tty_clear_screen(t).screen],
              vga_buffer |-> [i \in Cells |-> Left], cursor |-> 0,
              wild |-> FALSE, raced |-> FALSE, silent |-> FALSE, torn |-> FALSE]
    /\ input_raw = [t \in Ttys |-> <<>>]
    /\ input = [t \in Ttys |-> <<>>]

Init ==
    /\ init_tty
    /\ shift_locked = FALSE
    /\ layout_of = [s \in BOOLEAN |-> {"qwerty"}]
    /\ cmd = <<>> /\ out = <<"$">> /\ half = <<>>
    /\ acpi \in {initAcpi(fw, 4).reg : fw \in Firmware}
    /\ power = [pc |-> "idle", i |-> 0, smi |-> FALSE, sci |-> {}]
    /\ machine = "on"
    /\ keys = 0 /\ lines = [t \in Ttys |-> <<>>] /\ cut = FALSE

-----------------------------------------------------------------------------
(* The keyboard interrupt *)

\* Every character may fill the buffer.
room_in_line_of_all(n, c) == n < STREAM_BUFF

\* The empty place of the ring is forgotten.
room_in_line_of_ring(n, c) == n < STREAM_BUFF - 1 \/ (n < STREAM_BUFF /\ c = "nl")

\* The last place of the line is kept for the newline.
room_in_line(n, c) == n < STREAM_BUFF - 2 \/ (n < STREAM_BUFF - 1 /\ c = "nl")

\* The test on input_raw_c is forgotten.
may_erase_always(n) == TRUE

may_erase(n) == n > 0

\* The ring keeps one place empty: what does not fit is dropped.
stream_write(queue, line) ==
    queue \o SubSeq(line, 1, Min({Len(line), STREAM_BUFF - 1 - Len(queue)}))

\* The shell writes row and column of the terminal in front, or the card.
InCharacter == half # <<>> /\ half[1] \in {"step", "wrap", "scroll", "up"}
OnCard == half # <<>> /\ half[1] \in {"render", "cursor"}

\* tty_putchar from the interrupt, with what the properties remember of it: that
\* the shell was in the middle of something, or that no cell was printed.
echo(t, c, line) ==
    /\ con' = [tty_putchar(con, t, c) EXCEPT
                  !.raced = @ \/ InCharacter,
                  !.silent = @ \/ c \in {"cr", "silent"},
                  !.torn = @ \/ InCharacter \/ OnCard \/ c = "cr"]
    /\ input_raw' = [input_raw EXCEPT ![t] = overwritten(line, Stored(con, t, c), c)]
    /\ machine' = machine_after(Stored(con, t, c))

tty_input_char(t, c) ==
    LET n == Len(input_raw[t])
        line == Append(input_raw[t], c)
        whole == Len(line) + Len(input[t]) < STREAM_BUFF
    IN  \/ /\ c = "nul" \/ (c = "bs" /\ ~may_erase(n)) \/ (c # "bs" /\ ~room_in_line(n, c))
           /\ UNCHANGED <<con, terms, machine, lines, cut>>
        \/ /\ c = "bs" /\ may_erase(n)
           /\ echo(t, c, SubSeq(input_raw[t], 1, n - 1))
           /\ UNCHANGED <<input, lines, cut>>
        \/ /\ c \notin {"nul", "bs", "nl"} /\ room_in_line(n, c)
           /\ echo(t, c, line)
           /\ UNCHANGED <<input, lines, cut>>
        \/ /\ c = "nl" /\ room_in_line(n, c)
           /\ echo(t, c, <<>>)
           /\ input' = [input EXCEPT ![t] = stream_write(@, line)]
           /\ lines' = IF whole THEN [lines EXCEPT ![t] = Append(@, input_raw[t])] ELSE lines
           /\ cut' = (cut \/ ~whole)

\* The tables have 90 entries and the scan code 128 values: a larger one reads
\* behind them.  While set_layout copies a table, an entry is the old or the new one.
key_layout(key, released) ==
    /\ shift_locked' = IF key = "shift" THEN ~released ELSE shift_locked
    /\ \E c \in IF released \/ key = "shift" THEN {"nul"}
                ELSE IF key = "beyond" THEN Beyond
                ELSE {value_table[l][shift_locked][key] : l \in layout_of[shift_locked]} :
          tty_input_char(current_tty, c)

irq_keybord(key, released) ==
    /\ machine = "on" /\ keys < MaxKeys
    /\ keys' = IF released THEN keys ELSE keys + 1
    /\ key_layout(key, released)
    /\ UNCHANGED <<current_tty, layout_of, shell, acpi, power>>

-----------------------------------------------------------------------------
(* The shell: launchshell *)

Busy == power.pc # "idle"
Prompt == <<"nl", "$">>

\* The steps of the shell in the middle of something: what they read and write
\* in memory is what a key in between finds.
InMiddle(at) == machine = "on" /\ half # <<>> /\ half[1] = at

Drawn == UNCHANGED <<current_tty, input, keyboard, cmd, acpi, power, typed>>

CursorNext(K) == <<"cursor", Position(K, current_tty)>>

\* tty_putchar of the next character of the output: the store and the column read
\* for ++column, or the first ++row of tty_putendl.
printk_first ==
    /\ machine = "on" /\ half = <<>> /\ out # <<>>
    /\ LET t == current_tty
           c == Head(out)
       IN  IF c = "nl"
           THEN /\ con' = NextRow(con, t) /\ half' = <<"scroll", c>>
                /\ UNCHANGED <<input_raw, machine>>
           ELSE /\ con' = tty_putentryat(con, t, FALSE, con.column[t], con.row[t])
                /\ half' = <<"step", con.column[t]>>
                /\ input_raw' = [input_raw EXCEPT ![t] = overwritten(@, Stored(con, t, c), c)]
                /\ machine' = machine_after(Stored(con, t, c))
    /\ out' = Tail(out) /\ Drawn

\* Only the display changes.
Draws(K, next) ==
    /\ con' = K /\ half' = next
    /\ UNCHANGED <<input_raw, out, machine>> /\ Drawn

printk_step == InMiddle("step") /\ Draws(Column(con, current_tty, half[2] + 1), <<"wrap">>)

printk_wrap ==
    /\ InMiddle("wrap")
    /\ IF con.column[current_tty] # VGA_WIDTH THEN Draws(con, CursorNext(con))
       ELSE Draws(NextRow(Column(con, current_tty, 0), current_tty), <<"scroll", "w">>)

\* tty_putendl takes the column to 0 when it has scrolled, tty_printchar before.
EndOfScroll(K, c) ==
    LET K1 == IF c = "nl" THEN Column(K, current_tty, 0) ELSE K IN Draws(K1, CursorNext(K1))

printk_scroll ==
    /\ InMiddle("scroll")
    /\ IF con.row[current_tty] # VGA_HEIGHT THEN EndOfScroll(con, half[2])
       ELSE Draws(ScrolledUp(con, current_tty), <<"up", half[2]>>)

printk_up == InMiddle("up") /\ EndOfScroll(RowBack(con, current_tty), half[2])

\* The four outb of vga_move_cursor, with the place it was called with.
move_cursor == InMiddle("cursor") /\ Draws([con EXCEPT !.cursor = half[2]], <<>>)

\* switch_tty renders cell after cell.
render_cell ==
    /\ InMiddle("render")
    /\ LET i == half[2]
           K == [con EXCEPT !.vga_buffer[i] = con.screen[current_tty][i]]
       IN  Draws(K, IF i + 1 \in Cells THEN <<"render", i + 1>> ELSE CursorNext(K))

\* The two memcpy of set_layout: the second begins where the first ends.
Copies(layouts, next) ==
    /\ layout_of' = layouts /\ half' = next
    /\ UNCHANGED <<con, current_tty, terms, shift_locked, cmd, out, acpi, power, machine, typed>>

memcpy_shift ==
    /\ InMiddle("shift")
    /\ Copies([layout_of EXCEPT ![TRUE] = {half[2]}, ![FALSE] = @ \cup {half[2]}], <<"plain", half[2]>>)

memcpy_plain == InMiddle("plain") /\ Copies([layout_of EXCEPT ![FALSE] = {half[2]}], <<>>)

\* The shell is at getc with a character waiting.
Reads == machine = "on" /\ out = <<>> /\ half = <<>> /\ ~Busy /\ input[current_tty] # <<>>

getc == input' = [input EXCEPT ![current_tty] = Tail(@)]

pushback_char ==
    /\ Reads /\ Head(input[current_tty]) # "nl"
    /\ getc
    /\ cmd' = IF Len(cmd) + 1 = SIZE_MAX_CMD THEN cmd ELSE Append(cmd, Head(input[current_tty]))
    /\ UNCHANGED <<con, current_tty, input_raw, keyboard, out, half, acpi, power, machine, typed>>

\* The terminal is changed, the card is not told.
switch_tty_only(t) == current_tty' = t /\ UNCHANGED <<con, half>>

\* current_tty = new_tty; the rest is render_cell and move_cursor.
switch_tty(t) ==
    /\ current_tty' = t
    /\ con' = [con EXCEPT !.torn = FALSE]
    /\ half' = <<"render", 0>>

\* The line behind the command's name, its leading spaces skipped.
argument ==
    LET behind == {i \in 2..Len(cmd) : \E j \in 2..i : cmd[j] \in Spaced /\ cmd[i] # " "}
    IN  IF behind = {} THEN <<>> ELSE SubSeq(cmd, Min(behind), Len(cmd))

\* atoi gives 0 for a word that is no number.
tty_number == IF argument # <<>> /\ argument[1] \in DOMAIN Numbers THEN Numbers[argument[1]] ELSE 0

switchtty_cmd ==
    /\ IF Len(cmd) >= 2 /\ cmd[2] \in Spaced /\ tty_number < MAX_TTY
       THEN switch_tty(tty_number) ELSE UNCHANGED <<con, current_tty, half>>
    /\ out' = Prompt
    /\ UNCHANGED <<layout_of, power, machine>>

\* The first memcpy has begun; the rest is memcpy_shift and memcpy_plain.
set_layout(name) ==
    /\ layout_of' = [layout_of EXCEPT ![TRUE] = @ \cup {name}]
    /\ half' = <<"shift", name>>

get_layout ==
    IF \E l \in Layouts : layout_of = [s \in BOOLEAN |-> {l}]
    THEN CHOOSE l \in Layouts : layout_of = [s \in BOOLEAN |-> {l}] ELSE "unknow"

layout ==
    /\ IF Len(argument) = 1 /\ argument[1] \in Layouts
       THEN set_layout(argument[1]) ELSE UNCHANGED <<layout_of, half>>
    /\ out' = (IF argument = <<>> THEN <<get_layout>> ELSE <<"w", "nl">>) \o Prompt
    /\ UNCHANGED <<con, current_tty, power, machine>>

mem_debug == out' = <<"nl", "w", "nl">> \o Prompt /\ UNCHANGED <<con, current_tty, layout_of, half, power, machine>>

reboot == machine' = "off" /\ UNCHANGED <<con, current_tty, layout_of, half, power, out>>

halt == machine' = "halted" /\ UNCHANGED <<con, current_tty, layout_of, half, power, out>>

unknow_command == out' = <<"w", "nl">> \o Prompt /\ UNCHANGED <<con, current_tty, layout_of, half, power, machine>>

\* acpiPowerOff up to acpiEnable; it returns at once without ACPI.
acpiPowerOff ==
    /\ IF acpi.SCI_EN THEN power' = [power EXCEPT !.pc = "enable"] /\ out' = <<>>
       ELSE UNCHANGED power /\ out' = Prompt
    /\ UNCHANGED <<con, current_tty, layout_of, half, machine>>

\* A name at the beginning of the line is enough: strncmp with the name's length.
Named(name) == cmd # <<>> /\ cmd[1] = name

Commands == {"reboot", "halt", "switchtty", "memdebug", "layout", "shutdown"}

\* The line stays where it was.
clear_cmd_not(line) == line

clear_cmd(line) == <<>>

exec_cmd ==
    /\ Reads /\ Head(input[current_tty]) = "nl"
    /\ getc
    /\ \/ Named("reboot") /\ reboot
       \/ Named("halt") /\ halt
       \/ Named("switchtty") /\ switchtty_cmd
       \/ Named("memdebug") /\ mem_debug
       \/ Named("layout") /\ layout
       \/ Named("shutdown") /\ acpiPowerOff
       \/ (\A name \in Commands : ~Named(name)) /\ unknow_command
    /\ cmd' = IF power'.pc = "idle" THEN clear_cmd(cmd) ELSE cmd
    /\ lines' = [lines EXCEPT ![current_tty] = Tail(@)]
    /\ UNCHANGED <<input_raw, shift_locked, acpi, keys, cut>>

-----------------------------------------------------------------------------
(* Power off: the rest of the command, the shell waits for it *)

InPower(pc) == machine = "on" /\ power.pc = pc /\ out = <<>> /\ half = <<>>

PowerLeaves == UNCHANGED <<con, current_tty, terms, keyboard, half, acpi, typed>>

acpiEnable ==
    /\ InPower("enable")
    /\ \/ /\ "a" \in power.sci \/ ~acpi.SMI
          /\ power' = [power EXCEPT !.pc = "outw"] /\ out' = <<"w", "nl">>
       \/ /\ "a" \notin power.sci /\ acpi.SMI
          /\ power' = [power EXCEPT !.pc = "poll_a", !.i = 0, !.smi = TRUE] /\ out' = <<>>
    /\ UNCHANGED <<cmd, machine>> /\ PowerLeaves

\* The loops end when the bit is set, but not after MAX_POLL reads.
poll_forever(port, next) ==
    /\ \/ /\ port \in power.sci
          /\ power' = [power EXCEPT !.pc = next]
          /\ out' = IF next = "outw" THEN <<"w", "nl">> ELSE <<>>
       \/ /\ port \notin power.sci
          /\ UNCHANGED <<power, out>>
    /\ UNCHANGED <<cmd, machine>> /\ PowerLeaves

\* One turn of a polling loop; both loops count with the same i.
poll(port, next) ==
    /\ \/ /\ power.i >= MAX_POLL \/ port \in power.sci
          /\ power' = [power EXCEPT !.pc = next]
          /\ out' = IF next = "outw" THEN <<"w", "nl">> ELSE <<>>
       \/ /\ power.i < MAX_POLL /\ port \notin power.sci
          /\ power' = [power EXCEPT !.i = @ + 1] /\ UNCHANGED out
    /\ UNCHANGED <<cmd, machine>> /\ PowerLeaves

poll_a == InPower("poll_a") /\ poll("a", IF acpi.PM1b THEN "poll_b" ELSE "outw")

poll_b == InPower("poll_b") /\ poll("b", "outw")

\* The shutdown command works when the controllers it goes to are in ACPI mode,
\* whatever acpiEnable returned; back here it has failed.
outw_slp ==
    /\ InPower("outw")
    /\ \/ /\ "a" \in power.sci /\ (acpi.PM1b => "b" \in power.sci)
          /\ machine' = "off" /\ UNCHANGED <<power, cmd, out>>
       \/ /\ ~("a" \in power.sci /\ (acpi.PM1b => "b" \in power.sci))
          /\ power' = [power EXCEPT !.pc = "idle"]
          /\ cmd' = clear_cmd(cmd) /\ out' = <<"w", "nl">> \o Prompt
          /\ UNCHANGED machine
    /\ PowerLeaves

\* The controller answers the enable command, in its own time or never.
sci_enabled(port) ==
    /\ machine = "on" /\ power.smi /\ port \notin power.sci
    /\ power' = [power EXCEPT !.sci = @ \cup {port}]
    /\ UNCHANGED <<con, current_tty, terms, keyboard, shell, acpi, machine, typed>>

\* hlt with interrupts off, a triple fault or no power: nothing runs any more.
\* Lost: what runs then is not modelled.
Stopped == machine # "on" /\ UNCHANGED vars

\* while (!(c = getc())) ; - the shell waits for a line.
Waiting == machine = "on" /\ out = <<>> /\ half = <<>> /\ ~Busy /\ input[current_tty] = <<>> /\ UNCHANGED vars

Shell ==
    \/ printk_first \/ printk_step \/ printk_wrap \/ printk_scroll \/ printk_up
    \/ move_cursor \/ render_cell \/ memcpy_shift \/ memcpy_plain
    \/ pushback_char \/ exec_cmd
    \/ acpiEnable \/ poll_a \/ poll_b \/ outw_slp

Next ==
    \/ \E key \in Keys \cup {"shift", "beyond"}, released \in BOOLEAN : irq_keybord(key, released)
    \/ Shell
    \/ \E port \in {"a", "b"} : sci_enabled(port)
    \/ Stopped \/ Waiting

\* The shell's process runs again and again; keys and controllers may be silent.
ConsoleSpec == Init /\ [][Next]_vars /\ WF_vars(Shell)

-----------------------------------------------------------------------------
(* Properties *)

\* con.wild: a store fell outside a screen.  con.raced: a key was echoed while the
\* shell was between two accesses to the row and the column for one character.
\* con.silent: a byte that takes no cell was put in a line.  con.torn: since the
\* last switch of terminals a key was echoed while the shell wrote a character,
\* the card or the cursor, or a carriage return moved the column alone.

\* The types of the variables; the line and the streams stay within their
\* buffers (tty_input.c, stream.h), the shell's line within cmd (minishell.c).
ConsoleTypeOK ==
    /\ current_tty \in Ttys /\ machine \in {"on", "halted", "off", "lost"}
    /\ DOMAIN con.screen = Ttys /\ DOMAIN con.vga_buffer = Cells
    /\ \A t \in Ttys : Len(input_raw[t]) < STREAM_BUFF /\ Len(input[t]) < STREAM_BUFF
    /\ Len(cmd) < SIZE_MAX_CMD
    /\ \A s \in BOOLEAN : layout_of[s] \in (SUBSET Layouts) \ {{}}
    /\ power.i \in 0..MAX_POLL

\* As long as every byte typed takes a cell, no store of a terminal falls outside
\* its screen[VGA_WIDTH * VGA_HEIGHT] (tty_putentryat.c).
InScreen == con.silent \/ ~con.wild

\* Keys that arrive between two characters, commands or copies never move the
\* cursor out of the screen, through wrapping, scrolling and erasing: it takes
\* one in the middle of a character, or a byte without a cell (tty_putchar.c).
StaysInScreen ==
    con.raced \/ con.silent \/
        /\ ~con.wild
        /\ con.row \in [Ttys -> 0..VGA_HEIGHT] /\ con.column \in [Ttys -> 0..VGA_WIDTH]

\* A backspace can only erase what the line editor echoed: up to the same events,
\* every character of the line being typed stands on the screen before the
\* cursor, so that tty_backspace never leaves row 0 (tty_input.c, tty_putchar.c).
EchoBacked ==
    con.raced \/ con.silent \/ \A t \in Ttys : Position(con, t) >= Len(input_raw[t])

\* Between two characters the card shows the terminal in front, cell by cell
\* and with its cursor, through scrolling, races of keys with the shell on the
\* terminals behind and switching, which repairs what a key in the middle of a
\* character has torn; except for cells that no one has written since the
\* loader (tty_putentryat.c, switch_tty.c).
VgaShows ==
    (half = <<>> /\ ~con.torn) =>
        /\ \A i \in Cells : con.vga_buffer[i] \in {con.screen[current_tty][i], Left}
        /\ con.cursor = Position(con, current_tty)

\* A line that finds the terminal's stream empty reaches it whole, with its
\* newline: the editor's limit fits the ring, even when a store behind the screen
\* has fallen in the line (tty_input.c, stream.h).
WholeLine ==
    [][\A t \in Ttys : (input[t] = <<>> /\ input'[t] # <<>>) => Last(input'[t]) = "nl"]_vars

\* As long as no line was cut and no store fell outside a screen, where the line
\* being typed lies, the line the shell runs is the oldest line typed on the
\* terminal in front, as it stood after its backspaces: switching terminals
\* between two lines mixes no two of them (minishell.c, getc.c).
RunsWhatWasTyped ==
    [][\A t \in Ttys :
         (lines'[t] # lines[t] /\ Len(lines'[t]) < Len(lines[t]) /\ ~cut /\ ~con.wild)
            => t = current_tty /\ cmd = Head(lines[t])]_vars

\* A line that arrived on the terminal in front is run sooner or later, unless
\* the machine stops or is lost: no command, not even a shutdown the hardware
\* ignores, keeps the shell for ever (minishell.c, power_off.c).
LineServed ==
    \A t \in Ttys : (current_tty = t /\ lines[t] # <<>>)
        ~> (lines[t] = <<>> \/ current_tty # t \/ machine # "on")
=============================================================================
