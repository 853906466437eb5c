------------------------------- MODULE Screen -------------------------------
(***************************************************************************)
(* The virtual terminals and the console (terminal.c, console.c, keymap.c, *)
(* vgaterminal.c, fbterminal.c): each terminal has a text buffer and a     *)
(* cursor, one of them is active and is drawn on the display as it         *)
(* changes, and Ctrl with a function key makes another one active.         *)
(*                                                                         *)
(* A cell is a character code, 0 when blank; colours are left out.  The    *)
(* text-mode driver draws single characters and whole buffers; the         *)
(* framebuffer driver also redraws the two cells of a cursor movement.     *)
(* A call is one action.                                                   *)
(***************************************************************************)
EXTENDS Integers, Sequences, SequencesExt

CONSTANTS
    Terminals,          \* g_terminals, in the order of the function keys
    Rows, Columns,      \* winsize
    Texts,              \* what master_read_ready passes to terminal_put_text
    KeyEvents           \* scan codes: [key, release]

ASSUME ScreenAssumption ==
    /\ Rows \in Nat \ {0, 1}
    /\ Columns \in Nat \ {0}
    /\ Terminals # <<>> /\ Terminals \in Seq(Range(Terminals))
    /\ Texts \subseteq Seq(Nat)

VARIABLES
    graphic_mode,       \* which driver console_initialize chose
    buffer,             \* buffer[t][line][column]
    cursor,             \* cursor[t] = <<current_line, current_column>>
    active_terminal,    \* g_active_terminal
    display,            \* what the display shows, without the cursor
    key_modifier,       \* g_key_modifier: the modifiers held down
    sent                \* what terminal_send_key last wrote to the master

screenVars == <<graphic_mode, buffer, cursor, active_terminal, display,
                key_modifier, sent>>

LF == 10
RET == 13
BACK == 8
ESC == 27

Lines == 0 .. Rows - 1
Cols == 0 .. Columns - 1
Blank == [line \in Lines |-> [col \in Cols |-> 0]]

\* console_initialize: every terminal is cleared, the first one is drawn.
ScreenInit ==
    /\ graphic_mode \in BOOLEAN
    /\ buffer = [t \in Range(Terminals) |-> Blank]
    /\ cursor = [t \in Range(Terminals) |-> <<0, 0>>]
    /\ active_terminal = Head(Terminals)
    /\ display = Blank
    /\ key_modifier = {}
    /\ sent = <<>>

-----------------------------------------------------------------------------
(* Output.  The state of a call is [text, at, shown, active]. *)

\* terminal_move_cursor: the place is clamped to the window.  The framebuffer
\* driver redraws the old and the new cell from the buffer.
MoveCursor(s, line, col) ==
    LET to == <<IF line \in Lines THEN line ELSE Rows - 1,
                IF col \in Cols THEN col ELSE Columns - 1>>
        redrawn == [s.shown EXCEPT
                      ![s.at[1]][s.at[2]] = s.text[s.at[1]][s.at[2]],
                      ![to[1]][to[2]] = s.text[to[1]][to[2]]]
    IN  [s EXCEPT !.at = to,
                  !.shown = IF s.active /\ graphic_mode THEN redrawn ELSE @]

\* The drivers' refresh: the whole buffer is copied to the display.
Refresh(s) == IF s.active THEN [s EXCEPT !.shown = s.text] ELSE s

\* The drivers' way to draw one character where the cursor is.
DrawCharacter(s, c) ==
    IF s.active THEN [s EXCEPT !.shown[s.at[1]][s.at[2]] = c] ELSE s

\* Faulty variant: the display is not refreshed.
ScrollUnseen(s) ==
    [s EXCEPT !.text = [line \in Lines |-> IF line = Rows - 1
                                           THEN Blank[line]
                                           ELSE s.text[line + 1]]]

\* terminal_scroll_up
ScrollUp(s) ==
    Refresh([s EXCEPT !.text = [line \in Lines |-> IF line = Rows - 1
                                                   THEN Blank[line]
                                                   ELSE s.text[line + 1]]])

\* Away from the last row of the window, which stays blank.
LeaveLastRow(s) ==
    IF s.at[1] >= Rows - 1
    THEN ScrollUp(MoveCursor(s, s.at[1] - 1, s.at[2])) ELSE s

\* A backspace blanks the cell in the buffer only.
BlankUnderCursor(s) == [s EXCEPT !.text[s.at[1]][s.at[2]] = 0]

PutBackspace(s) ==
    IF s.at[2] > 0
    THEN BlankUnderCursor(MoveCursor(s, s.at[1], s.at[2] - 1))
    ELSE BlankUnderCursor(MoveCursor(s, s.at[1] - 1, Columns - 1))

\* The column is never beyond the window, so the code's line wrap never
\* happens: further characters replace the last one of the line.
PutPlain(s0, c) ==
    LET s == LeaveLastRow(s0)
        drawn == DrawCharacter([s EXCEPT !.text[s.at[1]][s.at[2]] = c], c)
    IN  MoveCursor(drawn, s.at[1], s.at[2] + 1)

\* terminal_put_character; a backspace in the first cell is drawn.
PutCharacter(s, c) ==
    CASE c = LF -> LeaveLastRow(MoveCursor(s, s.at[1] + 1, s.at[2]))
      [] c = RET -> MoveCursor(s, s.at[1], 0)
      [] c = BACK /\ s.at # <<0, 0>> -> PutBackspace(s)
      [] OTHER -> PutPlain(s, c)

\* terminal_put_text: up to the first zero.
PutText(t, chars) ==
    LET Done[i \in 0 .. Len(chars)] ==
            IF i = 0 THEN [text |-> buffer[t], at |-> cursor[t],
                           shown |-> display, active |-> active_terminal = t]
            ELSE PutCharacter(Done[i - 1], chars[i])
        s == Done[Len(chars)]
    IN  /\ buffer' = [buffer EXCEPT ![t] = s.text]
        /\ cursor' = [cursor EXCEPT ![t] = s.at]
        /\ display' = s.shown
        /\ UNCHANGED <<graphic_mode, active_terminal, key_modifier, sent>>

-----------------------------------------------------------------------------
(* Input *)

\* console_set_active_terminal
Activate(t) == active_terminal' = t /\ display' = buffer[t]

\* console_ioctl, VT_ACTIVATE.
VtActivate(index) ==
    /\ IF index \in DOMAIN Terminals THEN Activate(Terminals[index])
       ELSE UNCHANGED <<active_terminal, display>>
    /\ UNCHANGED <<graphic_mode, buffer, cursor, key_modifier, sent>>

Modifiers == {"lshift", "rshift", "ctrl", "alt"}

FunctionKey == [f1 |-> 1, f2 |-> 2, f3 |-> 3]

\* g_key_map and g_key_shift_map for the keys of KeyEvents; 0 for no character.
KeyMap(key, shifted) ==
    CASE key = "a" -> IF shifted THEN 65 ELSE 97
      [] key = "one" -> IF shifted THEN 33 ELSE 49
      [] key = "enter" -> LF
      [] key = "up" -> 226
      [] key = "pageup" -> 230
      [] OTHER -> 0

\* The keys that terminal_send_key turns into an escape sequence.
EscapeTail ==
    (224 :> <<72>>) @@ (225 :> <<70>>) @@ (226 :> <<65>>) @@ (227 :> <<66>>)
    @@ (228 :> <<68>>) @@ (229 :> <<67>>) @@ (230 :> <<53, 126>>)
    @@ (231 :> <<54, 126>>) @@ (232 :> <<50, 126>>) @@ (233 :> <<51, 126>>)

\* C(toupper(c)): c & 0x5F, less '@', in eight bits.
ControlCode(c) ==
    ((c % 32) + (IF (c \div 64) % 2 = 1 THEN 64 ELSE 0) + 192) % 256

\* terminal_send_key: what is written to the master.
SendKey(c, held) ==
    CASE c \in DOMAIN EscapeTail -> <<ESC, 91>> \o EscapeTail[c]
      [] c \notin DOMAIN EscapeTail /\ held = {"ctrl"} /\ c \in 33 .. 126 ->
            <<ControlCode(c)>>
      [] OTHER -> <<c>>

\* process_scancode: the modifiers after the event.
HeldAfter(event) ==
    CASE event.key \notin Modifiers -> key_modifier
      [] event.release -> key_modifier \ {event.key}
      [] OTHER -> key_modifier \cup {event.key}

\* console_send_key: process_scancode, then the character, if the key has one
\* and goes down, to the terminal that is active by then.
ConsoleSendKey(event) ==
    LET held == HeldAfter(event)
        switch == /\ ~event.release
                  /\ "ctrl" \in held
                  /\ event.key \in DOMAIN FunctionKey
                  /\ FunctionKey[event.key] <= Len(Terminals)
        c == KeyMap(event.key, held \cap {"lshift", "rshift"} # {})
    IN  /\ key_modifier' = held
        /\ IF switch THEN Activate(Terminals[FunctionKey[event.key]])
           ELSE UNCHANGED <<active_terminal, display>>
        /\ sent' = IF c > 0 /\ ~event.release THEN SendKey(c, held) ELSE <<>>
        /\ UNCHANGED <<graphic_mode, buffer, cursor>>

ScreenNext ==
    \/ \E t \in Range(Terminals), chars \in Texts : PutText(t, chars)
    \/ \E index \in 0 .. Len(Terminals) + 1 : VtActivate(index)
    \/ \E event \in KeyEvents : ConsoleSendKey(event)

ScreenSpec == ScreenInit /\ [][ScreenNext]_screenVars

-----------------------------------------------------------------------------
(* Properties *)

\* The display shows the active terminal's text, whichever terminals were
\* written to and switched in between and with either driver, although the
\* drivers are told of single characters, of scrolls and of switches only.  A
\* cell that a backspace blanked may still show the old character; no cursor
\* leaves the window.
DisplayShowsActive ==
    /\ \A line \in Lines, col \in Cols :
          buffer[active_terminal][line][col] # 0 =>
              display[line][col] = buffer[active_terminal][line][col]
    /\ \A t \in Range(Terminals) : cursor[t] \in Lines \X Cols
=============================================================================
