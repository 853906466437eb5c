----------------------------- MODULE MCDevices -----------------------------
(***************************************************************************)
(* What a user sees and types: the line discipline of a terminal, the      *)
(* input devices, the screen of text and the framebuffer.  The four share  *)
(* no state, so a behaviour is one of the part that part names, and the    *)
(* others stay as they began.                                              *)
(***************************************************************************)
EXTENDS LineHistory, InputDevices, Screen, Graphics, TLC

CONSTANTS t1, t2

\* A letter, newline, the two erase characters, control-C, and a chunk whose
\* second byte is a carriage return and whose third has the eighth bit set.
MCTypedChunks == {<<c>> : c \in {97, 10, 127, 3, 8}} \cup {<<97, 13, 225, 127>>}
MCPrintedChunks == {<<98, 10>>, <<13>>}
MCTerms ==
    {DefaultTerm,
     [iflag |-> {"ISTRIP", "IGNCR"}, oflag |-> {"OCRNL"}, lflag |-> {},
      vmin |-> 2, verase |-> 8]}

\* Bursts that overrun each device's buffer, and two devices whose interrupts
\* resume each other's readers.
MCBudgets ==
    {[key |-> 3, mouse |-> 0, serial |-> 0],
     [key |-> 0, mouse |-> 7, serial |-> 0],
     [key |-> 2, mouse |-> 0, serial |-> 1]}

MCTerminals == <<t1, t2>>
MCTexts == {<<97>>, <<LF>>, <<BACK>>, <<RET>>}
MCKeyEvents ==
    {[key |-> "ctrl", release |-> r] : r \in BOOLEAN}
    \cup {[key |-> k, release |-> FALSE] : k \in {"f2", "a"}}

\* Lines of whole pages, a depth of three bytes, padded lines, a picture that
\* is not whole pages, and one with a part of a cell at the right.
Mode(w, h, d, p) == [width |-> w, height |-> h, depth |-> d, pitch |-> p]
MCModes == {Mode(6, 2, 4, 6), Mode(4, 4, 3, 4), Mode(4, 4, 4, 5), Mode(5, 2, 4, 5),
            Mode(6, 2, 3, 6)}
MCGlyphs == (0 :> {<<0, 0>>, <<1, 1>>}) @@ (1 :> {<<0, 1>>})

VARIABLE part

LineVars == <<ttyVars, echoed, given, plain, offered>>

MCInit ==
    /\ part \in {"line", "input", "screen", "graphics"}
    /\ TtyInit /\ LineInit /\ InputInit /\ ScreenInit /\ GraphicsInit
    /\ part # "input" => budget = CHOOSE b \in Budgets : TRUE
    /\ part # "graphics" => mode = CHOOSE m \in Modes : TRUE

MCNext ==
    /\ UNCHANGED part
    /\ IF part = "line" THEN LineNext ELSE UNCHANGED LineVars
    /\ IF part = "input" THEN InputNext ELSE UNCHANGED inputVars
    /\ IF part = "screen" THEN ScreenNext ELSE UNCHANGED screenVars
    /\ IF part = "graphics" THEN GraphicsNext ELSE UNCHANGED graphicsVars
=============================================================================
