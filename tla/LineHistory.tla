---------------------------- MODULE LineHistory ----------------------------
(***************************************************************************)
(* LineDiscipline as a state machine of whole calls, with what has been    *)
(* echoed and what has been handed to readers so far.                      *)
(***************************************************************************)
EXTENDS LineDiscipline

CONSTANT MaxOffered     \* bound on the characters of a behaviour

VARIABLES
    echoed,     \* everything buffer_echo has passed on
    given,      \* everything that has entered buffer_master_write
    plain,      \* default settings and ample room in every call so far
    offered     \* number of characters typed and printed so far

lineVars == <<echoed, given, plain, offered>>

LineInit ==
    /\ echoed = <<>>
    /\ given = <<>>
    /\ plain = TRUE
    /\ offered = 0

\* No buffer can fill up during the call: a character puts at most two bytes
\* in the line, two in the input and three in the echo.
Roomy(chunk) ==
    /\ Len(line_buffer) + 2 * Len(chunk) < LineSize - 1
    /\ Len(buffer_master_write) + Len(line_buffer) + 2 * Len(chunk) <= TtySize
    /\ Len(buffer_master_read) + 3 * Len(chunk) <= TtySize

LineType(chunk) ==
    LET w == Typed(chunk)
    IN  /\ offered + Len(chunk) <= MaxOffered
        /\ MasterWrite(chunk)
        /\ offered' = offered + Len(chunk)
        /\ echoed' = echoed \o w.echo
        /\ given' = given \o SubSeq(w.input, Len(buffer_master_write) + 1,
                                    Len(w.input))
        /\ plain' = (plain /\ term = DefaultTerm /\ Roomy(chunk))

LineRead(size) == SlaveGets(size) > 0 /\ TakeInput(SlaveGets(size))
                                      /\ UNCHANGED lineVars
LinePrint(chunk) ==
    /\ offered + Len(chunk) <= MaxOffered
    /\ SlaveWrite(chunk)
    /\ offered' = offered + Len(chunk)
    /\ UNCHANGED <<echoed, given, plain>>

LineShow(size) == TakeOutput(size) /\ UNCHANGED lineVars
LineSet(t) == term # t /\ SetTerm(t) /\ UNCHANGED lineVars
LineForeground(pid) == SetForeground(pid) /\ UNCHANGED lineVars

LineNext ==
    \/ \E chunk \in TypedChunks : LineType(chunk)
    \/ \E size \in ReadSizes : LineRead(size)
    \/ \E chunk \in PrintedChunks : LinePrint(chunk)
    \/ \E size \in ReadSizes : LineShow(size)
    \/ \E t \in Terms : LineSet(t)
    \/ \E pid \in {-1, 1} : LineForeground(pid)

LineSpec == TtyInit /\ LineInit /\ [][LineNext]_<<ttyVars, lineVars>>

-----------------------------------------------------------------------------
(* Properties *)

\* What a screen shows after one more byte: the finished lines and the row
\* the cursor is in, up to the cursor.  A backspace at the start of a row
\* would damage a finished line.
Shown(screen, c) ==
    CASE c = NL -> IF screen.row = <<>> THEN screen
                   ELSE [past |-> screen.past \o screen.row \o <<NL>>,
                         row |-> <<>>]
      [] c = BS -> IF screen.row = <<>>
                   THEN [screen EXCEPT !.past = Append(@, BS)]
                   ELSE [screen EXCEPT !.row = SubSeq(@, 1, Len(@) - 1)]
      [] c = CR -> screen
      [] OTHER -> [screen EXCEPT !.row = Append(@, c)]

\* The screen after some bytes.
OnScreen(bytes) ==
    LET Screen[i \in 0 .. Len(bytes)] ==
            IF i = 0 THEN [past |-> <<>>, row |-> <<>>]
            ELSE Shown(Screen[i - 1], bytes[i])
    IN  Screen[Len(bytes)]

\* What the user sees is what the program gets: as long as no buffer has
\* filled up, the echo of master_write, drawn on a screen, shows exactly the
\* lines handed to slave_read and the line being edited, through every mix of
\* characters, control characters, erases, empty lines and partial reads.
EchoShowsInput ==
    plain => OnScreen(echoed) = [past |-> given, row |-> line_buffer]
=============================================================================
