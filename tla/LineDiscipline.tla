--------------------------- MODULE LineDiscipline ---------------------------
(***************************************************************************)
(* The terminal line discipline of kernel/ttydev.c: how master_write turns *)
(* typed characters into the input of slave_read and into echo, and how    *)
(* slave_write turns the output of a program into what the master reads.   *)
(*                                                                         *)
(* Characters are their codes.  The three FifoBuffers are the bounded      *)
(* queues that FifoBuffer implements, so they are sequences here.  The     *)
(* calls are atomic in this module; Tty adds threads, locks and            *)
(* interrupts.                                                             *)
(***************************************************************************)
EXTENDS Integers, Sequences, SequencesExt

CONSTANTS
    TtySize,        \* capacity of the FifoBuffers (4096 in ttydev_create)
    LineSize,       \* TTYDEV_LINEBUFFER_SIZE
    TypedChunks,    \* arguments offered to master_write
    PrintedChunks,  \* arguments offered to slave_write
    ReadSizes,      \* byte counts asked of the read calls
    Terms           \* settings offered to TCSETS

ASSUME TtyAssumption ==
    /\ TtySize \in Nat \ {0}
    /\ LineSize \in Nat \ {0, 1, 2}
    /\ ReadSizes \subseteq Nat
    /\ TypedChunks \subseteq Seq(Nat) /\ PrintedChunks \subseteq Seq(Nat)
    /\ \A t \in Terms : t.verase \in Nat

VARIABLES
    term,                   \* TtyDev.term
    foreground_process,     \* the process signals are sent to, or -1
    line_buffer,            \* line_buffer[0 .. line_buffer_index - 1]
    buffer_master_write,    \* input on its way to slave_read
    buffer_master_read,     \* output and echo on their way to master_read
    raised                  \* signals the last master_write has sent

ttyVars == <<term, foreground_process, line_buffer, buffer_master_write,
             buffer_master_read, raised>>

NL == 10
CR == 13
BS == 8
SP == 32
CARET == 94
VINTR == 3
VSUSP == 26
VQUIT == 28

iscntrl(c) == c < 32 \/ c = 127

\* fifobuffer_enqueue on a sequence: the longest prefix of s that fits.
Queued(queue, s) ==
    queue \o SubSeq(s, 1, Min({Len(s), TtySize - Len(queue)}))

Smaller(a, b) == IF a <= b THEN a ELSE b

-----------------------------------------------------------------------------
(* Input *)

\* override_character_master_write, without its verdict.
Override(c0) ==
    LET c == IF "ISTRIP" \in term.iflag THEN c0 % 128 ELSE c0
        d == CASE c = CR /\ "IGNCR" \in term.iflag -> c
               [] c = NL /\ "INLCR" \in term.iflag -> CR
               [] c = CR /\ {"ICRNL", "IGNCR"} \cap term.iflag = {"ICRNL"} -> NL
               [] OTHER -> c
    IN  IF d = BS THEN term.verase ELSE d

\* The verdict: a carriage return that IGNCR drops.
Ignored(c0) ==
    /\ "IGNCR" \in term.iflag
    /\ (IF "ISTRIP" \in term.iflag THEN c0 % 128 ELSE c0) = CR

\* A control character is shown as a caret and a letter.
Escaped(c) ==
    /\ "ECHO" \in term.lflag
    /\ iscntrl(c)
    /\ c \notin {term.verase, NL, CR}

Escape(c) == <<CARET, (64 + c) % 128>>

\* What one character adds to buffer_echo before it is interpreted.
EchoOf(c) ==
    CASE Escaped(c) -> Escape(c)
      [] ~Escaped(c) /\ "ECHO" \in term.lflag /\ c # 127 -> <<c>>
      [] OTHER -> <<>>

\* The signals one character sends to the foreground process.
SignalOf(c) ==
    IF "ISIG" \in term.lflag /\ foreground_process >= 0
    THEN CASE c = VINTR -> <<"SIGINT">>
           [] c = VSUSP -> <<"SIGTSTP">>
           [] c = VQUIT -> <<"SIGQUIT">>
           [] OTHER -> <<>>
    ELSE <<>>

\* Faulty variant: an erase at the start of a line is echoed too.
EraseAlways(w) ==
    [w EXCEPT !.line = SubSeq(@, 1, Len(@) - 1),
              !.echo = Queued(@, <<BS, SP, BS>>)]

\* The erase character takes back the last character of the line, if any.
Erase(w) ==
    IF w.line = <<>>
    THEN w
    ELSE [w EXCEPT !.line = SubSeq(@, 1, Len(@) - 1),
                   !.echo = Queued(@, <<BS, SP, BS>>)]

\* A newline hands a line that is not empty to the readers.  The count of
\* bytes written is that of this line alone: it replaces an earlier one.
EndLine(w) ==
    LET input == Queued(Queued(w.input, w.line), <<NL>>)
    IN  IF w.line = <<>>
        THEN w
        ELSE [w EXCEPT !.line = <<>>,
                       !.input = input,
                       !.written = Len(input) - Len(w.input),
                       !.echo = IF "ECHO" \in term.lflag
                                THEN Queued(@, <<CR>>) ELSE @]

\* Any other character joins the line, as it was echoed, if there is room.
Extend(w, c) ==
    LET s == IF Escaped(c) THEN Escape(c) ELSE <<c>>
    IN  IF Len(w.line) < LineSize - Len(s)
        THEN [w EXCEPT !.line = @ \o s] ELSE w

\* Canonical mode; a line buffer that is full starts again from nothing.
Canonical(w0, c) ==
    LET w == IF Len(w0.line) >= LineSize - 1
             THEN [w0 EXCEPT !.line = <<>>] ELSE w0
    IN  CASE c = term.verase -> Erase(w)
          [] c # term.verase /\ c = NL -> EndLine(w)
          [] OTHER -> Extend(w, c)

Raw(w, c) ==
    LET input == Queued(w.input, <<c>>)
    IN  [w EXCEPT !.input = input,
                  !.written = @ + Len(input) - Len(w.input)]

\* One iteration of the loop of master_write.
TypeCharacter(w0, c0) ==
    LET c == Override(c0)
        w == [w0 EXCEPT !.echo = Queued(@, EchoOf(c)),
                        !.raised = @ \o SignalOf(c)]
    IN  IF Ignored(c0) THEN w0
        ELSE IF "ICANON" \in term.lflag THEN Canonical(w, c) ELSE Raw(w, c)

\* The loop: it takes no more characters than the input buffer has room for
\* when the call starts.
Typed(chunk) ==
    LET taken == Smaller(Len(chunk), TtySize - Len(buffer_master_write))
        Done[i \in 0 .. taken] ==
            IF i = 0
            THEN [line |-> line_buffer, input |-> buffer_master_write,
                  echo |-> <<>>, raised |-> <<>>, written |-> 0]
            ELSE TypeCharacter(Done[i - 1], chunk[i])
    IN  Done[taken]

\* master_write, but for the locks and the threads it resumes.
MasterWrite(chunk) ==
    LET w == Typed(chunk)
    IN  /\ chunk # <<>>
        /\ line_buffer' = w.line
        /\ buffer_master_write' = w.input
        /\ buffer_master_read' = Queued(buffer_master_read, w.echo)
        /\ raised' = w.raised
        /\ UNCHANGED <<term, foreground_process>>

\* How many bytes slave_read waits for.
NeededSize(size) ==
    IF "ICANON" \in term.lflag THEN 1 ELSE Smaller(term.vmin, size)

\* The bytes slave_read takes; none if fewer than needed are there.
SlaveGets(size) ==
    IF Len(buffer_master_write) >= NeededSize(size)
    THEN Smaller(size, Len(buffer_master_write)) ELSE 0

TakeInput(n) ==
    /\ buffer_master_write' =
          SubSeq(buffer_master_write, n + 1, Len(buffer_master_write))
    /\ UNCHANGED <<term, foreground_process, line_buffer, buffer_master_read,
                   raised>>

-----------------------------------------------------------------------------
(* Output *)

\* One iteration of process_slave_write: output so far and bytes consumed.
PrintCharacter(p, c) ==
    LET to == CASE c = CR /\ "OCRNL" \in term.oflag -> <<NL>>
                [] c = CR /\ "OCRNL" \notin term.oflag
                          /\ "ONLRET" \in term.oflag -> <<>>
                [] c = NL /\ "ONLCR" \in term.oflag -> <<CR, NL>>
                [] OTHER -> <<c>>
    IN  IF TtySize - Len(p.output) >= Len(to)
        THEN [output |-> p.output \o to, written |-> p.written + 1]
        ELSE p

\* process_slave_write, as slave_write calls it: no more bytes than fit
\* untranslated are looked at.
Printed(chunk) ==
    LET taken == Smaller(Len(chunk), TtySize - Len(buffer_master_read))
        Done[i \in 0 .. taken] ==
            IF i = 0 THEN [output |-> buffer_master_read, written |-> 0]
            ELSE PrintCharacter(Done[i - 1], chunk[i])
    IN  Done[taken]

\* slave_write, but for the lock and the thread it resumes.
SlaveWrite(chunk) ==
    /\ chunk # <<>>
    /\ buffer_master_read' = Printed(chunk).output
    /\ UNCHANGED <<term, foreground_process, line_buffer, buffer_master_write,
                   raised>>

\* master_read and ttydev_master_read_nonblock take what there is.
TakeOutput(size) ==
    LET n == Smaller(size, Len(buffer_master_read))
    IN  /\ n > 0
        /\ buffer_master_read' =
              SubSeq(buffer_master_read, n + 1, Len(buffer_master_read))
        /\ UNCHANGED <<term, foreground_process, line_buffer,
                       buffer_master_write, raised>>

\* slave_ioctl: TCSETS, TCSETSW and TCSETSF; TIOCSPGRP.  A request on a
\* terminal that is not the caller's own changes nothing.
SetTerm(t) ==
    /\ term' = t
    /\ UNCHANGED <<foreground_process, line_buffer, buffer_master_write,
                   buffer_master_read, raised>>

SetForeground(pid) ==
    /\ foreground_process' = pid
    /\ UNCHANGED <<term, line_buffer, buffer_master_write, buffer_master_read,
                   raised>>

-----------------------------------------------------------------------------
\* ttydev_create
DefaultTerm ==
    [iflag |-> {"ICRNL"}, oflag |-> {"ONLCR"},
     lflag |-> {"ECHO", "ICANON", "ISIG"}, vmin |-> 1, verase |-> 127]

TtyInit ==
    /\ term = DefaultTerm
    /\ foreground_process = -1
    /\ line_buffer = <<>>
    /\ buffer_master_write = <<>>
    /\ buffer_master_read = <<>>
    /\ raised = <<>>
=============================================================================
