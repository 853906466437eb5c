------------------------------ MODULE Strings ------------------------------
(***************************************************************************)
(* The memory, string and number functions of common.c and of libc/string.c*)
(* as operators on a small memory m, a function from addresses to bytes,   *)
(* and a state machine that calls them: one call on any small memory, and, *)
(* for strtok, which keeps a pointer, the calls that follow.  A pointer is *)
(* an address.  Where the code walks past the end of a string, so does the *)
(* operator; the callers' side of the contract is in the guards.           *)
(***************************************************************************)
EXTENDS Integers, Sequences, SequencesExt, FiniteSetsExt

CONSTANTS
    WordRange,          \* the range of an int, 2^32 in the program
    MemorySize,         \* bytes of memory
    MemoryBytes,        \* what a byte may be at first
    Lengths,            \* byte counts
    Numbers,            \* ints
    Formats             \* formats for sprintf

ASSUME StringsAssumption ==
    /\ WordRange \in Nat \ {0}
    /\ MemorySize \in Nat \ {0}
    /\ 0 \in MemoryBytes
    /\ MemoryBytes \subseteq 0 .. 255

VARIABLES
    memory,
    saved,      \* the static variable of strtok; -1 for NULL
    called      \* the last call: its name, arguments and result

stringVars == <<memory, saved, called>>

Address == 0 .. MemorySize - 1

Signed(x) == ((x + WordRange \div 2) % WordRange) - WordRange \div 2
Int8(x) == ((x + 128) % 256) - 128

Span(p, n) == p .. p + n - 1
Bytes(m, p, n) == [i \in 1 .. n |-> m[p + i - 1]]

-----------------------------------------------------------------------------
(* Memory *)

\* Byte after byte, in this order; a byte that was overwritten stays so.
CopyBytes(m, pairs) ==
    FoldLeft(LAMBDA mem, pair : [mem EXCEPT ![pair[1]] = mem[pair[2]]], m, pairs)

Memcpy(m, d, s, n) == CopyBytes(m, [i \in 1 .. n |-> <<d + i - 1, s + i - 1>>])

\* From the first byte on, or from the last one back.
Memmove(m, d, s, n) ==
    IF d < s THEN CopyBytes(m, [i \in 1 .. n |-> <<d + i - 1, s + i - 1>>])
    ELSE CopyBytes(m, [i \in 1 .. n |-> <<d + n - i, s + n - i>>])

Memset(m, d, v, n) == [a \in DOMAIN m |-> IF a \in Span(d, n) THEN v ELSE m[a]]

\* Where two pieces of memory differ first, among the first n bytes.
Differences(m, p, q, n) == {i \in 0 .. n - 1 : m[p + i] # m[q + i]}

\* The difference is kept in eight bits.
Memcmp(m, p, q, n) ==
    LET diff == Differences(m, p, q, n)
    IN  IF diff = {} THEN 0 ELSE Int8(m[p + Min(diff)] - m[q + Min(diff)])

-----------------------------------------------------------------------------
(* Strings *)

\* The offsets of zero bytes from p on.
Zeros(m, p) == {i \in 0 .. Max(DOMAIN m) - p : m[p + i] = 0}

Strlen(m, p) == Min(Zeros(m, p))

\* The loop stops at the first difference or the end of either string.
Strcmp(m, p, q) ==
    LET stop == Min(Zeros(m, p) \cup Zeros(m, q)
                    \cup Differences(m, p, q, Max(DOMAIN m) + 1 - Max({p, q})))
    IN  IF m[p + stop] # m[q + stop] THEN 1 ELSE 0

\* All of the first n bytes, whether or not the strings have ended.
Strncmp(m, p, q, n) ==
    LET diff == Differences(m, p, q, n)
    IN  IF diff = {} THEN 0
        ELSE Int8(m[p + Min(diff)]) - Int8(m[q + Min(diff)])

\* strcpy and strcpy_nonnull copy the first byte before they test for the
\* end, so of an empty string they copy what lies behind it.
CopiedBytes(m, s) == Min(Zeros(m, s) \ {0})
StrcpyNonnull(m, d, s) == Memcpy(m, d, s, CopiedBytes(m, s))
Strcpy(m, d, s) == [StrcpyNonnull(m, d, s) EXCEPT ![d + CopiedBytes(m, s)] = 0]

\* Padded with zeros; not terminated if the string is longer.
Strncpy(m, d, s, n) ==
    LET k == Min({n} \cup Zeros(m, s))
    IN  Memset(Memcpy(m, d, s, k), d + k, 0, n - k)

StrncpyNull(m, d, s, n) ==
    IF n = 0 THEN m ELSE [Strncpy(m, d, s, n) EXCEPT ![d + n - 1] = 0]

Strcat(m, d, s) == Memcpy(m, d + Strlen(m, d), s, Strlen(m, s) + 1)

StrFirstIndexOf(m, p, c) ==
    LET hits == {i \in 0 .. Strlen(m, p) - 1 : m[p + i] = c}
    IN  IF hits = {} THEN -1 ELSE Min(hits)

-----------------------------------------------------------------------------
(* Numbers *)

DigitChar(r) == IF r < 10 THEN 48 + r ELSE 65 + r - 10

\* The digits that the do loop of itoa leaves behind, put in order.
Digits(u, divisor) ==
    LET from[n \in Nat] ==
            IF n < divisor THEN <<DigitChar(n)>>
            ELSE Append(from[n \div divisor], DigitChar(n % divisor))
    IN  from[u]

\* base is "d", "u", "x" or "p"; only "x" is hexadecimal.
Itoa(base, d) ==
    IF base = "d" /\ d < 0 THEN <<45>> \o Digits(-d, 10)
    ELSE Digits(d % WordRange, IF base = "x" THEN 16 ELSE 10)

\* Every byte is taken for a digit.
Atoi(text) == FoldLeft(LAMBDA r, c : Signed(r * 10 + c - 48), 0, text)

-----------------------------------------------------------------------------
(* sprintf_va: a format is a sequence of directives, plain characters among *)
(* them; a line feed becomes two characters for kprintf.                    *)

PieceOf(piece, newline_rn) ==
    CASE piece.kind = "char" -> IF piece.arg = 10 /\ newline_rn THEN <<13, 10>>
                                ELSE <<piece.arg>>
      [] piece.kind \in {"p", "x"} -> <<48, 120>> \o Itoa(piece.kind, piece.arg)
      [] piece.kind \in {"d", "u"} -> Itoa(piece.kind, piece.arg)
      [] piece.kind = "s" -> piece.arg

Formatted(format, newline_rn, k) ==
    FlattenSeq([i \in 1 .. k |-> PieceOf(format[i], newline_rn)])

\* Room is looked for after a directive, never before.
PiecesPrinted(size, format, newline_rn) ==
    Min({Len(format)} \cup {k \in DOMAIN format :
            Len(Formatted(format, newline_rn, k)) >= size - 1})

SprintfVa(size, format, newline_rn) ==
    Formatted(format, newline_rn, PiecesPrinted(size, format, newline_rn))

-----------------------------------------------------------------------------
(* The functions of libc/string.c that differ from those of the kernel *)

\* The first byte is counted without being tested.
LibcStrlen(m, p) == Min(Zeros(m, p) \ {0})

LibcStrncmp(m, p, q, n) ==
    LET last == Max(DOMAIN m) - Max({p, q})
        stop == {i \in 0 .. Min({n - 1, last}) :
                    m[p + i] # m[q + i] \/ m[p + i] = 0}
        a == Int8(m[p + Min(stop)])
        b == Int8(m[q + Min(stop)])
    IN  IF stop = {} \/ a = b THEN 0 ELSE IF a < b THEN -1 ELSE 1

\* The byte behind the first n is written too.
LibcStrncpy(m, d, s, n) == Memcpy(m, d, s, Min({n} \cup Zeros(m, s)) + 1)

LibcStrcat(m, d, s) == LibcStrncpy(m, d + LibcStrlen(m, d), s, MemorySize)

Strcspn(m, p, reject) ==
    Min(Zeros(m, p) \cup {i \in 0 .. MemorySize - 1 - p : m[p + i] \in reject})

\* -1 for NULL.
Strstr(m, hay, needle) ==
    LET hits == {i \in 0 .. Strlen(m, hay) - 1 :
                    /\ m[hay + i] = m[needle]
                    /\ LibcStrncmp(m, hay + i, needle, LibcStrlen(m, needle)) = 0}
    IN  IF m[needle] = 0 THEN hay
        ELSE IF hits = {} THEN -1 ELSE hay + Min(hits)

\* Faulty variant: the delimiter is not skipped.
StrtokStays(m, start, delim) ==
    LET stop == start + Min(Zeros(m, start) \cup
                            {i \in 0 .. MemorySize - 1 - start : m[start + i] \in delim})
    IN  IF m[stop] # 0
        THEN [token |-> start, memory |-> [m EXCEPT ![stop] = 0], saved |-> stop]
        ELSE [token |-> IF start = stop THEN -1 ELSE start, memory |-> m,
              saved |-> stop]

\* strtok from start, which is its argument or what it has saved.
Strtok(m, start, delim) ==
    LET stop == start + Min(Zeros(m, start) \cup
                            {i \in 0 .. MemorySize - 1 - start : m[start + i] \in delim})
    IN  IF m[stop] # 0
        THEN [token |-> start, memory |-> [m EXCEPT ![stop] = 0],
              saved |-> stop + 1]
        ELSE [token |-> IF start = stop THEN -1 ELSE start, memory |-> m,
              saved |-> stop]

\* The letters of libc's itoa are small ones.
LibcItoa(base, d) ==
    LET text == Itoa(base, d)
    IN  [i \in DOMAIN text |-> IF text[i] >= 65 THEN text[i] + 32 ELSE text[i]]

DigitValue(c) ==
    CASE c \in 48 .. 57 -> c - 48
      [] c \in 65 .. 90 -> c - 65 + 10
      [] c \in 97 .. 122 -> c - 97 + 10
      [] OTHER -> 99

\* strtol, for a text without its terminator.
Strtol(text, base0) ==
    LET At(i) == IF i \in DOMAIN text THEN text[i] ELSE 0
        spaces == {i \in 1 .. Len(text) + 1 : At(i) \notin {9, 10, 11, 12, 13, 32}}
        signAt == Min(spaces)
        sign == IF At(signAt) = 45 THEN -1 ELSE 1
        first == IF At(signAt) \in {43, 45} THEN signAt + 1 ELSE signAt
        prefixed == At(first) = 48 /\ At(first + 1) \in {88, 120}
        base == CASE base0 # 0 -> base0
                  [] base0 = 0 /\ prefixed -> 16
                  [] base0 = 0 /\ ~prefixed /\ At(first) = 48 -> 8
                  [] OTHER -> 10
        begin == CASE prefixed /\ base = 16 -> first + 2
                   [] base0 = 0 /\ base = 8 -> first + 1
                   [] OTHER -> first
        end == Min({i \in begin .. Len(text) + 1 : DigitValue(At(i)) >= base})
        value == FoldLeft(LAMBDA v, c : Signed(v * base + DigitValue(c)), 0,
                          SubSeq(text, begin, end - 1))
    IN  Signed(sign * value)

-----------------------------------------------------------------------------
(* Calls *)

StringInit ==
    /\ memory \in [Address -> MemoryBytes]
    /\ saved = -1
    /\ called = [fn |-> "none"]

Fresh == called.fn = "none"
Fits(p, n) == Span(p, n) \subseteq Address
IsString(p) == Zeros(memory, p) # {}
Apart(p, n, q, k) == Span(p, n) \cap Span(q, k) = {}

\* A call of a function that writes memory.
Writes(fn, d, s, n, after) ==
    /\ memory' = after
    /\ called' = [fn |-> fn, d |-> d, s |-> s, n |-> n, before |-> memory]
    /\ UNCHANGED saved

\* A call that only returns something.
Returns(fn, p, q, n, value) ==
    /\ called' = [fn |-> fn, p |-> p, q |-> q, n |-> n, value |-> value]
    /\ UNCHANGED <<memory, saved>>

MemoryCall(d, s, n) ==
    /\ Fresh /\ Fits(d, n) /\ Fits(s, n)
    /\ \/ Writes("memmove", d, s, n, Memmove(memory, d, s, n))
       \/ /\ Apart(d, n, s, n)
          /\ Writes("memcpy", d, s, n, Memcpy(memory, d, s, n))
       \/ Writes("memset", d, 0, n, Memset(memory, d, 0, n))
       \/ Returns("memcmp", d, s, n, Memcmp(memory, d, s, n))
       \/ Returns("memcmp", d, s, n, Strncmp(memory, d, s, n))

\* Copies of a string of one character or more.
StringCopy(d, s, n) ==
    /\ Fresh /\ IsString(s) /\ memory[s] # 0
    /\ LET len == Strlen(memory, s)
       IN  \/ /\ Fits(d, len + 1) /\ Apart(d, len + 1, s, len + 1)
              /\ Writes("strcpy", d, s, len + 1, Strcpy(memory, d, s))
           \/ /\ Fits(d, n) /\ Apart(d, n, s, len + 1)
              /\ n > 0
              /\ Writes("strncpy_null", d, s, n, StrncpyNull(memory, d, s, n))
           \/ /\ IsString(d) /\ memory[d] # 0
              /\ LET old == Strlen(memory, d)
                 IN  /\ Fits(d, old + len + 1)
                     /\ Apart(d, old + len + 1, s, len + 1)
                     /\ \/ Writes("strcat", d, s, old, Strcat(memory, d, s))
                        \/ Writes("strcat", d, s, old, LibcStrcat(memory, d, s))

StringCompare(p, q) ==
    /\ Fresh /\ IsString(p) /\ IsString(q)
    /\ \/ Returns("compare", p, q, 0, Strcmp(memory, p, q))
       \/ Returns("compare", p, q, 0, LibcStrncmp(memory, p, q, MemorySize + 1))
       \/ Returns("strstr", p, q, 0, Strstr(memory, p, q))
       \/ /\ p = q
          /\ Returns("index", p, 32, StrFirstIndexOf(memory, p, 32),
                     Strcspn(memory, p, {32}))

\* Calls that do not look at memory: one memory is enough.
AnyMemory == \A a \in Address : memory[a] = 0

\* What the one prints and the other reads.
NumberCall(n) ==
    /\ Fresh /\ AnyMemory
    /\ \/ n >= 0 /\ Returns("number", n, 0, 0, Atoi(Itoa("d", n)))
       \/ Returns("number", n, 0, 0, Strtol(LibcItoa("d", n), 10))
       \/ n >= 0 /\ Returns("number", n, 0, 0, Strtol(Itoa("x", n), 16))
       \/ n >= 0 /\ Returns("number", n, 0, 0,
                            Strtol(<<32, 48, 120>> \o LibcItoa("x", n), 0))

FormatCall(format, size, newline_rn) ==
    /\ Fresh /\ AnyMemory
    /\ Returns("sprintf", format, newline_rn, size,
               SprintfVa(size, format, newline_rn))

\* strtok(p, delim), and strtok(NULL, delim) until it returns NULL.
StrtokCall(p, delim) ==
    LET start == IF Fresh THEN p ELSE saved
        r == Strtok(memory, start, delim)
        before == IF Fresh THEN Bytes(memory, p, Strlen(memory, p))
                  ELSE called.text
        old == IF Fresh THEN <<>> ELSE called.tokens
    IN  /\ \/ Fresh /\ IsString(p)
           \/ called.fn = "strtok" /\ called.more /\ p = called.p
        /\ memory' = r.memory
        /\ saved' = r.saved
        /\ called' = [fn |-> "strtok", p |-> p, text |-> before,
              more |-> r.token # -1,
              tokens |-> IF r.token = -1 THEN old
                         ELSE Append(old, Bytes(r.memory, r.token,
                                                Strlen(r.memory, r.token)))]

StringNext ==
    \/ \E d, s \in Address, n \in Lengths :
          MemoryCall(d, s, n) \/ StringCopy(d, s, n)
    \/ \E p, q \in Address : StringCompare(p, q)
    \/ \E n \in Numbers : NumberCall(n)
    \/ \E format \in Formats, size \in Lengths \ {0}, rn \in BOOLEAN :
          FormatCall(format, size, rn)
    \/ \E p \in Address : StrtokCall(p, {32})

-----------------------------------------------------------------------------
(* Properties *)

\* The string at p in memory m.
Text(m, p) == Bytes(m, p, Strlen(m, p))

\* Only these bytes differ from those before the call.
OnlyChanged(p, n) ==
    \A a \in Address \ Span(p, n) : memory[a] = called.before[a]

\* The functions do what their callers count on, wherever the arguments lie
\* in memory: moves that overlap, copies and joins of strings, truncation,
\* search, comparison (0 means equal and nothing else does, although memcmp
\* keeps eight bits of a difference), numbers printed and read back, and
\* strtok, whose tokens joined by the delimiter give the text again.
\* sprintf_va prints a prefix of the text in whole directives, and all but the
\* last of them fit the buffer.
StringsAgree ==
    LET c == called
    IN  CASE c.fn \in {"memmove", "memcpy"} ->
                /\ Bytes(memory, c.d, c.n) = Bytes(c.before, c.s, c.n)
                /\ OnlyChanged(c.d, c.n)
          [] c.fn = "memset" ->
                /\ \A a \in Span(c.d, c.n) : memory[a] = 0
                /\ OnlyChanged(c.d, c.n)
          [] c.fn = "memcmp" ->
                (c.value = 0) <=> (Bytes(memory, c.p, c.n) = Bytes(memory, c.q, c.n))
          [] c.fn = "strcpy" ->
                /\ Text(memory, c.d) = Text(c.before, c.s)
                /\ OnlyChanged(c.d, c.n)
          [] c.fn = "strncpy_null" ->
                /\ IsPrefix(Text(memory, c.d), Text(c.before, c.s))
                /\ Strlen(memory, c.d) = Min({c.n - 1, Strlen(c.before, c.s)})
                /\ OnlyChanged(c.d, c.n)
          [] c.fn = "strcat" ->
                Text(memory, c.d) = Text(c.before, c.d) \o Text(c.before, c.s)
          [] c.fn = "compare" ->
                (c.value = 0) <=> (Text(memory, c.p) = Text(memory, c.q))
          [] c.fn = "strstr" /\ memory[c.q] # 0 ->
                IF c.value = -1
                THEN \A i \in 0 .. Strlen(memory, c.p) :
                        ~IsPrefix(Text(memory, c.q), Text(memory, c.p + i))
                ELSE IsPrefix(Text(memory, c.q), Text(memory, c.value))
          [] c.fn = "index" ->
                c.value = IF c.n = -1 THEN Strlen(memory, c.p) ELSE c.n
          [] c.fn = "number" -> c.value = c.p
          [] c.fn = "strtok" ->
                /\ \A t \in Range(c.tokens) : 32 \notin Range(t)
                /\ ~c.more =>
                      LET joined == FlattenSeq([i \in 1 .. 2 * Len(c.tokens) |->
                                       IF i % 2 = 1 THEN c.tokens[(i + 1) \div 2]
                                       ELSE <<32>>])
                      IN  c.text \in {joined, SubSeq(joined, 1, Len(joined) - 1)}
          [] c.fn = "sprintf" ->
                LET k == PiecesPrinted(c.n, c.p, c.q)
                IN  /\ IsPrefix(c.value, Formatted(c.p, c.q, Len(c.p)))
                    /\ k > 1 => Len(Formatted(c.p, c.q, k - 1)) < c.n - 1
                    /\ k < Len(c.p) => Len(c.value) >= c.n - 1
          [] OTHER -> TRUE
=============================================================================
