------------------------------- MODULE Stdio -------------------------------
(***************************************************************************)
(* Streams of the C library (src/lib/stdio: putget.c, fseek.c, setbuf.c)   *)
(* over a regular file, against what the C standard says of them: a text   *)
(* and a position.                                                         *)
(*                                                                         *)
(* One stream, opened for reading or for writing, whose buffering is       *)
(* chosen once, before it is used.  read() may give less than it was asked *)
(* for, write() may take less, once a call, and both may fail; BUFSIZ is   *)
(* any number.  fread, fwrite, fgets and puts are made of the calls        *)
(* modelled here.  Left out: appending, updating, terminals (whose reads   *)
(* flush every stream) and streams on strings.                             *)
(***************************************************************************)
EXTENDS Integers, Sequences

CONSTANTS
  Bufferings,  \* what setvbuf may choose: "full", "line", "none"
  BUFSIZ,
  Char, NL,    \* bytes, and the one that is '\n'
  Texts,       \* contents the file may have
  MaxText,     \* their length, and that of the file
  MaxCalls,    \* calls made
  Fails        \* whether read() and write() may fail

EOF == 0

\* What the constants of an instance satisfy.
StdioAssumption ==
  /\ Bufferings \subseteq {"full", "line", "none"}
  /\ BUFSIZ \in Nat \ {0} /\ MaxText \in Nat /\ MaxCalls \in Nat
  /\ Char \subseteq Nat \ {EOF}
  /\ \A d \in Texts : d \in Seq(Char) /\ Len(d) <= MaxText
  /\ Fails \in BOOLEAN

VARIABLES
  content, offset,                 \* the file, and the offset of the descriptor
  shortened,                             \* whether a write() of several bytes took less
  fmode,                           \* f->mode: "r" or "w"
  buf_mode, fbuf, buf_pos, buf_insize, buf_write,
  ungotc, ferr, feof,
  text, at,                        \* content and position by the standard
  result,                          \* the last result: what it was and what it should have been
  stdio_calls

onDisk == <<content, offset, shortened>>
stdioVars == <<onDisk, fmode, buf_mode, fbuf, buf_pos, buf_insize, buf_write,
               ungotc, ferr, feof, text, at, result, stdio_calls>>

NoResult == [is |-> EOF, due |-> EOF]

StdioTypes ==
  /\ content \in Seq(Char) /\ Len(content) <= MaxText /\ offset \in 0..MaxText /\ shortened \in BOOLEAN
  /\ fmode \in {"r", "w"} /\ buf_mode \in Bufferings
  /\ fbuf \in [1..BUFSIZ -> Char \cup {0}]
  /\ buf_pos \in 0..BUFSIZ /\ buf_insize \in 0..BUFSIZ /\ buf_write \in BOOLEAN
  /\ ungotc \in Char \cup {EOF} /\ ferr \in BOOLEAN /\ feof \in BOOLEAN
  /\ text \in Seq(Char) /\ Len(text) <= MaxText /\ at \in 0..Len(text)
  /\ result \in [is : Char \cup {EOF}, due : Char \cup {EOF}]

\* __libc_file_get, fdopen, setvbuf
StdioInit ==
  /\ content \in Texts /\ offset = 0 /\ shortened = FALSE
  /\ fmode \in {"r", "w"} /\ buf_mode \in Bufferings
  /\ fbuf = [i \in 1..BUFSIZ |-> 0] /\ buf_pos = 0 /\ buf_insize = 0 /\ buf_write = FALSE
  /\ ungotc = EOF /\ ferr = FALSE /\ feof = FALSE
  /\ text = content /\ at = 0
  /\ result = NoResult /\ stdio_calls = 0

----------------------------------------------------------------------------
(* The file *)

\* s written over d from offset p on.
Over(d, p, s) ==
  [i \in 1..(IF p + Len(s) > Len(d) THEN p + Len(s) ELSE Len(d)) |->
     IF i > p /\ i <= p + Len(s) THEN s[i - p] ELSE d[i]]

\* A file, whether a call on it failed and whether one was short.
FileOf(d, p) == [data |-> d, pos |-> p, err |-> FALSE, short |-> FALSE]
Now == FileOf(content, offset)

\* write(fd, s, n): all of s, or nothing and an error.
WriteAll(f, s) == [f EXCEPT !.data = Over(@, f.pos, s), !.pos = @ + Len(s)]
Failed(f) == [f EXCEPT !.err = TRUE]
Transfers(f, s) == {WriteAll(f, s)} \cup (IF Fails THEN {Failed(f)} ELSE {})

\* Mutant: the first byte of the buffer is left out.
Flushes_Skip(f, s) == Transfers(f, Tail(s))

\* The loop of fflush, with one write() or, where the first takes only k bytes, two, each given
\* the beginning of the buffer.
Flushes(f, s) ==
  Transfers(f, s)
  \cup UNION {{[g EXCEPT !.short = TRUE] : g \in Transfers(WriteAll(f, SubSeq(s, 1, k)), SubSeq(s, 1, Len(s) - k))} :
              k \in 1..(Len(s) - 1)}

\* fflush: the files it may leave; nothing is written of an empty or a read buffer.
Pending == IF buf_write THEN SubSeq(fbuf, 1, buf_pos) ELSE <<>>
Flushed == IF Pending = <<>> THEN {Now} ELSE Flushes(Now, Pending)

Take(f) == content' = f.data /\ offset' = f.pos /\ shortened' = (shortened \/ f.short)

----------------------------------------------------------------------------
(* Calls *)

Call == stdio_calls < MaxCalls /\ stdio_calls' = stdio_calls + 1

\* What the standard says of writing a byte.
PutText(c) == text' = Over(text, at, <<c>>) /\ at' = at + 1 /\ result' = NoResult

\* Calls that the stream was opened for.
MayWrite == fmode = "w" /\ at < MaxText
MayRead == fmode = "r"

\* fputc or fflush of a stream opened for reading, or fgetc of one opened for writing
WrongWay ==
  /\ Call
  /\ ferr' = TRUE /\ result' = NoResult
  /\ UNCHANGED <<onDisk, fmode, buf_mode, fbuf, buf_pos, buf_insize, buf_write, ungotc, feof, text, at>>

\* __libc_putc_nbf
PutNbf(c) ==
  /\ buf_mode = "none" /\ Call /\ MayWrite
  /\ \E f \in Transfers(Now, <<c>>) : Take(f) /\ ferr' = (ferr \/ f.err)
  /\ PutText(c)
  /\ UNCHANGED <<fmode, buf_mode, fbuf, buf_pos, buf_insize, buf_write, ungotc, feof>>

\* __libc_putc_fbf: the byte into the buffer, after a flush of a full one and before one at
\* the end of a line.  When the first flush fails the byte is not taken.
PutFbf(c) ==
  /\ buf_mode # "none" /\ Call /\ MayWrite
  /\ LET p == IF buf_write THEN buf_pos ELSE 0
         full == p = BUFSIZ
         i == IF full THEN 1 ELSE p + 1
         line == buf_mode = "line" /\ c = NL
         b == [fbuf EXCEPT ![i] = c]
     IN  \E f \in IF full THEN Flushes(Now, fbuf) ELSE {Now} :
           IF f.err
           THEN /\ Take(f) /\ ferr' = TRUE /\ buf_pos' = 0 /\ UNCHANGED fbuf
           ELSE \E g \in IF line THEN Flushes(f, SubSeq(b, 1, i)) ELSE {f} :
                  /\ Take(g) /\ ferr' = (ferr \/ g.err)
                  /\ fbuf' = b /\ buf_pos' = IF line THEN 0 ELSE i
  /\ buf_write' = TRUE /\ buf_insize' = IF buf_write THEN buf_insize ELSE 0
  /\ PutText(c)
  /\ UNCHANGED <<fmode, buf_mode, ungotc, feof>>

\* fflush(f)
Fflush ==
  /\ Call /\ fmode = "w"
  /\ \E f \in Flushed : Take(f) /\ ferr' = (ferr \/ f.err)
  /\ buf_pos' = IF Pending = <<>> THEN buf_pos ELSE 0
  /\ result' = NoResult
  /\ UNCHANGED <<fmode, buf_mode, fbuf, buf_insize, buf_write, ungotc, feof, text, at>>

\* What the standard says of reading: the byte at the position.
Due == IF at < Len(text) THEN text[at + 1] ELSE EOF
Got(c) ==
  /\ result' = [is |-> c, due |-> Due]
  /\ at' = IF c = EOF THEN at ELSE at + 1
  /\ UNCHANGED text

NoByte == result' = NoResult /\ UNCHANGED <<text, at>>

\* fgetc of a byte put back
GetUngot ==
  /\ Call /\ MayRead /\ ungotc # EOF
  /\ Got(ungotc)
  /\ ungotc' = EOF
  /\ UNCHANGED <<onDisk, fmode, buf_mode, fbuf, buf_pos, buf_insize, buf_write, ferr, feof>>

\* __libc_getc_nbf: no end-of-file indicator
GetNbf ==
  /\ buf_mode = "none" /\ Call /\ MayRead /\ ungotc = EOF
  /\ \/ /\ offset' = IF offset < Len(content) THEN offset + 1 ELSE offset
        /\ Got(IF offset < Len(content) THEN content[offset + 1] ELSE EOF)
        /\ UNCHANGED ferr
     \/ Fails /\ ferr' = TRUE /\ NoByte /\ UNCHANGED offset
  /\ UNCHANGED <<content, shortened, fmode, buf_mode, fbuf, buf_pos, buf_insize, buf_write, ungotc, feof>>

\* All that was read ahead has been given out.
Empty(p) == p = buf_insize

\* __libc_getc_fbf: a written buffer is flushed, and stays marked as written.
GetFbf ==
  /\ buf_mode # "none" /\ Call /\ MayRead /\ ungotc = EOF
  /\ \E f \in Flushed :
       LET p == IF Pending = <<>> THEN buf_pos ELSE 0
           left == Len(f.data) - f.pos
       IN  IF ~Empty(p)
           THEN /\ Take(f) /\ ferr' = (ferr \/ f.err)
                /\ buf_pos' = p + 1 /\ Got(fbuf[p + 1])
                /\ UNCHANGED <<fbuf, buf_insize, feof>>
           ELSE \/ \E n \in 1..BUFSIZ :
                     /\ n <= left
                     /\ Take([f EXCEPT !.pos = @ + n])
                     /\ fbuf' = [i \in 1..BUFSIZ |-> IF i <= n THEN f.data[f.pos + i] ELSE fbuf[i]]
                     /\ buf_insize' = n /\ buf_pos' = 1
                     /\ Got(f.data[f.pos + 1])
                     /\ ferr' = (ferr \/ f.err) /\ UNCHANGED feof
                \/ /\ left <= 0
                   /\ Take(f) /\ buf_pos' = 0 /\ buf_insize' = 0 /\ feof' = TRUE
                   /\ Got(EOF)
                   /\ ferr' = (ferr \/ f.err) /\ UNCHANGED fbuf
                \/ /\ Fails
                   /\ Take(f) /\ buf_pos' = 0 /\ buf_insize' = 0 /\ ferr' = TRUE
                   /\ NoByte
                   /\ UNCHANGED <<fbuf, feof>>
  /\ UNCHANGED <<fmode, buf_mode, buf_write, ungotc>>

\* ungetc of the byte just read
Ungetc ==
  /\ Call /\ result.is # EOF /\ ungotc = EOF
  /\ ungotc' = result.is /\ at' = at - 1 /\ result' = NoResult
  /\ UNCHANGED <<onDisk, fmode, buf_mode, fbuf, buf_pos, buf_insize, buf_write, ferr, feof, text>>

\* ftell: bytes read ahead are taken off the descriptor's offset, bytes to be written are not added.
ftell(f) == f.pos + (IF buf_write THEN 0 ELSE buf_pos - buf_insize) - (IF ungotc # EOF THEN 1 ELSE 0)

Target(w, off, here) == CASE w = "SET" -> off [] w = "CUR" -> here + off [] w = "END" -> Len(text) + off

\* fseek; not called with a byte put back, which it keeps, nor from the current position with
\* bytes to be written, which ftell does not count.
Fseek(w, off) ==
  /\ Call /\ ungotc = EOF /\ (w = "CUR" => Pending = <<>>)
  /\ Target(w, off, at) \in 0..Len(text)
  /\ \E f \in Flushed :
       LET to == IF w = "END" THEN Len(f.data) + off ELSE Target(w, off, ftell(Now))
       IN  /\ Take([f EXCEPT !.pos = IF to < 0 THEN @ ELSE to])
           /\ ferr' = (ferr \/ f.err \/ to < 0)
  /\ buf_pos' = 0 /\ buf_insize' = 0
  /\ at' = Target(w, off, at)
  /\ result' = NoResult
  /\ UNCHANGED <<fmode, buf_mode, fbuf, buf_write, ungotc, feof, text>>

\* A program stops using a stream that reports an error.
StdioNext ==
  /\ ~ferr
  /\ \/ \E c \in Char : PutNbf(c) \/ PutFbf(c)
     \/ WrongWay \/ Fflush
     \/ GetUngot \/ GetNbf \/ GetFbf \/ Ungetc
     \/ \E w \in {"SET", "CUR", "END"}, off \in -1..1 : Fseek(w, off)

StdioSpec == StdioInit /\ [][StdioNext]_stdioVars

----------------------------------------------------------------------------
(* Properties *)

\* Unless the stream's error indicator is set or a write() was short, the file and the bytes
\* still in the buffer are what the program has written (fputc, fflush, fseek).
PutRight == ferr \/ shortened \/ Over(content, offset, Pending) = text

\* fgetc gives the byte at the stream's position, and EOF only at the end of the file.
GetRight == result.is = result.due

\* ftell tells the stream's position, as long as no written byte is in the buffer.
TellRight == ferr \/ Pending # <<>> \/ ftell(Now) = at

\* The three together: a stream is what the standard has it, whatever is called.
StdioRight == StdioTypes /\ GetRight /\ TellRight /\ PutRight
=============================================================================
