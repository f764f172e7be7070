---------------------------- MODULE JsonlTransport ----------------------------
(***************************************************************************)
(* The transport over stdin and stdout: bytes arrive in chunks of any size *)
(* and are decoded and cut into lines, each line is a message.             *)
(*                                                                         *)
(* A character is one byte, or several: byte b of character c is <<c, b>>. *)
(* Which lines are JSON is a set.                                          *)
(***************************************************************************)
EXTENDS Integers, SequencesExt

CONSTANTS
  LF, CR,        \* the characters of line ends
  Width,         \* characters to bytes in UTF-8
  Json,          \* the lines that JSON.parse reads, but for blanks around them
  Replacement    \* U+FFFD, which stands for a character that is not complete

ASSUME CharactersAssumption == {LF, Replacement} \subseteq DOMAIN Width /\ LF # Replacement
ASSUME BlankAssumption == <<>> \notin Json

VARIABLES
  stdin,     \* the bytes to come
  stdinAt,   \* "open" until the end was told, then "ended"
  decoder,   \* the first bytes of a character that the others have not followed yet
  buffer,    \* the characters read since the last line end
  handled,   \* the lines given to the handler, in order
  console,   \* where console.log goes: "stdout" or "stderr"
  transport  \* "none", "open" (constructed), "reading" (after onMessage), "closed"

transportVars == <<stdin, stdinAt, decoder, buffer, handled, console, transport>>

\* Byte b of a character comes right after the bytes before it, byte 1 after a complete character.
IsUtf8(bytes) ==
  /\ bytes \in Seq((DOMAIN Width) \X Nat)
  /\ \A n \in DOMAIN bytes :
       LET c == bytes[n][1]
           b == bytes[n][2]
       IN  /\ b \in 1 .. Width[c] /\ b <= n
           /\ \A k \in 1 .. b : bytes[n - b + k] = <<c, k>>
           /\ n > b => bytes[n - b][2] = Width[bytes[n - b][1]]

\* Stdin may end in the middle of a line, or of a character.
InitTransport(bytes) ==
  /\ stdin = bytes
  /\ stdinAt = "open"
  /\ decoder = <<>> /\ buffer = <<>> /\ handled = <<>>
  /\ console = "stdout"
  /\ transport = "none"

\* Stray output goes to stderr while the transport is there.
OpenTransport ==
  /\ transport = "none"
  /\ transport' = "open" /\ console' = "stderr"
  /\ UNCHANGED <<stdin, stdinAt, decoder, buffer, handled>>

OnMessage ==
  /\ transport = "open" /\ transport' = "reading"
  /\ UNCHANGED <<stdin, stdinAt, decoder, buffer, handled, console>>

\* The places of the bytes that complete a character.
Lasts(bytes) == {n \in DOMAIN bytes : bytes[n][2] = Width[bytes[n][1]] /\ n >= bytes[n][2]}

\* The characters that a sequence of bytes completes.
Decoded(bytes) ==
  LET upTo[n \in 0 .. Len(bytes)] ==
        IF n = 0 THEN <<>>
        ELSE IF n \in Lasts(bytes) THEN Append(upTo[n - 1], bytes[n][1])
        ELSE upTo[n - 1]
  IN  upTo[Len(bytes)]

\* Mutant: each chunk is decoded by itself.
UndecodedMutant(bytes) == <<>>

\* The bytes that StringDecoder keeps for the next chunk.
Undecoded(bytes) == SubSeq(bytes, Max(Lasts(bytes) \cup {0}) + 1, Len(bytes))

\* A line without the CR at its end.
Emitted(line) == IF line # <<>> /\ Last(line) = CR THEN Front(line) ELSE line

\* Blank and malformed lines are dropped.
Handle(given, line) == IF Emitted(line) \in Json THEN Append(given, Emitted(line)) ELSE given

\* The handler is given each line that ends in a text, and what follows the last of them is kept.
Feed(given, kept, text) ==
  LET upTo[n \in 0 .. Len(text)] ==
        IF n = 0 THEN [handled |-> given, rest |-> kept]
        ELSE IF text[n] = LF
        THEN [handled |-> Handle(upTo[n - 1].handled, upTo[n - 1].rest), rest |-> <<>>]
        ELSE [handled |-> upTo[n - 1].handled, rest |-> Append(upTo[n - 1].rest, text[n])]
  IN  upTo[Len(text)]

\* A chunk of n bytes.
OnData(n) ==
  /\ transport = "reading" /\ n \in 1 .. Len(stdin)
  /\ LET bytes == decoder \o SubSeq(stdin, 1, n)
         fed == Feed(handled, buffer, Decoded(bytes))
     IN  /\ decoder' = Undecoded(bytes)
         /\ buffer' = fed.rest
         /\ handled' = fed.handled
  /\ stdin' = SubSeq(stdin, n + 1, Len(stdin))
  /\ UNCHANGED <<stdinAt, console, transport>>

\* The reader's listener comes first: a last line without a line end is handled before the handler
\* is told of the end.
OnEnd ==
  /\ transport = "reading" /\ stdinAt = "open" /\ stdin = <<>>
  /\ LET rest == buffer \o IF decoder = <<>> THEN <<>> ELSE <<Replacement>>
     IN  handled' = IF rest = <<>> THEN handled ELSE Handle(handled, rest)
  /\ decoder' = <<>> /\ buffer' = <<>>
  /\ stdinAt' = "ended"
  /\ UNCHANGED <<stdin, console, transport>>

Close ==
  /\ transport' = "closed" /\ console' = "stdout"
  /\ UNCHANGED <<stdin, stdinAt, decoder, buffer, handled>>
=============================================================================
