--------------------------------- MODULE Dbc ---------------------------------
(***************************************************************************)
(* The CAN database of an interface (source/can/dbc_parser.c): a text is   *)
(* read line by line into a table of messages and signals, and frames are  *)
(* decoded with it.  A byte has ByteBits bits here and a uint64_t WordBits,*)
(* so that all frames and all signals can be tried.  The data of a frame is*)
(* a sequence of bytes.  Left out: names, scaling by factor and offset, and*)
(* the characters of a line.  Loading and decoding exclude each other by   *)
(* dbc_mutex, so that a frame finds the table between two lines only when  *)
(* the text ends there.                                                    *)
(***************************************************************************)
EXTENDS Integers, Sequences

CONSTANTS
  ByteBits,     \* 8
  WordBits,     \* 64
  MaxBytes,     \* bound: bytes of a frame
  Numbers,      \* bound: numbers of messages
  Signals,      \* bound: signals, each with its start, length, order and sign
  MaxMessages,  \* DBC_MAX_MESSAGES
  MaxSignals,   \* DBC_MAX_SIGNALS
  MaxLines      \* bound: lines of a text

ASSUME DbcAssumption ==
  /\ {ByteBits, WordBits, MaxBytes} \subseteq Nat \ {0}
  /\ {MaxMessages, MaxSignals, MaxLines} \subseteq Nat
  /\ Signals \subseteq [start : Nat, length : Nat, order : {"intel", "motorola"}, signed : BOOLEAN]

Data == UNION {[1 .. n -> 0 .. 2^ByteBits - 1] : n \in 1 .. MaxBytes}

\* An identifier of a frame or a message: its number, standard or extended.
CanIds == [number : Numbers, extended : BOOLEAN]

VARIABLES
  dbc,   \* dbc_t: its messages, each with its first signal and their number; its signals
  text   \* what was read: for each BO_ line its identifier and the signals below it

dbcVars == <<dbc, text>>

DbcInit == dbc = [messages |-> <<>>, signals |-> <<>>] /\ text = <<>>

-----------------------------------------------------------------------------
(* Reading *)

LinesRead == Len(text) + Len(dbc.signals)

\* A BO_ line becomes a message with no signals yet ...
ParseMessage(id) ==
  /\ LinesRead < MaxLines /\ Len(dbc.messages) < MaxMessages
  /\ dbc' = [dbc EXCEPT !.messages =
               Append(@, [id |-> id, start |-> Len(dbc.signals) + 1, count |-> 0])]
  /\ text' = Append(text, [id |-> id, signals |-> <<>>, refused |-> FALSE])

\* ... unless it is not in order, or the table is full.
RefuseMessage(id) ==
  /\ LinesRead < MaxLines
  /\ text' = Append(text, [id |-> id, signals |-> <<>>, refused |-> TRUE])
  /\ UNCHANGED dbc

\* A signal is one more of the last message in the table.
ParseSignal(s) ==
  /\ LinesRead < MaxLines /\ Len(dbc.signals) < MaxSignals
  /\ dbc.messages # <<>>
  /\ dbc' = [dbc EXCEPT !.messages[Len(dbc.messages)].count = @ + 1,
                        !.signals = Append(@, s)]
  /\ text' = [text EXCEPT ![Len(text)].signals = Append(@, s)]

DbcNext ==
  \/ \E id \in CanIds : ParseMessage(id) \/ RefuseMessage(id)
  \/ \E s \in Signals : ParseSignal(s)

DbcSpec == DbcInit /\ [][DbcNext]_dbcVars

-----------------------------------------------------------------------------
(* Decoding *)

\* Bit b of byte k, and position pos counted from either end of the bytes.
Bit(d, k, b) == (d[k + 1] \div 2^b) % 2
IntelBit(d, pos) == Bit(d, pos \div ByteBits, pos % ByteBits)
MotorolaBit(d, pos) == Bit(d, pos \div ByteBits, ByteBits - 1 - (pos % ByteBits))

ExtractIntel(d, start, len) ==
  LET v[i \in 0 .. len] ==
        IF i = 0 THEN 0 ELSE v[i - 1] + IntelBit(d, start + i - 1) * 2^(i - 1)
  IN v[len]

ExtractMotorola(d, start, len) ==
  LET v[i \in 0 .. len] ==
        IF i = 0 THEN 0 ELSE v[i - 1] + MotorolaBit(d, start - (i - 1)) * 2^(len - i)
  IN v[len]

\* A signal is decoded only when its length is good and its bytes are in the frame.
Fits(s, d) ==
  /\ s.length \in 1 .. WordBits
  /\ s.order = "motorola" => s.start - s.length + 1 >= 0
  /\ (IF s.order = "motorola" THEN s.start ELSE s.start + s.length - 1) \div ByteBits < Len(d)


\* The sign is copied into the bits of the word above the signal.
Extended(v, s) ==
  IF s.signed /\ s.length < WordBits /\ v >= 2^(s.length - 1)
  THEN v + 2^WordBits - 2^s.length ELSE v

\* The word is read as a signed number, whatever the signal is.
AsSigned(raw) == IF raw >= 2^(WordBits - 1) THEN raw - 2^WordBits ELSE raw

Decoded(s, d) ==
  AsSigned(Extended(
    IF s.order = "motorola" THEN ExtractMotorola(d, s.start, s.length)
                            ELSE ExtractIntel(d, s.start, s.length), s))

\* The first message with the number of the frame.
Found(id) ==
  {k \in DOMAIN dbc.messages :
     /\ dbc.messages[k].id.number = id.number
     /\ \A j \in 1 .. k - 1 : dbc.messages[j].id.number # id.number}

\* The signals of a message, by their places in the table.
SignalsOf(msg) == {dbc.signals[k] : k \in msg.start .. msg.start + msg.count - 1}

\* What a frame is decoded to: its signals that fit, with their values.
DecodeFrame(id, d) ==
  {<<s, Decoded(s, d)>> :
     s \in {t \in UNION {SignalsOf(dbc.messages[k]) : k \in Found(id)} : Fits(t, d)}}

-----------------------------------------------------------------------------
(* What the text means: the signals below the BO_ line of a frame's          *)
(* identifier; each a field of the bits of the frame taken as one number,    *)
(* little-endian for Intel, which counts bits from the lowest, big-endian    *)
(* for Motorola, which counts them from the highest and begins there.        *)

LittleEndian(d) ==
  LET v[k \in 0 .. Len(d)] == IF k = 0 THEN 0 ELSE v[k - 1] + d[k] * 2^(ByteBits * (k - 1))
  IN v[Len(d)]

BigEndian(d) ==
  LET v[k \in 0 .. Len(d)] == IF k = 0 THEN 0 ELSE v[k - 1] * 2^ByteBits + d[k]
  IN v[Len(d)]

InFrame(s, d) == s.length \in 1 .. WordBits /\ s.start + s.length <= Len(d) * ByteBits

FieldOf(s, d) ==
  LET lowest == IF s.order = "intel" THEN s.start
                ELSE Len(d) * ByteBits - s.start - s.length
      number == IF s.order = "intel" THEN LittleEndian(d) ELSE BigEndian(d)
  IN (number \div 2^lowest) % 2^s.length

\* The program has no unsigned number of a whole word.
Negative(s, v) == (s.signed \/ s.length = WordBits) /\ v >= 2^(s.length - 1)

Meaning(s, d) ==
  LET v == FieldOf(s, d) IN IF Negative(s, v) THEN v - 2^s.length ELSE v

InSeq(q) == {q[k] : k \in DOMAIN q}

\* The lines that describe a frame: the first with its identifier.
Describing(id) ==
  {k \in DOMAIN text : text[k].id = id /\ \A j \in 1 .. k - 1 : text[j].id # id}

Meant(id, d) ==
  {<<s, Meaning(s, d)>> :
     s \in {t \in UNION {InSeq(text[k].signals) : k \in Describing(id)} : InFrame(t, d)}}

Readable(pairs) == {p \in pairs : p[1].order = "intel" \/ p[1].length = 1}

\* The other identifier of the same number.
Twin(id) == [id EXCEPT !.extended = ~@]

-----------------------------------------------------------------------------
(* Properties *)

=============================================================================
