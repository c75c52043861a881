---------------------------- MODULE ConfigValues ----------------------------
(***************************************************************************)
(* The values of the configuration (source/core/config.c): what a request  *)
(* sets in the running program (apply_net and apply_ai in                  *)
(* source/http/http_api_config.c), what is saved of it as text, and what   *)
(* the next process loads.  One key stands for each conversion: tcp_port,  *)
(* which a request may set to any number; ai_conf (and ai_nms), in         *)
(* hundredths, kept in a float; and ai_threads, a multiple of three.  That *)
(* the file is whole is in ConfigStore.                                    *)
(***************************************************************************)
EXTENDS Integers

CONSTANTS
  Asked,      \* bound: numbers that a request or the file's author gives
  MaxPosts    \* bound: requests that set a value

ASSUME ValuesAssumption == Asked \subseteq Int /\ MaxPosts \in Nat

VARIABLES
  conf,    \* the running configuration; its threshold in hundredths
  file,    \* the values in config.txt
  posts    \* requests that set a value, so far

valuesVars == <<conf, file, posts>>

-----------------------------------------------------------------------------
(* parse_int_clamped of a number, and the arithmetic of a float, which is a  *)
(* mantissa of 24 bits over a power of two.                                  *)

Clamped(v, lo, hi) == IF v < lo THEN lo ELSE IF v > hi THEN hi ELSE v

\* a / b rounded to the nearest integer, to the even one of two.
Rounded(a, b) ==
  LET q == a \div b
      r == a % b
  IN IF r > b - r \/ (r = b - r /\ q % 2 = 1) THEN q + 1 ELSE q

\* n / 100.0f is Mantissa(n) / 2^Scale(n).
Scale(n) == 23 + CHOOSE j \in 0 .. 7 : n * 2^j >= 100 /\ (j > 0 => n * 2^(j - 1) < 100)

\* Mutant: the float is cut instead of rounded.
CutMantissa(n) == (n * 2^Scale(n)) \div 100

Mantissa(n) == Rounded(n * 2^Scale(n), 100)

\* (int)(x * 100) of that x: the product has 24 bits of mantissa again.
Excess(p) ==
  CHOOSE k \in 0 .. 7 : p \div 2^k < 2^24 /\ (k > 0 => p \div 2^(k - 1) >= 2^24)

SavedHundredth(n) ==
  LET p == Mantissa(n) * 100
      k == Excess(p)
  IN (Rounded(p, 2^k) * 2^k) \div 2^Scale(n)

Threads(v) == LET t == Clamped(v, 3, 15) IN t - (t % 3)

\* config_save writes numbers, config_load reads them.
Saved(c) == [port |-> c.port, conf |-> SavedHundredth(c.conf), threads |-> c.threads]

Loaded(f) ==
  [port |-> Clamped(f.port, 1, 65535), conf |-> Clamped(f.conf, 1, 100),
   threads |-> Threads(f.threads)]

-----------------------------------------------------------------------------
Default == [port |-> 6666, conf |-> 25, threads |-> 3]

\* Any number may stand in the file for a key.
ValuesInit ==
  /\ \E key \in DOMAIN Default, v \in Asked : file = [Default EXCEPT ![key] = v]
  /\ conf = Loaded(file)
  /\ posts = 0

Counted == posts < MaxPosts /\ posts' = posts + 1

\* A port that is not positive is no request to change it.
PostPort(v) ==
  /\ Counted
  /\ conf' = IF v > 0 THEN [conf EXCEPT !.port = v] ELSE conf
  /\ file' = Saved(conf')

PostThreshold(v) ==
  /\ Counted
  /\ conf' = [conf EXCEPT !.conf = Clamped(v, 1, 100)]
  /\ file' = Saved(conf')

PostThreads(v) ==
  /\ Counted
  /\ conf' = [conf EXCEPT !.threads = Threads(v)]
  /\ file' = Saved(conf')

\* A request about something else saves the whole configuration, too.
PostOther ==
  /\ file' = Saved(conf)
  /\ UNCHANGED <<conf, posts>>

NextProcess ==
  /\ conf' = Loaded(file)
  /\ UNCHANGED <<file, posts>>

ValuesNext ==
  \/ \E v \in Asked : PostPort(v) \/ PostThreshold(v) \/ PostThreads(v)
  \/ PostOther \/ NextProcess

ValuesSpec == ValuesInit /\ [][ValuesNext]_valuesVars

-----------------------------------------------------------------------------
(* Properties *)

\* What a request has set and what a process has loaded comes back: saving the
\* configuration and starting again, any number of times, changes no value.  There
\* are two exceptions: the thresholds 53 and 59 are saved as 52 and 58, and a port
\* beyond 65535 is cut to the range when it is loaded (config_save, config_load).
AcceptedKept ==
  [][posts' = posts =>
       /\ conf.conf \notin {53, 59} => conf'.conf = conf.conf
       /\ conf.port <= 65535 => conf'.port = conf.port
       /\ conf'.threads = conf.threads]_valuesVars
=============================================================================
