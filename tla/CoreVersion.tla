----------------------------- MODULE CoreVersion ----------------------------
(***************************************************************************)
(* The version check x301_shim_init makes before it accepts a core:        *)
(* x301_parse_decimal_component, one iteration of its loop a step, and     *)
(* x301_core_version_is_supported.                                         *)
(***************************************************************************)
EXTENDS Integers, Sequences

CONSTANTS
  UINT_MAX,         \* of the unsigned int the components are parsed into
  SUPPORTED_MAJOR,  \* X301_SUPPORTED_CORE_MAJOR, from the headers of the build
  Characters,       \* what a version is made of, digits being numbers
  Texts,            \* the versions a core may report
  Dot, Nul

Digits == 0 .. 9

ASSUME VersionAssumption ==
  /\ UINT_MAX \in Nat /\ UINT_MAX >= 9
  /\ Dot \notin Digits /\ Nul \notin Digits \cup Characters \cup {Dot}
  /\ \A t \in Texts : t \in Seq(Characters)

VARIABLES
  hybrid,       \* whether X301_ENABLE_HYBRID_MLKEM1024 is defined
  text,         \* the core's version
  cursor,       \* the next character to look at
  component,    \* which component is being read
  accumulator,
  value,        \* the parsed components
  pc            \* where the check is, in the end its verdict

versionVars == <<hybrid, text, cursor, component, accumulator, value, pc>>

Char(i) == IF i <= Len(text) THEN text[i] ELSE Nul

-----------------------------------------------------------------------------
VersionInit ==
  /\ hybrid \in BOOLEAN
  /\ text \in Texts
  /\ cursor = 1
  /\ component = "major"
  /\ accumulator = 0
  /\ value = [major |-> 0, minor |-> 0]
  /\ pc = "component"

\* Fault: the bound forgets the digit that is about to be added.
Overflows_IgnoresDigit(digit) == accumulator > UINT_MAX \div 10

Overflows(digit) == accumulator > (UINT_MAX - digit) \div 10

\* A component starts with a digit.
FirstDigit ==
  /\ pc = "component"
  /\ pc' = IF Char(cursor) \in Digits THEN "digit" ELSE "refused"
  /\ accumulator' = 0
  /\ UNCHANGED <<hybrid, text, cursor, component, value>>

\* One iteration of the loop, with unsigned arithmetic.
Digit ==
  /\ pc = "digit" /\ Char(cursor) \in Digits
  /\ IF Overflows(Char(cursor))
     THEN pc' = "refused" /\ UNCHANGED <<accumulator, cursor>>
     ELSE /\ accumulator' = (accumulator * 10 + Char(cursor)) % (UINT_MAX + 1)
          /\ cursor' = cursor + 1
          /\ UNCHANGED pc
  /\ UNCHANGED <<hybrid, text, component, value>>

\* The loop ends at the first character that is no digit.
ComponentEnds ==
  /\ pc = "digit" /\ Char(cursor) \notin Digits
  /\ value' = [value EXCEPT ![component] = accumulator]
  /\ pc' = "separator"
  /\ UNCHANGED <<hybrid, text, cursor, component, accumulator>>

\* Fault: whatever separates the components is stepped over.
AfterMajor_AnySeparator ==
  /\ pc = "separator" /\ component = "major"
  /\ cursor' = cursor + 1
  /\ component' = "minor" /\ pc' = "component"
  /\ UNCHANGED <<hybrid, text, accumulator, value>>

\* A dot must follow the major component; the cursor moves past it.
AfterMajor ==
  /\ pc = "separator" /\ component = "major"
  /\ IF Char(cursor) = Dot
     THEN cursor' = cursor + 1 /\ component' = "minor" /\ pc' = "component"
     ELSE pc' = "refused" /\ UNCHANGED <<cursor, component>>
  /\ UNCHANGED <<hybrid, text, accumulator, value>>

\* Fault: the first minor with ML-KEM is refused as well.
Supported_AboveFive ==
  /\ ~(hybrid /\ value.major = 3 /\ value.minor <= 5)
  /\ value.major = SUPPORTED_MAJOR

Supported ==
  /\ ~(hybrid /\ value.major = 3 /\ value.minor < 5)
  /\ value.major = SUPPORTED_MAJOR

\* A dot or the end must follow the minor component; the rest is not read.
AfterMinor ==
  /\ pc = "separator" /\ component = "minor"
  /\ pc' = IF Char(cursor) \in {Dot, Nul} /\ Supported THEN "accepted" ELSE "refused"
  /\ UNCHANGED <<hybrid, text, cursor, component, accumulator, value>>

Decided == pc \in {"accepted", "refused"}
Stop == Decided /\ UNCHANGED versionVars

VersionNext == FirstDigit \/ Digit \/ ComponentEnds \/ AfterMajor \/ AfterMinor \/ Stop

VersionSpec == VersionInit /\ [][VersionNext]_versionVars
-----------------------------------------------------------------------------
TypeOK ==
  /\ hybrid \in BOOLEAN /\ text \in Texts
  /\ cursor \in Nat \ {0}
  /\ component \in {"major", "minor"}
  /\ accumulator \in 0 .. UINT_MAX
  /\ value \in [{"major", "minor"} -> 0 .. UINT_MAX]
  /\ pc \in {"component", "digit", "separator", "accepted", "refused"}

\* No character behind the terminating NUL is ever looked at, whatever the
\* string is: each parser stops at or before it and hands it on unread.
NeverReadsPastEnd == ~Decided => cursor <= Len(text) + 1

\* An addition that the overflow test lets through does not wrap around.
ExactStep ==
  pc = "digit" /\ cursor' # cursor =>
    accumulator' = accumulator * 10 + text[cursor] /\ accumulator' <= UINT_MAX
NoWrapAround == [][ExactStep]_versionVars

\* The verdict on a string, told from the string as a whole: two numbers that
\* fit an unsigned int with a dot between them, then a dot or nothing.
Numbers(t, first) ==
  LET read[i \in 0 .. Len(t)] == IF i < first THEN 0 ELSE read[i - 1] * 10 + t[i]
  IN  read
Number(t, first, last) == Numbers(t, first)[last]
IsNumber(t, first, last) ==
  first <= last /\ (\A i \in first .. last : t[i] \in Digits) /\ Number(t, first, last) <= UINT_MAX
VersionIs(t, major, minor) ==
  \E i, j \in 1 .. Len(t) + 1 :
    /\ i < j /\ t[i] = Dot /\ (j <= Len(t) => t[j] = Dot)
    /\ IsNumber(t, 1, i - 1) /\ Number(t, 1, i - 1) = major
    /\ IsNumber(t, i + 1, j - 1) /\ Number(t, i + 1, j - 1) = minor

SupportedVersion(t, withHybrid) ==
  \E minor \in 0 .. UINT_MAX :
    /\ VersionIs(t, SUPPORTED_MAJOR, minor)
    /\ withHybrid /\ SUPPORTED_MAJOR = 3 => minor >= 5

\* The core is accepted exactly when its version is of the supported major
\* and, for a hybrid build against OpenSSL 3, of minor 5 or later.
VerdictIsTheVersionRule == Decided => (pc = "accepted" <=> SupportedVersion(text, hybrid))

\* docs/X301_DRAFT.md 40-41: a module accepts the ABI major it was built
\* against and imposes no minor-version check at run time.
AcceptsEveryMinor ==
  \A minor \in 0 .. UINT_MAX :
    VersionIs(text, SUPPORTED_MAJOR, minor) => pc # "refused"
=============================================================================
