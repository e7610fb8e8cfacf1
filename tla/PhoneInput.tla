----------------------------- MODULE PhoneInput ------------------------------
(***************************************************************************)
(* The phone box of site.js (".phone-input"): an editable dial code, a     *)
(* national number, and the conversions between the two fields and a full  *)
(* number such as "+905551112233".                                         *)
(*                                                                         *)
(* A full number and a dial code are the digits after the "+", a national  *)
(* number its digits: the spaces formatNational puts in are dropped by     *)
(* everything that reads the field, and so is what is neither a digit nor  *)
(* a "+".  The empty text is <<>>, save for the dial-code field, where it  *)
(* is NoCode: the field may also hold a "+" and nothing after it.          *)
(***************************************************************************)
EXTENDS Integers, Sequences, FiniteSets

CONSTANTS
  Culture,       \* data-culture of the page: "tr", "en" or "es"
  NoCode,        \* the dial-code field is empty
  CodeTexts,     \* what may be typed or pasted as the dial code
  NationalTexts  \* and as the national number

Digit == 0..9

ASSUME PhoneAssumption ==
  /\ NoCode \notin Seq(Digit)
  /\ CodeTexts \subseteq Seq(Digit) \cup {NoCode}
  /\ NationalTexts \subseteq Seq(Digit)

VARIABLES
  cc,   \* .phone-cc
  nat   \* .phone-nat

boxVars == <<cc, nat>>

MaxNational == 10
MaxCode == 3

-----------------------------------------------------------------------------
DefaultDialCode == IF Culture = "es" THEN <<3, 4>> ELSE <<9, 0>>

\* KNOWN_CC; none is the beginning of another.
KnownCodes == {<<9, 0>>, <<3, 4>>, <<4, 9>>, <<4, 4>>, <<3, 3>>, <<3, 9>>, <<3, 1>>, <<1>>}

StartsWith(full, code) ==
  Len(code) <= Len(full) /\ \A i \in 1..Len(code) : full[i] = code[i]

From(seq, k) == SubSeq(seq, k + 1, Len(seq))
Cut(seq, k) == IF Len(seq) <= k THEN seq ELSE SubSeq(seq, 1, k)

\* A known dial code, or else as many as three digits, one digit being left at least.
CodeLength(full) ==
  IF \E code \in KnownCodes : StartsWith(full, code)
  THEN Len(CHOOSE code \in KnownCodes : StartsWith(full, code))
  ELSE IF Len(full) > MaxCode THEN MaxCode
  ELSE IF Len(full) > 1 THEN Len(full) - 1
  ELSE 0

SplitCode(full) == SubSeq(full, 1, CodeLength(full))
SplitRest(full) == From(full, CodeLength(full))

\* replace(/^0+/, "")
LeadingZeros(digits) ==
  Cardinality({i \in 1..Len(digits) : \A j \in 1..i : digits[j] = 0})

DropZeros(digits) == From(digits, LeadingZeros(digits))

\* Mutant: one digit more.
FormatLonger(digits) == Cut(DropZeros(digits), MaxNational + 1)

FormatNational(digits) == Cut(DropZeros(digits), MaxNational)

PhoneValue(code, national) ==
  IF DropZeros(national) = <<>> THEN <<>>
  ELSE (IF code = NoCode THEN DefaultDialCode ELSE code) \o DropZeros(national)

-----------------------------------------------------------------------------
\* Mutant: the dial code is not set.
CodeKept(full) == DefaultDialCode

\* What the fields hold for a full number: setPhone, and hydration of an empty box.
CodeFor(full) == IF SplitCode(full) = <<>> THEN DefaultDialCode ELSE SplitCode(full)
NationalFor(full) == FormatNational(SplitRest(full))

SetPhone(full) ==
  /\ cc' = CodeFor(full)
  /\ nat' = NationalFor(full)

\* The input listeners: "+" and three digits; ten digits.
CodeInput(text) ==
  /\ cc' = IF text = NoCode THEN NoCode ELSE Cut(text, MaxCode)
  /\ UNCHANGED nat

NationalInput(digits) ==
  /\ nat' = FormatNational(digits)
  /\ UNCHANGED cc

Type ==
  \/ \E text \in CodeTexts : CodeInput(text)
  \/ \E digits \in NationalTexts : NationalInput(digits)

\* A box as wirePhones leaves it when there is nothing to hydrate from.
EmptyBox ==
  /\ cc = DefaultDialCode
  /\ nat = <<>>

PhoneTypeOK ==
  /\ cc \in Seq(Digit) \cup {NoCode}
  /\ nat \in Seq(Digit)
  /\ Len(nat) <= MaxNational

\* What the API takes (PhoneNumber.Normalize): a digit but zero, and 7 to 14 more.
ValidPhone(full) == Len(full) \in 8..15 /\ full[1] # 0

-----------------------------------------------------------------------------
\* A number of a country the script knows: its dial code, and at most ten digits that do
\* not begin with a zero.
National(digits) == Len(digits) \in 1..MaxNational /\ digits[1] # 0

KnownNumber(full) ==
  \E code \in KnownCodes : StartsWith(full, code) /\ National(From(full, Len(code)))
=============================================================================
