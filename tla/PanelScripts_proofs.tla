------------------------- MODULE PanelScripts_proofs --------------------------
(***************************************************************************)
(* The smaller scripts of the panel: the phone box with the form around    *)
(* it, the theme and the geometry of the chart.                            *)
(***************************************************************************)
EXTENDS SignUpForm, ThemeToggle, BarChart, FiniteSetTheorems, TLAPS

-----------------------------------------------------------------------------
(* The conversions of the phone box.                                        *)

\* A dial code the script knows is "1" or two digits of which the first is not a 1.
LEMMA KnownCodesAre ==
  ASSUME NEW k \in KnownCodes
  PROVE  /\ k \in Seq(Digit) /\ Len(k) \in 1..2 /\ k # <<>>
         /\ k = <<1>> \/ (Len(k) = 2 /\ k[1] # 1 /\ k = <<k[1], k[2]>>)
<1>1. ASSUME NEW a \in Digit, NEW b \in Digit, a # 1, k = <<a, b>>
      PROVE  /\ k \in Seq(Digit) /\ Len(k) = 2 /\ k # <<>>
             /\ k[1] # 1 /\ k = <<k[1], k[2]>>
  BY <1>1
<1>2. CASE k = <<1>>
  BY <1>2 DEF Digit
<1>3. CASE k # <<1>>
  <2>1. PICK a \in 3..9, b \in 0..9 : k = <<a, b>>
    BY <1>3 DEF KnownCodes
  <2>2. a \in Digit /\ b \in Digit /\ a # 1
    BY DEF Digit
  <2> QED
    BY <1>1, <2>1, <2>2
<1> QED
  BY <1>2, <1>3

\* None is the beginning of another.
LEMMA CodesArePrefixFree ==
  ASSUME NEW number \in Seq(Digit), NEW c \in KnownCodes, NEW d \in KnownCodes,
         StartsWith(number, c), StartsWith(number, d)
  PROVE  c = d
<1>1. Len(c) \in 1..2 /\ Len(d) \in 1..2
  BY KnownCodesAre
<1>2. number[1] = c[1] /\ number[1] = d[1]
  BY <1>1 DEF StartsWith
<1>3. (Len(c) = 2 => number[2] = c[2]) /\ (Len(d) = 2 => number[2] = d[2])
  BY <1>1 DEF StartsWith
<1>4. CASE c = <<1>>
  <2>1. d[1] = 1
    BY <1>2, <1>4
  <2> QED
    BY <1>4, <2>1, KnownCodesAre
<1>5. CASE d = <<1>>
  <2>1. c[1] = 1
    BY <1>2, <1>5
  <2> QED
    BY <1>5, <2>1, KnownCodesAre
<1>6. CASE c # <<1>> /\ d # <<1>>
  <2>1. Len(c) = 2 /\ Len(d) = 2 /\ c = <<c[1], c[2]>> /\ d = <<d[1], d[2]>>
    BY <1>6, KnownCodesAre
  <2>2. c[1] = d[1] /\ c[2] = d[2]
    BY <1>2, <1>3, <2>1
  <2> QED
    BY <2>1, <2>2, Zenon
<1> QED
  BY <1>4, <1>5, <1>6

\* Sequences of digits, cut at either end.
LEMMA CutType ==
  ASSUME NEW seq \in Seq(Digit), NEW k \in Nat
  PROVE  /\ Cut(seq, k) \in Seq(Digit) /\ Len(Cut(seq, k)) <= k
         /\ k <= Len(seq) => From(seq, k) \in Seq(Digit) /\ SubSeq(seq, 1, k) \in Seq(Digit)
<1> DEFINE n == Len(seq)
<1>1. n \in Nat /\ Cut(seq, k) = IF n <= k THEN seq ELSE SubSeq(seq, 1, k)
  BY DEF Cut
<1>2. From(seq, k) = SubSeq(seq, k + 1, n)
  BY DEF From
<1>3. \A a \in Nat \ {0}, b \in Nat : b <= n =>
        SubSeq(seq, a, b) \in Seq(Digit) /\ (a <= b + 1 => Len(SubSeq(seq, a, b)) = b - a + 1)
  OBVIOUS
<1>4. seq \in Seq(Digit) /\ Len(seq) = n
  OBVIOUS
<1> HIDE DEF n
<1>5. ASSUME n <= k PROVE Cut(seq, k) \in Seq(Digit) /\ Len(Cut(seq, k)) <= k
  <2>1. Cut(seq, k) = seq
    BY <1>1, <1>5
  <2> QED
    BY <1>4, <1>5, <2>1, Zenon
<1>6. ASSUME k < n PROVE Cut(seq, k) \in Seq(Digit) /\ Len(Cut(seq, k)) <= k
  <2>1. k + 1 - 1 = k /\ k - 1 + 1 = k /\ 1 <= k + 1 /\ k <= n /\ k <= k /\ 1 \in Nat \ {0}
    BY <1>1, <1>6
  <2>2. SubSeq(seq, 1, k) \in Seq(Digit) /\ Len(SubSeq(seq, 1, k)) = k
    BY <1>3, <2>1, Zenon
  <2>3. Cut(seq, k) = SubSeq(seq, 1, k)
    BY <1>1, <1>6
  <2> QED
    BY <2>1, <2>2, <2>3, Zenon
<1>7. k <= n => From(seq, k) \in Seq(Digit) /\ SubSeq(seq, 1, k) \in Seq(Digit)
  <2>1. k + 1 \in Nat \ {0} /\ 1 \in Nat \ {0} /\ n <= n
    BY <1>1
  <2> QED
    BY <1>1, <1>2, <1>3, <2>1, Zenon
<1>8. n <= k \/ k < n
  BY <1>1
<1> QED
  BY <1>4, <1>5, <1>6, <1>7, <1>8, Zenon

LEMMA DropZerosType ==
  ASSUME NEW digits \in Seq(Digit)
  PROVE  /\ DropZeros(digits) \in Seq(Digit)
         /\ FormatNational(digits) \in Seq(Digit) /\ Len(FormatNational(digits)) <= MaxNational
<1> DEFINE n == Len(digits)
           zeros == {i \in 1..n : \A j \in 1..i : digits[j] = 0}
<1>1. n \in Nat /\ IsFiniteSet(1..n) /\ Cardinality(1..n) = n
  <2>1. n \in Nat
    OBVIOUS
  <2> HIDE DEF n
  <2> QED
    BY <2>1, FS_Interval
<1>2. Cardinality(zeros) \in Nat /\ Cardinality(zeros) <= n
  <2>1. zeros \subseteq 1..n
    OBVIOUS
  <2> HIDE DEF zeros
  <2> QED
    BY <1>1, <2>1, FS_Subset, FS_CardinalityType
<1>3. LeadingZeros(digits) = Cardinality(zeros)
  BY DEF LeadingZeros
<1>4. DropZeros(digits) \in Seq(Digit)
  BY <1>2, <1>3, CutType DEF DropZeros
<1> QED
  BY <1>4, CutType DEF FormatNational, MaxNational

\* A number that begins with a digit and is not too long stays as it is.
LEMMA NationalStays ==
  ASSUME NEW digits \in Seq(Digit), National(digits)
  PROVE  DropZeros(digits) = digits /\ FormatNational(digits) = digits /\ digits # <<>>
<1> DEFINE n == Len(digits)
<1>1. n \in 1..10 /\ digits[1] # 0
  BY DEF National, MaxNational
<1>2. LeadingZeros(digits) = 0
  <2> DEFINE zeros == {i \in 1..n : \A j \in 1..i : digits[j] = 0}
  <2>1. \A i \in 1..n : 1 \in 1..i
    BY <1>1
  <2>2. zeros = {}
    BY <1>1, <2>1
  <2> QED
    BY <2>2, FS_EmptySet DEF LeadingZeros
<1>3. From(digits, 0) = digits
  <2> DEFINE s == SubSeq(digits, 1, n)
  <2>1. s \in Seq(Digit) /\ Len(s) = n /\ \A i \in 1..n : s[i] = digits[i]
    BY <1>1
  <2> HIDE DEF s
  <2>2. s = digits
    BY <2>1
  <2> QED
    BY <2>2 DEF s, From
<1>4. DropZeros(digits) = digits
  BY <1>2, <1>3 DEF DropZeros
<1>5. FormatNational(digits) = digits
  <2>1. FormatNational(digits) = Cut(digits, 10)
    BY <1>4, Zenon DEF FormatNational, MaxNational
  <2> HIDE DEF n
  <2>2. n <= 10
    BY <1>1
  <2> QED
    BY <2>1, <2>2 DEF Cut, n
<1>6. digits # <<>>
  BY <1>1
<1> QED
  BY <1>4, <1>5, <1>6

\* A number of a country the script knows survives splitPhone, formatNational and
\* phoneValue.
LEMMA KnownNumberSurvives ==
  ASSUME NEW number \in Seq(Digit), KnownNumber(number)
  PROVE  PhoneValue(CodeFor(number), NationalFor(number)) = number
<1>1. PICK code \in KnownCodes : StartsWith(number, code) /\ National(From(number, Len(code)))
  BY DEF KnownNumber
<1>2. code \in Seq(Digit) /\ Len(code) \in 1..2 /\ code # <<>>
  BY <1>1, KnownCodesAre
<1>3. Len(code) <= Len(number) /\ \A i \in 1..Len(code) : number[i] = code[i]
  BY <1>1 DEF StartsWith
<1>4. CodeLength(number) = Len(code)
  <2>1. (CHOOSE c \in KnownCodes : StartsWith(number, c)) = code
    BY <1>1, CodesArePrefixFree
  <2> QED
    BY <1>1, <2>1 DEF CodeLength
<1> DEFINE rest == From(number, Len(code))
<1>5. /\ rest \in Seq(Digit) /\ Len(rest) = Len(number) - Len(code)
      /\ \A i \in 1..Len(rest) : rest[i] = number[i + Len(code)]
  BY <1>2, <1>3 DEF From
<1>6. SplitCode(number) = code
  <2> DEFINE s == SubSeq(number, 1, Len(code))
  <2>1. s \in Seq(Digit) /\ Len(s) = Len(code) /\ \A i \in 1..Len(code) : s[i] = number[i]
    BY <1>2, <1>3
  <2>2. s = code
    BY <1>2, <1>3, <2>1
  <2> QED
    BY <1>4, <2>2 DEF SplitCode
<1>7. CodeFor(number) = code /\ code # NoCode
  BY <1>2, <1>6, PhoneAssumption DEF CodeFor
<1>8. NationalFor(number) = rest /\ DropZeros(rest) = rest /\ rest # <<>>
  BY <1>1, <1>4, <1>5, NationalStays DEF NationalFor, SplitRest
<1>9. code \o rest = number
  <2> HIDE DEF rest
  <2> DEFINE s == code \o rest
             c == Len(code)
             n == Len(number)
  <2>1. s \in Seq(Digit) /\ Len(s) = n
    BY <1>2, <1>5
  <2>2. c \in 1..2 /\ n \in Nat /\ c <= n /\ Len(rest) = n - c
    BY <1>2, <1>3, <1>5
  <2>3. /\ \A i \in 1..c : s[i] = code[i]
        /\ \A i \in (c + 1)..(c + Len(rest)) : s[i] = rest[i - c]
    BY <1>2, <1>5
  <2>4. /\ \A i \in 1..c : number[i] = code[i]
        /\ \A i \in 1..Len(rest) : rest[i] = number[i + c]
    BY <1>3, <1>5
  <2> HIDE DEF s, c, n
  <2>5. ASSUME NEW i \in 1..n PROVE s[i] = number[i]
    <3>1. CASE i <= c
      BY <2>2, <2>3, <2>4, <3>1
    <3>2. CASE i > c
      <4>1. i - c \in 1..Len(rest) /\ i \in (c + 1)..(c + Len(rest)) /\ (i - c) + c = i
        BY <2>2, <3>2
      <4> QED
        BY <2>3, <2>4, <4>1
    <3> QED
      BY <2>2, <3>1, <3>2
  <2>6. s = number
    BY <2>1, <2>5 DEF n
  <2> QED
    BY <2>6 DEF s
<1> QED
  BY <1>7, <1>8, <1>9 DEF PhoneValue

LEMMA KnownNumberIsSome == ~KnownNumber(<<>>)
<1> SUFFICES ASSUME KnownNumber(<<>>) PROVE FALSE
  OBVIOUS
<1>1. PICK code \in KnownCodes : StartsWith(<<>>, code)
  BY DEF KnownNumber
<1>2. Len(code) \in 1..2 /\ Len(code) <= 0
  BY <1>1, KnownCodesAre DEF StartsWith
<1> DEFINE m == Len(code)
<1>3. m \in 1..2 /\ m <= 0
  BY <1>2
<1> HIDE DEF m
<1> QED
  BY <1>3

\* What the box can hold.
LEMMA DefaultCodeType == DefaultDialCode \in Seq(Digit) /\ <<>> \in Seq(Digit) /\ Len(<<>>) = 0
<1>1. <<3, 4>> \in Seq(Digit) /\ <<9, 0>> \in Seq(Digit)
  BY DEF Digit
<1> QED
  BY <1>1 DEF DefaultDialCode

LEMMA SetPhoneType ==
  ASSUME NEW number \in Seq(Digit)
  PROVE  /\ CodeFor(number) \in Seq(Digit) /\ NationalFor(number) \in Seq(Digit)
         /\ Len(NationalFor(number)) <= MaxNational
<1> DEFINE n == Len(number)
           k == CodeLength(number)
<1>1. n \in Nat
  OBVIOUS
<1>2. k \in Nat /\ k <= n
  <2>1. CASE \E code \in KnownCodes : StartsWith(number, code)
    <3> DEFINE c == CHOOSE code \in KnownCodes : StartsWith(number, code)
    <3>1. c \in KnownCodes /\ StartsWith(number, c)
      BY <2>1
    <3>2. k = Len(c)
      BY <2>1 DEF CodeLength
    <3> HIDE DEF c, k
    <3>3. Len(c) <= n /\ Len(c) \in 1..2
      BY <3>1, KnownCodesAre DEF StartsWith
    <3> HIDE DEF n
    <3> DEFINE m == Len(c)
    <3>4. m \in 1..2 /\ m <= n /\ k = m
      BY <3>2, <3>3
    <3> HIDE DEF m
    <3> QED
      BY <1>1, <3>4
  <2>2. CASE ~ \E code \in KnownCodes : StartsWith(number, code)
    <3>1. k = IF n > 3 THEN 3 ELSE IF n > 1 THEN n - 1 ELSE 0
      BY <2>2 DEF CodeLength, MaxCode
    <3> HIDE DEF n, k
    <3> QED
      BY <1>1, <3>1
  <2> QED
    BY <2>1, <2>2
<1>3. SplitCode(number) \in Seq(Digit) /\ SplitRest(number) \in Seq(Digit)
  BY <1>2, CutType DEF SplitCode, SplitRest
<1> QED
  BY <1>3, DefaultCodeType, DropZerosType DEF CodeFor, NationalFor

LEMMA PhoneValueType ==
  ASSUME NEW code \in Seq(Digit) \cup {NoCode}, NEW national \in Seq(Digit)
  PROVE  PhoneValue(code, national) \in Seq(Digit)
<1>1. DropZeros(national) \in Seq(Digit)
  BY DropZerosType
<1> DEFINE c == IF code = NoCode THEN DefaultDialCode ELSE code
<1>2. c \in Seq(Digit)
  BY DefaultCodeType
<1> HIDE DEF c
<1>3. c \o DropZeros(national) \in Seq(Digit)
  BY <1>1, <1>2
<1>4. PhoneValue(code, national) \in {<<>>, c \o DropZeros(national)}
  BY Zenon DEF PhoneValue, c
<1> QED
  BY <1>3, <1>4, DefaultCodeType

LEMMA EmptyBoxType ==
  ASSUME cc = DefaultDialCode, nat = <<>>
  PROVE  PhoneTypeOK
<1>1. 0 <= MaxNational
  BY DEF MaxNational
<1> QED
  BY <1>1, DefaultCodeType, Zenon DEF PhoneTypeOK

LEMMA TypingKeepsType == PhoneTypeOK /\ Type => PhoneTypeOK'
<1> SUFFICES ASSUME PhoneTypeOK, Type PROVE PhoneTypeOK'
  OBVIOUS
<1>1. ASSUME NEW text \in CodeTexts, CodeInput(text) PROVE PhoneTypeOK'
  <2>1. nat' = nat /\ cc' = IF text = NoCode THEN NoCode ELSE Cut(text, MaxCode)
    BY <1>1 DEF CodeInput
  <2>2. text # NoCode => Cut(text, MaxCode) \in Seq(Digit)
    BY PhoneAssumption, CutType DEF MaxCode
  <2> QED
    BY <2>1, <2>2, Zenon DEF PhoneTypeOK
<1>2. ASSUME NEW digits \in NationalTexts, NationalInput(digits) PROVE PhoneTypeOK'
  <2>1. nat' = FormatNational(digits) /\ cc' = cc
    BY <1>2 DEF NationalInput
  <2>2. digits \in Seq(Digit)
    BY PhoneAssumption
  <2> QED
    BY <2>1, <2>2, DropZerosType, Zenon DEF PhoneTypeOK
<1> QED
  BY <1>1, <1>2 DEF Type

-----------------------------------------------------------------------------
(* The form.                                                                *)

LEMMA FormTypeInit == FormInit => FormTypeOK
BY EmptyBoxType, DefaultCodeType DEF FormInit, EmptyBox, FormTypeOK

LEMMA FormTypeStep == FormTypeOK /\ [FormNext]_formVars => FormTypeOK'
<1> SUFFICES ASSUME FormTypeOK, [FormNext]_formVars PROVE FormTypeOK'
  OBVIOUS
<1>1. ASSUME Sync, PhoneTypeOK', stage' \in {"form", "posted"} PROVE FormTypeOK'
  <2>1. full' \in Seq(Digit)
    <3>1. cc' \in Seq(Digit) \cup {NoCode} /\ nat' \in Seq(Digit)
      BY <1>1 DEF PhoneTypeOK
    <3> QED
      BY <1>1, <3>1, PhoneValueType DEF Sync
  <2> QED
    BY <1>1, <2>1 DEF FormTypeOK
<1>2. CASE Open \/ (Refused /\ full = <<>>)
  <2>1. Sync /\ stage' = "form" /\ cc' = DefaultDialCode /\ nat' = <<>>
    BY <1>2 DEF Open, Refused
  <2>2. PhoneTypeOK'
    <3>1. 0 <= MaxNational
      BY DEF MaxNational
    <3> QED
      BY <2>1, <3>1, DefaultCodeType, Zenon DEF PhoneTypeOK
  <2> QED
    BY <1>1, <2>1, <2>2
<1>3. CASE Fill
  BY <1>1, <1>3, TypingKeepsType DEF Fill, FormTypeOK
<1>4. CASE Submit
  <2>1. PhoneTypeOK'
    BY <1>4 DEF Submit, boxVars, FormTypeOK, PhoneTypeOK
  <2> QED
    BY <1>1, <1>4, <2>1 DEF Submit
<1>5. CASE Refused /\ full # <<>>
  <2>1. Sync /\ stage' = "form" /\ cc' = CodeFor(full) /\ nat' = NationalFor(full)
    BY <1>5 DEF Refused, SetPhone
  <2>2. full \in Seq(Digit)
    BY DEF FormTypeOK
  <2>3. PhoneTypeOK'
    BY <2>1, <2>2, SetPhoneType, Zenon DEF PhoneTypeOK
  <2> QED
    BY <1>1, <2>1, <2>3
<1>6. CASE Accepted
  BY <1>6 DEF Accepted, boxVars, FormTypeOK, PhoneTypeOK
<1>7. CASE UNCHANGED formVars
  BY <1>7 DEF formVars, boxVars, FormTypeOK, PhoneTypeOK
<1> QED
  BY <1>2, <1>3, <1>4, <1>5, <1>6, <1>7 DEF FormNext

\* The type invariant of the form and of its phone box.
THEOREM FormTypes == FormSpec => []FormTypeOK
BY FormTypeInit, FormTypeStep, PTL DEF FormSpec

\* A form that is refused and sent again posts the number it had, of whatever digits, for
\* the countries the script knows (wirePhones, splitPhone, phoneValue).
THEOREM RefusedNumberIsKept == FormSpec => RefusalKeepsNumber
<1>1. FormTypeOK /\ [FormNext]_formVars =>
        (stage = "posted" /\ stage' = "form" /\ KnownNumber(full)
           => PhoneValue(cc', nat') = full)
  <2> SUFFICES ASSUME FormTypeOK, [FormNext]_formVars, stage = "posted", stage' = "form",
                      KnownNumber(full)
               PROVE  PhoneValue(cc', nat') = full
    OBVIOUS
  <2>1. full \in Seq(Digit)
    BY DEF FormTypeOK
  <2>2. full # <<>>
    BY KnownNumberIsSome
  <2>3. Refused
    BY DEF FormNext, Open, Fill, Submit, Accepted, formVars
  <2>4. cc' = CodeFor(full) /\ nat' = NationalFor(full)
    BY <2>2, <2>3 DEF Refused, SetPhone
  <2> QED
    BY <2>1, <2>4, KnownNumberSurvives
<1> QED
  BY <1>1, FormTypes, PTL DEF FormSpec, RefusalKeepsNumber

-----------------------------------------------------------------------------
(* The theme.                                                               *)

LEMMA ThemeTypeStep == ThemeTypeOK /\ [ThemeNext]_themeVars => ThemeTypeOK'
BY DEF ThemeTypeOK, ThemeNext, LoadPage, Toggle, SystemChanges, themeVars, Themes, Opposite,
       CurrentTheme, StoredTheme

\* The type invariant of the theme (initTheme), for any number of tabs.
THEOREM ThemeTypes == ThemeSpec => []ThemeTypeOK
<1>1. ThemeInit => ThemeTypeOK
  BY DEF ThemeInit, ThemeTypeOK, Themes
<1> QED
  BY <1>1, ThemeTypeStep, PTL DEF ThemeSpec

\* The choice is stored, and in every tab of "current" it is an attribute, which the
\* system's preference does not move.
ChoiceIsStored ==
  storage /\ chosen # "none" => stored = chosen /\ \A t \in current : attr[t] = chosen

LEMMA ChoiceStep ==
  ThemeTypeOK /\ ChoiceIsStored /\ [ThemeNext]_themeVars => ChoiceIsStored'
<1> SUFFICES ASSUME ThemeTypeOK, ChoiceIsStored, [ThemeNext]_themeVars PROVE ChoiceIsStored'
  OBVIOUS
<1>1. ASSUME NEW t \in Tabs, LoadPage(t) PROVE ChoiceIsStored'
  BY <1>1 DEF LoadPage, StoredTheme, ThemeTypeOK, ChoiceIsStored
<1>2. ASSUME NEW t \in Tabs, Toggle(t) PROVE ChoiceIsStored'
  BY <1>2 DEF Toggle, ThemeTypeOK, ChoiceIsStored
<1>3. CASE SystemChanges \/ UNCHANGED themeVars
  BY <1>3 DEF SystemChanges, themeVars, ChoiceIsStored
<1> QED
  BY <1>1, <1>2, <1>3 DEF ThemeNext

\* Where localStorage works, a chosen theme outlives reloads and changes of the system
\* (storeTheme, storedTheme).
THEOREM ChoiceStays == ThemeSpec => []ChoiceIsKept
<1>1. ThemeInit => ChoiceIsStored
  BY DEF ThemeInit, ChoiceIsStored
<1>2. ChoiceIsStored => ChoiceIsKept
  BY DEF ChoiceIsStored, ChoiceIsKept, CurrentTheme
<1> QED
  BY <1>1, <1>2, ChoiceStep, ThemeTypes, PTL DEF ThemeSpec

\* The button of a page with a theme of its own offers the other one (sync in initTheme).
THEOREM ButtonStaysRight == ThemeSpec => []ButtonOffersOther
<1>1. ThemeInit => ButtonOffersOther
  BY DEF ThemeInit, ButtonOffersOther
<1>2. ThemeTypeOK /\ ButtonOffersOther /\ [ThemeNext]_themeVars => ButtonOffersOther'
  <2> SUFFICES ASSUME ThemeTypeOK, ButtonOffersOther, [ThemeNext]_themeVars
               PROVE  ButtonOffersOther'
    OBVIOUS
  <2>1. ASSUME NEW t \in Tabs, LoadPage(t) PROVE ButtonOffersOther'
    BY <2>1 DEF LoadPage, CurrentTheme, StoredTheme, ThemeTypeOK, ButtonOffersOther
  <2>2. ASSUME NEW t \in Tabs, Toggle(t) PROVE ButtonOffersOther'
    BY <2>2 DEF Toggle, ThemeTypeOK, ButtonOffersOther
  <2>3. CASE SystemChanges \/ UNCHANGED themeVars
    BY <2>3 DEF SystemChanges, themeVars, ButtonOffersOther
  <2> QED
    BY <2>1, <2>2, <2>3 DEF ThemeNext
<1> QED
  BY <1>1, <1>2, ThemeTypes, PTL DEF ThemeSpec

-----------------------------------------------------------------------------
(* The geometry of the chart.                                               *)

\* Whatever the largest count of the week is, no bar of a count up to it leaves the plot,
\* not even one stretched to three pixels; every count but 0 has a bar; and the larger of
\* two counts never has the lower bar (drawBarChart, niceTicks).
LEMMA BarsTell ==
  ASSUME NEW max \in Nat \ {0}, NEW m \in 0..max, NEW n \in 0..max
  PROVE  LET top == TopTick(max)
         IN  /\ max <= top
             /\ BarHeight(m, top) <= PlotHeight * top
             /\ m > 0 => BarHeight(m, top) >= MinHeight * top
             /\ m <= n => BarHeight(m, top) <= BarHeight(n, top)
<1> DEFINE top == TopTick(max)
           step == TickStep(max)
<1>1. step \in Nat /\ top = 4 * step /\ 4 * step >= max
  BY DEF TickStep, TopTick
<1> HIDE DEF step, top
<1>2. top \in Nat /\ max <= top
  BY <1>1
<1>3. PlotHeight = 176 /\ MinHeight = 3
  BY DEF PlotHeight, PlotTop, MinHeight
<1>4. \A k \in 0..max : BarHeight(k, top) =
        IF k > 0 THEN (IF k * 176 >= 3 * top THEN k * 176 ELSE 3 * top) ELSE 0
  BY <1>2, <1>3 DEF BarHeight, Larger
<1>5. /\ BarHeight(m, top) <= 176 * top
      /\ m > 0 => BarHeight(m, top) >= 3 * top
      /\ m <= n => BarHeight(m, top) <= BarHeight(n, top)
  BY <1>2, <1>4
<1> QED
  BY <1>2, <1>3, <1>5 DEF top

-----------------------------------------------------------------------------
(* The largest count: the least upper bound, which is one of the counts.    *)

LEMMA LargestOfBounded ==
  ASSUME NEW bound \in Nat, NEW S, S \subseteq 0..bound, 1 \in S
  PROVE  \E m \in S : \A n \in S : n <= m
<1> DEFINE T == {u \in Nat : \A n \in S : n <= u}
           R == OpToRel(<, Nat)
<1>1. bound \in T
  OBVIOUS
<1>2. T \subseteq Nat /\ T # {}
  BY <1>1
<1>3. IsWellFoundedOn(R, Nat)
  BY NatLessThanWellFounded
<1>4. \A x, y \in Nat : y < x => <<y, x>> \in R
  BY DEF OpToRel
<1> HIDE DEF R
<1>5. PICK x \in T : \A y \in T : ~ (<<y, x>> \in R)
  <2> HIDE DEF T
  <2> QED
    BY <1>2, <1>3, WFMin
<1>6. x \in S
  <2> SUFFICES ASSUME x \notin S PROVE FALSE
    OBVIOUS
  <2>1. x \in Nat /\ \A n \in S : n \in Nat /\ n <= x /\ n # x
    BY <1>5
  <2>2. x >= 1 /\ x - 1 \in Nat
    BY <2>1
  <2>3. x - 1 \in T
    BY <2>1, <2>2
  <2>4. <<x - 1, x>> \in R
    BY <1>4, <2>1, <2>2
  <2> QED
    BY <1>5, <2>3, <2>4
<1> QED
  BY <1>5, <1>6

LEMMA CountsAre ==
  ASSUME NEW week \in Weeks
  PROVE  /\ Counts(week) \subseteq 0..MaxInt
         /\ MaxCount(week) \in Nat \ {0}
         /\ \A n \in Counts(week) : n \in 0..MaxCount(week)
<1>1. Counts(week) \subseteq 0..MaxInt
  <2> DEFINE Day == [ok : 0..MaxInt, fail : 0..MaxInt]
  <2>0. week \in Seq(Day)
    BY ChartAssumption
  <2>1. \A d \in Day : d.ok \in 0..MaxInt /\ d.fail \in 0..MaxInt
    OBVIOUS
  <2> HIDE DEF Day
  <2>2. \A i \in DOMAIN week : week[i] \in Day
    BY <2>0
  <2>3. \A i \in DOMAIN week : week[i].ok \in 0..MaxInt /\ week[i].fail \in 0..MaxInt
    BY <2>1, <2>2
  <2> QED
    BY <2>3, Zenon DEF Counts
<1> DEFINE S == Counts(week) \cup {1}
<1>2. S \subseteq 0..MaxInt /\ 1 \in S /\ MaxInt \in Nat
  BY <1>1, ChartAssumption
<1>3. MaxCount(week) = CHOOSE m \in S : \A n \in S : n <= m
  BY DEF MaxCount
<1> HIDE DEF S
<1>4. MaxCount(week) \in S /\ \A n \in S : n <= MaxCount(week)
  BY <1>2, <1>3, LargestOfBounded
<1>5. MaxCount(week) \in Nat /\ 1 <= MaxCount(week)
  <2>1. MaxCount(week) \in 0..MaxInt
    BY <1>2, <1>4, Zenon
  <2>2. 1 <= MaxCount(week)
    BY <1>2, <1>4, Zenon
  <2> QED
    BY <1>2, <2>1, <2>2
<1>6. ASSUME NEW n \in Counts(week) PROVE n \in 0..MaxCount(week)
  <2>1. n \in S
    BY DEF S
  <2> QED
    BY <1>2, <1>4, <1>5, <2>1
<1> QED
  BY <1>1, <1>5, <1>6

-----------------------------------------------------------------------------
(* The element under the mouse.                                             *)

\* An element that is under the mouse is of the day in whose share of the width the mouse is,
\* and only the bars have no point in common with each other.
LEMMA CoveredDay ==
  ASSUME NEW week \in Weeks, NEW p \in Pointers, NEW e \in Elements(week), Covers(week, p, e)
  PROVE  LET n == Len(week)
             q == n * p[1]
         IN  /\ n \in 1..MaxDays /\ e[1] \in 1..n /\ e[2] \in Parts /\ e = <<e[1], e[2]>>
             /\ q \in Nat
             /\ n * PlotLeft + (e[1] - 1) * PlotWidth <= q
             /\ q < n * PlotLeft + e[1] * PlotWidth
             /\ e[2] = "ok" => 2 * q < Middle(e[1], n)
             /\ e[2] = "fail" => 2 * q >= Middle(e[1], n)
<1> DEFINE n == Len(week)
           i == e[1]
           q == n * p[1]
<1>1. week \in Seq([ok : 0..MaxInt, fail : 0..MaxInt]) /\ n <= 9
  BY ChartAssumption DEF MaxDays
<1>2. n \in Nat /\ DOMAIN week = 1..n
  BY <1>1
<1>3. i \in 1..n /\ e[2] \in Parts /\ e = <<e[1], e[2]>>
  BY <1>2 DEF Elements
<1>4. n \in 1..9
  <2> HIDE DEF n, i
  <2>1. i \in 1..n
    BY <1>3 DEF i
  <2> QED
    BY <1>1, <1>2, <2>1
<1>5. p[1] \in Nat
  BY ChartAssumption
<1> DEFINE x == 2 * n * p[1]
           mid == Middle(i, n)
<1>6. /\ e[2] = "hit" => InRange(x, mid - HitReach(n), mid + HitReach(n))
      /\ e[2] = "ok" => InRange(x, mid - BarReach(n), mid - Halfway(n))
      /\ e[2] = "fail" => InRange(x, mid + Halfway(n), mid + BarReach(n))
  BY <1>3 DEF Covers, Parts
<1> HIDE DEF n, i
<1>n. n \in Nat /\ i \in Nat /\ i >= 1
  <2>1. i \in 1..n
    BY <1>3 DEF i
  <2> QED
    BY <1>4, <2>1
<1>7. q \in Nat /\ x = 2 * q
  BY <1>4, <1>5
<1>8. PlotLeft = 26 /\ PlotWidth = 602
  BY DEF PlotLeft, PlotWidth
<1>9. HitReach(n) = 38 * n /\ BarReach(n) = 34 * n /\ Halfway(n) = 4 * n
  BY <1>n DEF HitReach, BarReach, Halfway, BarWidth, Gap
<1>10. mid = 52 * n + 1204 * i - 602
  BY <1>8, <1>n DEF Middle
<1> HIDE DEF q, x, mid
<1>11. /\ mid - HitReach(n) <= 2 * q /\ 2 * q < mid + HitReach(n)
       /\ e[2] = "ok" => 2 * q < mid
       /\ e[2] = "fail" => 2 * q >= mid
  <2>1. CASE e[2] = "hit"
    <3>1. mid - HitReach(n) <= 2 * q /\ 2 * q < mid + HitReach(n)
      BY <1>6, <1>7, <2>1 DEF InRange
    <3> QED
      BY <2>1, <3>1
  <2>2. CASE e[2] = "ok"
    <3>1. mid - 34 * n <= 2 * q /\ 2 * q < mid - 4 * n
      BY <1>6, <1>7, <1>9, <2>2 DEF InRange
    <3>2. mid - 38 * n <= 2 * q /\ 2 * q < mid + 38 * n /\ 2 * q < mid
      BY <1>n, <1>7, <1>10, <3>1
    <3> QED
      BY <1>9, <2>2, <3>2
  <2>3. CASE e[2] = "fail"
    <3>1. mid + 4 * n <= 2 * q /\ 2 * q < mid + 34 * n
      BY <1>6, <1>7, <1>9, <2>3 DEF InRange
    <3>2. mid - 38 * n <= 2 * q /\ 2 * q < mid + 38 * n /\ 2 * q >= mid
      BY <1>n, <1>7, <1>10, <3>1
    <3> QED
      BY <1>9, <2>3, <3>2
  <2> QED
    BY <1>3, <2>1, <2>2, <2>3 DEF Parts
<1>12. n * 26 + (i - 1) * 602 <= q /\ q < n * 26 + i * 602
  BY <1>n, <1>4, <1>7, <1>9, <1>10, <1>11
<1> QED
  BY <1>3, <1>4, <1>7, <1>8, <1>11, <1>12 DEF n, i, q, mid, MaxDays

\* There is one element on top of all others: a day's rectangle is below its bars, and
\* neither the days nor the bars of a day overlap.
LEMMA TopmostIs ==
  ASSUME NEW week \in Weeks, NEW p \in Pointers, ElementAt(week, p) # Away
  PROVE  /\ ElementAt(week, p) \in Elements(week)
         /\ Covers(week, p, ElementAt(week, p))
<1> DEFINE below == {e \in Elements(week) : Covers(week, p, e)}
           n == Len(week)
           q == n * p[1]
<1>1. below # {} /\ ElementAt(week, p) = CHOOSE e \in below : \A f \in below \ {e} : Above(e, f)
  BY DEF ElementAt
<1>2. ASSUME NEW e \in below
      PROVE  /\ n \in 1..9 /\ e[1] \in 1..n /\ e[2] \in {"hit", "ok", "fail"}
             /\ e = <<e[1], e[2]>>
             /\ q \in Nat
             /\ n * 26 + (e[1] - 1) * 602 <= q
             /\ q < n * 26 + e[1] * 602
             /\ e[2] = "ok" => 2 * q < Middle(e[1], n)
             /\ e[2] = "fail" => 2 * q >= Middle(e[1], n)
  <2>1. PlotLeft = 26 /\ PlotWidth = 602 /\ MaxDays = 9 /\ Parts = {"hit", "ok", "fail"}
    BY DEF PlotLeft, PlotWidth, MaxDays, Parts
  <2> QED
    BY <2>1, CoveredDay
<1> HIDE DEF n, q
<1>3. ASSUME NEW e \in below, NEW f \in below PROVE e[1] = f[1]
  <2> DEFINE i == e[1]
             j == f[1]
  <2>1. /\ n \in Nat /\ i \in Nat /\ q \in Nat
        /\ n * 26 + (i - 1) * 602 <= q /\ q < n * 26 + i * 602
    BY <1>2
  <2>2. j \in Nat /\ n * 26 + (j - 1) * 602 <= q /\ q < n * 26 + j * 602
    BY <1>2
  <2> HIDE DEF i, j
  <2>3. i = j
    BY <2>1, <2>2
  <2> QED
    BY <2>3 DEF i, j
<1>4. ASSUME NEW e \in below, NEW f \in below, e[2] = "ok", f[2] = "fail" PROVE FALSE
  <2> DEFINE mid == Middle(e[1], n)
  <2>1. mid = 2 * n * PlotLeft + (2 * e[1] - 1) * PlotWidth
    BY DEF Middle
  <2>2. n \in Nat /\ e[1] \in Nat /\ q \in Nat
    BY <1>2
  <2>3. mid \in Int
    BY <2>1, <2>2 DEF PlotLeft, PlotWidth
  <2>4. 2 * q < mid /\ 2 * q >= mid
    BY <1>2, <1>3, <1>4
  <2> HIDE DEF mid
  <2> QED
    BY <2>2, <2>3, <2>4
<1>5. ASSUME NEW e \in below, e[2] # "hit" PROVE \A f \in below \ {e} : Above(e, f)
  <2> SUFFICES ASSUME NEW f \in below, f # e PROVE Above(e, f)
    OBVIOUS
  <2>1. e[1] = f[1] /\ e = <<e[1], e[2]>> /\ f = <<f[1], f[2]>>
    BY <1>2, <1>3
  <2>2. e[2] # f[2]
    BY <2>1, Zenon
  <2>3. f[2] = "hit"
    BY <1>2, <1>4, <1>5, <2>2
  <2> QED
    BY <1>5, <2>1, <2>3 DEF Above
<1>6. ASSUME NEW e \in below, \A f \in below : f[2] = "hit" PROVE \A f \in below \ {e} : Above(e, f)
  <2> SUFFICES ASSUME NEW f \in below PROVE f = e
    OBVIOUS
  <2>1. e[1] = f[1] /\ e = <<e[1], e[2]>> /\ f = <<f[1], f[2]>>
    BY <1>2, <1>3
  <2>2. e[2] = f[2]
    BY <1>6
  <2> QED
    BY <2>1, <2>2, Zenon
<1>7. \E e \in below : \A f \in below \ {e} : Above(e, f)
  <2> HIDE DEF below
  <2>1. CASE \E e \in below : e[2] # "hit"
    BY <1>5, <2>1
  <2>2. CASE ~\E e \in below : e[2] # "hit"
    BY <1>1, <1>6, <2>2
  <2> QED
    BY <2>1, <2>2
<1>8. ElementAt(week, p) \in below
  <2> HIDE DEF below
  <2> QED
    BY <1>1, <1>7
<1> QED
  BY <1>8

-----------------------------------------------------------------------------
(* The tooltip.                                                             *)

\* The element that was entered last is the one under the mouse, and the tooltip speaks of it.
TipFollows ==
  /\ tip.visible <=> over # Away
  /\ hovered = {e \in Elements(days) : e = over /\ e[2] # "hit"}
  /\ over # Away => /\ pointer \in Pointers /\ Covers(days, pointer, over)
                    /\ tip.at = pointer /\ tip.day = over[1]

ChartInv == ChartTypeOK /\ TipFollows

LEMMA AwayIsNoElement ==
  ASSUME NEW week \in Weeks
  PROVE  Away \notin Elements(week)
<1>1. week \in Seq([ok : 0..MaxInt, fail : 0..MaxInt])
  BY ChartAssumption
<1>2. DOMAIN week \subseteq Nat
  BY <1>1
<1> QED
  BY <1>2, ChartAssumption DEF Elements

LEMMA UnderIs ==
  ASSUME days \in Weeks, NEW p \in Pointers \cup {Away}, NEW e \in Under(p), e # Away
  PROVE  e = ElementAt(days, p) /\ p \in Pointers /\ e \in Elements(days) /\ Covers(days, p, e)
<1>1. e = ElementAt(days, p)
  BY DEF Under
<1>2. p \in Pointers
  BY <1>1 DEF ElementAt
<1> QED
  BY <1>1, <1>2, TopmostIs

LEMMA ChartInvStep == ChartInv /\ [ChartNext]_chartVars => ChartInv' /\ days' = days
<1> SUFFICES ASSUME ChartInv, [ChartNext]_chartVars PROVE ChartInv' /\ days' = days
  OBVIOUS
<1>t. /\ days \in Weeks /\ pointer \in Pointers \cup {Away} /\ over \in Elements(days) \cup {Away}
      /\ tip \in [visible : BOOLEAN, day : {0} \cup DOMAIN days, at : Pointers \cup {Away}]
      /\ hovered \subseteq Elements(days)
  BY DEF ChartInv, ChartTypeOK
<1>f. TipFollows
  BY DEF ChartInv
<1>1. ASSUME NEW p \in Pointers \cup {Away}, MoveWithin(p) PROVE ChartInv' /\ days' = days
  <2>1. /\ over \in Under(p) /\ pointer' = p /\ days' = days /\ over' = over /\ hovered' = hovered
        /\ tip' = IF over = Away THEN tip ELSE [tip EXCEPT !.at = p]
    BY <1>1 DEF MoveWithin
  <2>2. CASE over = Away
    BY <1>t, <1>f, <2>1, <2>2 DEF ChartInv, ChartTypeOK, TipFollows
  <2>3. CASE over # Away
    <3>1. p \in Pointers /\ Covers(days, p, over)
      BY <1>t, <2>1, <2>3, UnderIs
    <3>2. tip' = [tip EXCEPT !.at = p]
      BY <2>1, <2>3
    <3>3. /\ tip' \in [visible : BOOLEAN, day : {0} \cup DOMAIN days, at : Pointers \cup {Away}]
          /\ tip'.visible = tip.visible /\ tip'.day = tip.day /\ tip'.at = p
      BY <1>t, <3>2
    <3> QED
      BY <1>t, <1>f, <2>1, <2>3, <3>1, <3>3 DEF ChartInv, ChartTypeOK, TipFollows
  <2> QED
    BY <2>2, <2>3
<1>2. ASSUME NEW p \in Pointers \cup {Away}, LeaveTo(p) PROVE ChartInv' /\ days' = days
  <2>1. /\ pointer' = p /\ over' = Away /\ days' = days
        /\ hovered' = hovered \ {over} /\ tip' = [tip EXCEPT !.visible = FALSE]
    BY <1>2 DEF LeaveTo, Leave
  <2>2. /\ tip' \in [visible : BOOLEAN, day : {0} \cup DOMAIN days, at : Pointers \cup {Away}]
        /\ ~tip'.visible
    BY <1>t, <2>1
  <2>3. hovered' = {}
    BY <1>f, <2>1 DEF TipFollows
  <2>4. Away \notin Elements(days)
    BY <1>t, AwayIsNoElement
  <2>5. hovered' = {e \in Elements(days') : e = over' /\ e[2] # "hit"}
    BY <2>1, <2>3, <2>4
  <2> QED
    BY <1>t, <2>1, <2>2, <2>3, <2>5 DEF ChartInv, ChartTypeOK, TipFollows
<1>3. ASSUME NEW p \in Pointers \cup {Away}, EnterFrom(p) PROVE ChartInv' /\ days' = days
  <2> DEFINE e == ElementAt(days, p)
  <2>1. /\ e # Away /\ pointer' = p /\ over' = e /\ days' = days
        /\ hovered' = (hovered \ {over}) \cup (IF e[2] = "hit" THEN {} ELSE {e})
        /\ tip' = [visible |-> TRUE, day |-> e[1], at |-> p]
    BY <1>3 DEF EnterFrom, Enter
  <2>2. p \in Pointers /\ e \in Elements(days) /\ Covers(days, p, e)
    <3>1. e \in Under(p)
      BY DEF Under
    <3> QED
      BY <1>t, <2>1, <3>1, UnderIs
  <2> HIDE DEF e
  <2>3. e[1] \in DOMAIN days
    BY <2>2 DEF Elements
  <2>4. /\ tip' \in [visible : BOOLEAN, day : {0} \cup DOMAIN days, at : Pointers \cup {Away}]
        /\ tip'.visible /\ tip'.day = e[1] /\ tip'.at = p
    BY <2>1, <2>2, <2>3
  <2>5. hovered' = {f \in Elements(days) : f = e /\ f[2] # "hit"}
    BY <1>f, <2>1, <2>2 DEF TipFollows
  <2> QED
    BY <1>t, <2>1, <2>2, <2>4, <2>5 DEF ChartInv, ChartTypeOK, TipFollows
<1>4. CASE UNCHANGED chartVars
  BY <1>4, <1>t, <1>f DEF chartVars, ChartInv, ChartTypeOK, TipFollows
<1> QED
  BY <1>1, <1>2, <1>3, <1>4 DEF ChartNext

LEMMA ChartInvInit == ChartInit => ChartInv
BY AwayIsNoElement DEF ChartInit, ChartInv, ChartTypeOK, TipFollows

\* The type invariant of the chart (drawBarChart).
THEOREM ChartTypes == ChartSpec => []ChartTypeOK
<1>1. ChartInv => ChartTypeOK
  BY DEF ChartInv
<1> QED
  BY <1>1, ChartInvInit, ChartInvStep, PTL DEF ChartSpec

\* The tooltip names the day in whose share of the width the mouse is, for every number of
\* days the server may send, and only the bar under the mouse is highlighted (drawBarChart).
THEOREM TipIsRight == ChartSpec => []TipNamesDay
<1>1. ChartInv => TipNamesDay
  <2> SUFFICES ASSUME ChartInv, over # Away
               PROVE  LET n == Len(days)
                      IN  InRange(n * pointer[1], n * PlotLeft + (tip.day - 1) * PlotWidth,
                                                  n * PlotLeft + tip.day * PlotWidth)
    BY DEF ChartInv, TipFollows, TipNamesDay
  <2>1. /\ days \in Weeks /\ over \in Elements(days) /\ pointer \in Pointers
        /\ Covers(days, pointer, over) /\ tip.day = over[1]
    BY DEF ChartInv, ChartTypeOK, TipFollows
  <2> QED
    BY <2>1, CoveredDay DEF InRange
<1> QED
  BY <1>1, ChartInvInit, ChartInvStep, PTL DEF ChartSpec

\* Bars stay in the plot, are visible unless the count is 0, and grow with the count
\* (drawBarChart, niceTicks).
THEOREM BarsTellEverywhere == ChartSpec => []BarsTellCounts
<1>1. ChartInv => BarsTellCounts
  <2> SUFFICES ASSUME days \in Weeks PROVE BarsTellCounts
    BY DEF ChartInv, ChartTypeOK
  <2> DEFINE max == MaxCount(days)
  <2>1. max \in Nat \ {0} /\ \A n \in Counts(days) : n \in 0..max
    BY CountsAre
  <2> HIDE DEF max
  <2>2. \A m, n \in Counts(days) :
          /\ BarHeight(m, TopTick(max)) <= PlotHeight * TopTick(max)
          /\ m > 0 => BarHeight(m, TopTick(max)) >= MinHeight * TopTick(max)
          /\ m <= n => BarHeight(m, TopTick(max)) <= BarHeight(n, TopTick(max))
    BY <2>1, BarsTell
  <2> QED
    BY <2>2 DEF BarsTellCounts, max
<1> QED
  BY <1>1, ChartInvInit, ChartInvStep, PTL DEF ChartSpec
=============================================================================
