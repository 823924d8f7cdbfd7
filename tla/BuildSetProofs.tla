--------------------------- MODULE BuildSetProofs ---------------------------
(***************************************************************************)
(* The four properties of BuildSet, for every build set: the number of     *)
(* projects, of Task elements, of files in a directory and of tokens in a  *)
(* string is not bounded.  The ids need no more than that a directory is   *)
(* finite; the other three follow strings through TaskVariables::replace,  *)
(* taskGenerator and the daemon's conversion, and take what they assume of *)
(* the strings from the end of BuildSet.                                   *)
(***************************************************************************)
EXTENDS BuildSet, FiniteSetTheorems, SequenceTheorems, WellFoundedInduction, TLAPS

-----------------------------------------------------------------------------
(***************************************************************************)
(* Induction over numbers and sequences.  The theorems of the library take *)
(* a predicate as a parameter; here it is the set of what has been shown,  *)
(* and the principle comes from the least element of a set of numbers.     *)
(***************************************************************************)
LEMMA LeastNumber ==
  ASSUME NEW T \in SUBSET Nat, T # {}
  PROVE  \E m \in T : \A k \in T : m <= k
<1> DEFINE R == OpToRel(<, Nat)
<1>1. IsWellFoundedOn(R, Nat)
  BY NatLessThanWellFounded
<1>2. \A x, y \in Nat : <<y, x>> \in R <=> y < x
  BY DEF OpToRel
<1> HIDE DEF R
<1>3. PICK m \in T : \A y \in T : ~(<<y, m>> \in R)
  BY <1>1, WFMin
<1>4. \A k \in T : ~(k < m)
  BY <1>2, <1>3
<1>5. \A k \in T : m <= k
  BY <1>4
<1> QED
  BY <1>5

LEMMA NumberInduction ==
  ASSUME NEW S, 0 \in S, \A n \in Nat : n \in S => n + 1 \in S
  PROVE  \A n \in Nat : n \in S
<1> SUFFICES ASSUME NEW n \in Nat, n \notin S PROVE FALSE
  OBVIOUS
<1>1. PICK m \in Nat \ S : \A k \in Nat \ S : m <= k
  BY LeastNumber
<1>2. m - 1 \in Nat /\ m - 1 \in S
  BY <1>1
<1> QED
  BY <1>1, <1>2

LEMMA SequenceInduction ==
  ASSUME NEW T, NEW S, <<>> \in S, \A s \in Seq(T), e \in T : s \in S => Append(s, e) \in S
  PROVE  \A s \in Seq(T) : s \in S
<1> DEFINE N == {n \in Nat : \A s \in Seq(T) : Len(s) = n => s \in S}
<1>1. 0 \in N
  BY EmptySeq
<1>2. ASSUME NEW n \in Nat, n \in N PROVE n + 1 \in N
  <2> SUFFICES ASSUME NEW s \in Seq(T), Len(s) = n + 1 PROVE s \in S
    OBVIOUS
  <2>1. s # <<>>
    BY EmptySeq
  <2>2. PICK front \in Seq(T), last \in T : s = Append(front, last)
    BY <2>1, SequenceEmptyOrAppend
  <2>3. Len(front) = n
    BY <2>2, AppendProperties
  <2> QED
    BY <1>2, <2>2, <2>3
<1> HIDE DEF N
<1>3. \A n \in Nat : n \in N
  BY <1>1, <1>2, NumberInduction
<1> QED
  BY <1>3, LenProperties DEF N

-----------------------------------------------------------------------------
(***************************************************************************)
(* FlattenSeq.  Cats(f, ss, n): f[i] is the concatenation of the first i   *)
(* of n sequences.  There is such a function for every n, so the recursive *)
(* definition of FlattenSeq defines one.                                   *)
(***************************************************************************)
Cats(f, ss, n) == f = [i \in 1 .. n |-> IF i = 1 THEN ss[i] ELSE f[i - 1] \o ss[i]]

LEMMA CatsValue ==
  ASSUME NEW ss, NEW n \in Nat, NEW f, Cats(f, ss, n), NEW i \in 1 .. n
  PROVE  f[i] = IF i = 1 THEN ss[i] ELSE f[i - 1] \o ss[i]
BY DEF Cats

LEMMA CatsExtended ==
  ASSUME NEW ss, NEW n \in Nat, n # 0, NEW f, Cats(f, ss, n)
  PROVE  \E g : Cats(g, ss, n + 1)
<1> DEFINE last == f[n] \o ss[n + 1]
           g    == [i \in 1 .. n + 1 |-> IF i = n + 1 THEN last ELSE f[i]]
           Is(i) == g[i] = IF i = 1 THEN ss[i] ELSE g[i - 1] \o ss[i]
<1>1. ASSUME NEW i \in 1 .. n + 1 PROVE Is(i)
  <2>1. CASE i = n + 1
    <3> HIDE DEF last
    <3>1. g[n + 1] = last /\ g[n] = f[n]
      OBVIOUS
    <3>2. i # 1 /\ i - 1 = n
      BY <2>1
    <3> QED
      BY <2>1, <3>1, <3>2 DEF last
  <2>2. CASE i # n + 1
    <3>1. i \in 1 .. n /\ (i # 1 => i - 1 \in 1 .. n)
      BY <2>2
    <3>2. f[i] = IF i = 1 THEN ss[i] ELSE f[i - 1] \o ss[i]
      BY <3>1, CatsValue
    <3> HIDE DEF last
    <3>3. g[i] = f[i] /\ (i # 1 => g[i - 1] = f[i - 1])
      BY <3>1
    <3> QED
      BY <3>2, <3>3
  <2> QED
    BY <2>1, <2>2
<1>2. g = [i \in 1 .. n + 1 |-> g[i]]
  OBVIOUS
<1> HIDE DEF g
<1>3. Cats(g, ss, n + 1)
  BY <1>1, <1>2 DEF Cats
<1> QED
  BY <1>3

LEMMA CatsExists ==
  ASSUME NEW ss
  PROVE  \A n \in Nat : n # 0 => \E f : Cats(f, ss, n)
<1> DEFINE S == {n \in Nat : n # 0 => \E f : Cats(f, ss, n)}
<1>1. 0 \in S
  OBVIOUS
<1>2. ASSUME NEW n \in Nat, n \in S PROVE n + 1 \in S
  <2>1. CASE n = 0
    <3>1. Cats([i \in 1 .. 1 |-> ss[i]], ss, 1)
      BY DEF Cats
    <3> QED
      BY <2>1, <3>1
  <2>2. CASE n # 0
    BY <1>2, <2>2, CatsExtended
  <2> QED
    BY <2>1, <2>2
<1> HIDE DEF S
<1>3. \A n \in Nat : n \in S
  BY <1>1, <1>2, NumberInduction
<1> QED
  BY <1>3 DEF S

LEMMA FlattenSeqDef ==
  ASSUME NEW ss, Len(ss) \in Nat, Len(ss) # 0
  PROVE  \E f : Cats(f, ss, Len(ss)) /\ FlattenSeq(ss) = f[Len(ss)]
<1> DEFINE g == CHOOSE f : f = [i \in 1 .. Len(ss) |-> IF i = 1 THEN ss[i] ELSE f[i - 1] \o ss[i]]
<1>1. \E f : f = [i \in 1 .. Len(ss) |-> IF i = 1 THEN ss[i] ELSE f[i - 1] \o ss[i]]
  <2>1. PICK f : Cats(f, ss, Len(ss))
    BY CatsExists
  <2> QED
    BY <2>1 DEF Cats
<1>2. g = [i \in 1 .. Len(ss) |-> IF i = 1 THEN ss[i] ELSE g[i - 1] \o ss[i]]
  BY <1>1, Zenon
<1>3. FlattenSeq(ss) = g[Len(ss)]
  BY Zenon DEF FlattenSeq
<1>4. Cats(g, ss, Len(ss))
  <2> HIDE DEF g
  <2> QED
    BY <1>2 DEF Cats
<1> QED
  BY <1>3, <1>4

\* The first sequences alone decide the first values.
LEMMA CatsAgree ==
  ASSUME NEW ss, NEW tt, NEW m \in Nat, NEW n \in Nat, m <= n,
         \A i \in 1 .. m : ss[i] = tt[i],
         NEW f, Cats(f, ss, m), NEW g, Cats(g, tt, n)
  PROVE  \A i \in 1 .. m : f[i] = g[i]
<1> DEFINE S == {k \in Nat : k \in 1 .. m => f[k] = g[k]}
<1>1. 0 \in S
  OBVIOUS
<1>2. ASSUME NEW k \in Nat, k \in S PROVE k + 1 \in S
  <2> SUFFICES ASSUME k + 1 \in 1 .. m PROVE f[k + 1] = g[k + 1]
    OBVIOUS
  <2>1. f[k + 1] = IF k + 1 = 1 THEN ss[k + 1] ELSE f[(k + 1) - 1] \o ss[k + 1]
    BY CatsValue
  <2>2. k + 1 \in 1 .. n
    OBVIOUS
  <2>3. g[k + 1] = IF k + 1 = 1 THEN tt[k + 1] ELSE g[(k + 1) - 1] \o tt[k + 1]
    BY <2>2, CatsValue
  <2>4. k + 1 # 1 => (k + 1) - 1 = k /\ f[k] = g[k]
    BY <1>2
  <2> QED
    BY <2>1, <2>3, <2>4
<1> HIDE DEF S
<1>3. \A k \in Nat : k \in S
  BY <1>1, <1>2, NumberInduction
<1> QED
  BY <1>3 DEF S

LEMMA CatsLast ==
  ASSUME NEW ss, NEW tt, NEW m \in Nat, m # 0, \A i \in 1 .. m : ss[i] = tt[i],
         NEW f, Cats(f, ss, m), NEW g, Cats(g, tt, m + 1)
  PROVE  g[m + 1] = f[m] \o tt[m + 1]
<1>1. \A i \in 1 .. m : f[i] = g[i]
  <2>1. m <= m + 1 /\ m + 1 \in Nat
    OBVIOUS
  <2> QED
    BY <2>1, CatsAgree
<1>2. g[m + 1] = IF m + 1 = 1 THEN tt[m + 1] ELSE g[(m + 1) - 1] \o tt[m + 1]
  BY CatsValue
<1>3. m + 1 # 1 /\ (m + 1) - 1 = m /\ m \in 1 .. m
  OBVIOUS
<1> QED
  BY <1>1, <1>2, <1>3

LEMMA FlattenEmpty == FlattenSeq(<<>>) = <<>>
BY DEF FlattenSeq

LEMMA FlattenAppend ==
  ASSUME NEW T, NEW ss \in Seq(Seq(T)), NEW s \in Seq(T)
  PROVE  FlattenSeq(Append(ss, s)) = FlattenSeq(ss) \o s
<1> DEFINE tt == Append(ss, s)
           n  == Len(tt)
           m  == Len(ss)
<1>1. tt \in Seq(Seq(T)) /\ n = m + 1 /\ tt[n] = s /\ \A i \in 1 .. m : ss[i] = tt[i]
  BY AppendProperties
<1>2. m \in Nat /\ n \in Nat /\ n # 0
  BY <1>1
<1> HIDE DEF tt
<1>3. PICK g : Cats(g, tt, n) /\ FlattenSeq(tt) = g[n]
  BY <1>2, FlattenSeqDef
<1>4. CASE m = 0
  <2>1. n = 1 /\ ss = <<>>
    BY <1>1, <1>4, EmptySeq
  <2>2. <<>> \o s = s
    BY ConcatEmptySeq
  <2> HIDE DEF n, m
  <2>3. g[n] = tt[n]
    BY <1>2, <1>3, <2>1, CatsValue
  <2> QED
    BY <1>1, <1>3, <2>1, <2>2, <2>3, FlattenEmpty DEF tt
<1>5. CASE m # 0
  <2>1. PICK f : Cats(f, ss, m) /\ FlattenSeq(ss) = f[m]
    BY <1>2, <1>5, FlattenSeqDef
  <2> HIDE DEF m
  <2>2. Cats(g, tt, m + 1)
    BY <1>1, <1>3
  <2>3. g[m + 1] = f[m] \o tt[m + 1]
    BY <1>1, <1>2, <1>5, <2>1, <2>2, CatsLast, ZenonT(30)
  <2> QED
    BY <1>1, <1>3, <2>1, <2>3 DEF tt
<1> QED
  BY <1>4, <1>5

-----------------------------------------------------------------------------
(***************************************************************************)
(* String_replace works on a string token by token.                        *)
(***************************************************************************)
Image(c, token, value) == IF c = token THEN value ELSE <<c>>

LEMMA ReplaceEmpty == ASSUME NEW token, NEW value PROVE String_replace(<<>>, token, value) = <<>>
<1>1. [i \in DOMAIN <<>> |-> IF <<>>[i] = token THEN value ELSE <<(<<>>)[i]>>] = <<>>
  OBVIOUS
<1> QED
  BY <1>1, FlattenEmpty DEF String_replace

LEMMA ReplaceAppend ==
  ASSUME NEW T, NEW str \in Seq(T), NEW c \in T, NEW token, NEW value \in Seq(T)
  PROVE  String_replace(Append(str, c), token, value)
           = String_replace(str, token, value) \o Image(c, token, value)
<1> DEFINE long    == Append(str, c)
           images  == [i \in DOMAIN str |-> IF str[i] = token THEN value ELSE <<str[i]>>]
           images2 == [i \in DOMAIN long |-> IF long[i] = token THEN value ELSE <<long[i]>>]
           last    == Image(c, token, value)
<1>1. /\ long \in Seq(T) /\ Len(long) = Len(str) + 1 /\ long[Len(str) + 1] = c
      /\ \A i \in 1 .. Len(str) : long[i] = str[i]
  BY AppendProperties
<1>2. /\ Len(str) \in Nat /\ DOMAIN str = 1 .. Len(str) /\ DOMAIN long = 1 .. Len(str) + 1
      /\ \A i \in 1 .. Len(str) : str[i] \in T
  BY <1>1, LenProperties, ElementOfSeq
<1> HIDE DEF long
<1>3. last \in Seq(T)
  BY DEF Image
<1>4. images \in [1 .. Len(str) -> Seq(T)]
  BY <1>2
<1>5. images \in Seq(Seq(T)) /\ Len(images) = Len(str)
  BY <1>2, <1>4
<1>6. images2 = Append(images, last)
  <2>1. /\ Append(images, last) \in Seq(Seq(T)) /\ Len(Append(images, last)) = Len(str) + 1
        /\ \A i \in 1 .. Len(str) : Append(images, last)[i] = images[i]
        /\ Append(images, last)[Len(str) + 1] = last
    <3> HIDE DEF images, last
    <3> QED
      BY <1>3, <1>5, AppendProperties
  <2>2. images2 \in [1 .. Len(str) + 1 -> Seq(T)]
    <3>1. \A i \in 1 .. Len(str) + 1 : long[i] \in T
      BY <1>1, <1>2, ElementOfSeq
    <3> QED
      BY <1>2, <3>1
  <2>3. images2 \in Seq(Seq(T)) /\ Len(images2) = Len(str) + 1
    <3> HIDE DEF images2
    <3> QED
      BY <1>2, <2>2
  <2>4. \A i \in 1 .. Len(str) + 1 : images2[i] = Append(images, last)[i]
    <3> SUFFICES ASSUME NEW i \in 1 .. Len(str) + 1
                 PROVE  images2[i] = Append(images, last)[i]
      OBVIOUS
    <3>1. CASE i = Len(str) + 1
      <4>1. images2[i] = last
        BY <1>1, <1>2, <3>1 DEF Image
      <4> QED
        BY <2>1, <3>1, <4>1
    <3>2. CASE i # Len(str) + 1
      <4>1. i \in 1 .. Len(str)
        BY <1>2, <3>2
      <4>2. images2[i] = images[i]
        BY <1>1, <1>2, <4>1
      <4> QED
        BY <2>1, <4>1, <4>2
    <3> QED
      BY <3>1, <3>2
  <2> HIDE DEF images, images2, last
  <2> QED
    BY <2>1, <2>3, <2>4, SeqEqual
<1>7. String_replace(str, token, value) = FlattenSeq(images)
  BY DEF String_replace
<1>8. String_replace(long, token, value) = FlattenSeq(images2)
  BY DEF String_replace
<1> HIDE DEF images, images2, last
<1>9. FlattenSeq(Append(images, last)) = FlattenSeq(images) \o last
  BY <1>3, <1>5, FlattenAppend
<1> QED
  BY <1>6, <1>7, <1>8, <1>9 DEF long, last

\* What is left of a string: the tokens other than the one that is replaced,
\* and those of the value.
LEMMA ReplaceType ==
  ASSUME NEW T, NEW U, NEW token, T \ {token} \subseteq U, NEW value \in Seq(U)
  PROVE  \A str \in Seq(T) : String_replace(str, token, value) \in Seq(U)
<1> DEFINE S == {str \in Seq(T) : String_replace(str, token, value) \in Seq(U)}
<1>1. <<>> \in S
  BY ReplaceEmpty, EmptySeq
<1>2. ASSUME NEW str \in Seq(T), NEW c \in T, str \in S PROVE Append(str, c) \in S
  <2> DEFINE W == T \cup U
  <2>1. str \in Seq(W) /\ value \in Seq(W) /\ c \in W
    BY SeqMonotonic
  <2> HIDE DEF W
  <2>2. String_replace(Append(str, c), token, value)
          = String_replace(str, token, value) \o Image(c, token, value)
    BY <2>1, ReplaceAppend
  <2>3. Image(c, token, value) \in Seq(U)
    BY DEF Image
  <2>4. String_replace(str, token, value) \in Seq(U)
    BY <1>2
  <2>5. String_replace(Append(str, c), token, value) \in Seq(U)
    BY <2>2, <2>3, <2>4, ConcatProperties
  <2> QED
    BY <2>5, AppendProperties
<1> HIDE DEF S
<1>3. \A str \in Seq(T) : str \in S
  BY <1>1, <1>2, SequenceInduction
<1> QED
  BY <1>3 DEF S

LEMMA ReplaceSame ==
  ASSUME NEW T, NEW token, NEW value \in Seq(T)
  PROVE  \A str \in Seq(T) : String_replace(str, token, value) \in Seq(T)
BY ReplaceType

LEMMA ReplaceOne ==
  ASSUME NEW T, NEW c \in T, NEW token, NEW value \in Seq(T)
  PROVE  String_replace(<<c>>, token, value) = Image(c, token, value)
<1>1. PICK empty \in Seq(T) : empty = <<>>
  BY EmptySeq
<1>2. Image(c, token, value) \in Seq(T)
  BY DEF Image
<1>3. <<>> \o Image(c, token, value) = Image(c, token, value)
  BY <1>2, ConcatEmptySeq
<1>4. String_replace(Append(empty, c), token, value)
        = String_replace(empty, token, value) \o Image(c, token, value)
  BY ReplaceAppend
<1>5. Append(empty, c) = <<c>>
  BY <1>1
<1> QED
  BY <1>1, <1>3, <1>4, <1>5, ReplaceEmpty

LEMMA ReplaceAbsent ==
  ASSUME NEW T, NEW token, token \notin T, NEW V, NEW value \in Seq(V)
  PROVE  \A str \in Seq(T) : String_replace(str, token, value) = str
<1> DEFINE S == {str \in Seq(T) : String_replace(str, token, value) = str}
<1>1. <<>> \in S
  BY ReplaceEmpty, EmptySeq
<1>2. ASSUME NEW str \in Seq(T), NEW c \in T, str \in S PROVE Append(str, c) \in S
  <2> DEFINE W == T \cup V
  <2>1. str \in Seq(W) /\ value \in Seq(W) /\ c \in W
    BY SeqMonotonic
  <2> HIDE DEF W
  <2>2. String_replace(Append(str, c), token, value)
          = String_replace(str, token, value) \o Image(c, token, value)
    BY <2>1, ReplaceAppend
  <2>3. Image(c, token, value) = <<c>>
    BY DEF Image
  <2>4. String_replace(str, token, value) = str
    BY <1>2
  <2>5. str \o <<c>> = Append(str, c)
    BY AppendIsConcat
  <2> QED
    BY <2>2, <2>3, <2>4, <2>5, AppendProperties
<1> HIDE DEF S
<1>3. \A str \in Seq(T) : str \in S
  BY <1>1, <1>2, SequenceInduction
<1> QED
  BY <1>3 DEF S

LEMMA ReplaceConcat ==
  ASSUME NEW T, NEW s \in Seq(T), NEW token, NEW value \in Seq(T)
  PROVE  \A t \in Seq(T) : String_replace(s \o t, token, value)
                             = String_replace(s, token, value) \o String_replace(t, token, value)
<1> DEFINE R(str) == String_replace(str, token, value)
           S == {t \in Seq(T) : R(s \o t) = R(s) \o R(t)}
<1>0. \A str \in Seq(T) : R(str) \in Seq(T)
  BY ReplaceType
<1>1. <<>> \in S
  <2>1. s \o <<>> = s /\ R(s) \o <<>> = R(s)
    BY <1>0, ConcatEmptySeq
  <2> QED
    BY <2>1, ReplaceEmpty, EmptySeq
<1>2. ASSUME NEW t \in Seq(T), NEW c \in T, t \in S PROVE Append(t, c) \in S
  <2> DEFINE last == Image(c, token, value)
  <2>1. R(Append(t, c)) = R(t) \o last
    BY ReplaceAppend
  <2>0. PICK st \in Seq(T) : st = s \o t
    BY ConcatProperties
  <2>2. Append(t, c) \in Seq(T)
    BY AppendProperties
  <2>3. R(Append(st, c)) = R(st) \o last
    BY ReplaceAppend
  <2>4. s \o Append(t, c) = Append(st, c)
    BY <2>0
  <2>5. last \in Seq(T)
    BY DEF Image
  <2>6. R(st) = R(s) \o R(t)
    BY <1>2, <2>0
  <2> HIDE DEF R, last
  <2>7. (R(s) \o R(t)) \o last = R(s) \o (R(t) \o last)
    BY <1>0, <2>5, ConcatAssociative, SMTT(30)
  <2>8. R(s \o Append(t, c)) = R(s) \o R(Append(t, c))
    BY <2>1, <2>3, <2>4, <2>6, <2>7
  <2> QED
    BY <2>2, <2>8 DEF R
<1> HIDE DEF S
<1>3. \A t \in Seq(T) : t \in S
  BY <1>1, <1>2, SequenceInduction
<1> QED
  BY <1>3 DEF S

-----------------------------------------------------------------------------
(***************************************************************************)
(* TaskVariables::replace.  Its nine substitutions run one after the other *)
(* on the whole string, but where the values are plain text the result is  *)
(* that of replacing every token once.                                     *)
(***************************************************************************)
Value(vars, c) ==
  CASE c = "$(pname)" -> vars.PName
    [] c = "$(pdir)" -> vars.PDir
    [] c = "$(sdir)" -> vars.SDir
    [] c = "$(wdir)" -> vars.WDir
    [] c = "$(sfile)" -> vars.SFile
    [] c = "$(ofile)" -> vars.OFile
    [] c = "$(sourcefile)" -> vars.SourceFile
    [] c = "$(sourcefilename)" -> vars.SourceFileName
    [] c = "$(outputfile)" -> vars.OutputFile
    [] OTHER -> <<c>>

HasValues(vars, T) ==
  /\ vars.PName \in Seq(T) /\ vars.PDir \in Seq(T) /\ vars.SDir \in Seq(T)
  /\ vars.WDir \in Seq(T) /\ vars.SFile \in Seq(T) /\ vars.OFile \in Seq(T)
  /\ vars.SourceFile \in Seq(T) /\ vars.SourceFileName \in Seq(T) /\ vars.OutputFile \in Seq(T)

\* Concatenation, under a name that is expanded only where its elements matter.
Cat(s, t) == s \o t

\* A substitution takes strings over T to strings over T, piece by piece.
Piecewise(T, token, value) ==
  \A s, t \in Seq(T) :
    /\ String_replace(s, token, value) \in Seq(T)
    /\ String_replace(Cat(s, t), token, value)
         = Cat(String_replace(s, token, value), String_replace(t, token, value))

LEMMA ReplacePiecewise ==
  ASSUME NEW T, NEW token, NEW value \in Seq(T)
  PROVE  Piecewise(T, token, value)
<1> SUFFICES ASSUME NEW s \in Seq(T), NEW t \in Seq(T)
             PROVE  /\ String_replace(s, token, value) \in Seq(T)
                    /\ String_replace(Cat(s, t), token, value)
                         = Cat(String_replace(s, token, value), String_replace(t, token, value))
  BY DEF Piecewise
<1>1. String_replace(s, token, value) \in Seq(T)
  BY ReplaceSame
<1>2. String_replace(s \o t, token, value) = String_replace(s, token, value) \o String_replace(t, token, value)
  BY ReplaceConcat
<1> QED
  BY <1>1, <1>2 DEF Cat

LEMMA replacePiecewise ==
  ASSUME NEW T, NEW vars, HasValues(vars, T), NEW s \in Seq(T), NEW t \in Seq(T)
  PROVE  /\ replace(vars, s) \in Seq(T)
         /\ replace(vars, Cat(s, t)) = Cat(replace(vars, s), replace(vars, t))
<1>1. Piecewise(T, "$(pname)", vars.PName)
  BY ReplacePiecewise DEF HasValues
<1>2. Piecewise(T, "$(pdir)", vars.PDir)
  BY ReplacePiecewise DEF HasValues
<1>3. Piecewise(T, "$(sdir)", vars.SDir)
  BY ReplacePiecewise DEF HasValues
<1>4. Piecewise(T, "$(wdir)", vars.WDir)
  BY ReplacePiecewise DEF HasValues
<1>5. Piecewise(T, "$(sfile)", vars.SFile)
  BY ReplacePiecewise DEF HasValues
<1>6. Piecewise(T, "$(ofile)", vars.OFile)
  BY ReplacePiecewise DEF HasValues
<1>7. Piecewise(T, "$(sourcefile)", vars.SourceFile)
  BY ReplacePiecewise DEF HasValues
<1>8. Piecewise(T, "$(sourcefilename)", vars.SourceFileName)
  BY ReplacePiecewise DEF HasValues
<1>9. Piecewise(T, "$(outputfile)", vars.OutputFile)
  BY ReplacePiecewise DEF HasValues
<1> DEFINE s1 == String_replace(s, "$(pname)", vars.PName)
           t1 == String_replace(t, "$(pname)", vars.PName)
           x1 == String_replace(Cat(s, t), "$(pname)", vars.PName)
           s2 == String_replace(s1, "$(pdir)", vars.PDir)
           t2 == String_replace(t1, "$(pdir)", vars.PDir)
           x2 == String_replace(x1, "$(pdir)", vars.PDir)
           s3 == String_replace(s2, "$(sdir)", vars.SDir)
           t3 == String_replace(t2, "$(sdir)", vars.SDir)
           x3 == String_replace(x2, "$(sdir)", vars.SDir)
           s4 == String_replace(s3, "$(wdir)", vars.WDir)
           t4 == String_replace(t3, "$(wdir)", vars.WDir)
           x4 == String_replace(x3, "$(wdir)", vars.WDir)
           s5 == String_replace(s4, "$(sfile)", vars.SFile)
           t5 == String_replace(t4, "$(sfile)", vars.SFile)
           x5 == String_replace(x4, "$(sfile)", vars.SFile)
           s6 == String_replace(s5, "$(ofile)", vars.OFile)
           t6 == String_replace(t5, "$(ofile)", vars.OFile)
           x6 == String_replace(x5, "$(ofile)", vars.OFile)
           s7 == String_replace(s6, "$(sourcefile)", vars.SourceFile)
           t7 == String_replace(t6, "$(sourcefile)", vars.SourceFile)
           x7 == String_replace(x6, "$(sourcefile)", vars.SourceFile)
           s8 == String_replace(s7, "$(sourcefilename)", vars.SourceFileName)
           t8 == String_replace(t7, "$(sourcefilename)", vars.SourceFileName)
           x8 == String_replace(x7, "$(sourcefilename)", vars.SourceFileName)
           s9 == String_replace(s8, "$(outputfile)", vars.OutputFile)
           t9 == String_replace(t8, "$(outputfile)", vars.OutputFile)
           x9 == String_replace(x8, "$(outputfile)", vars.OutputFile)
<1>a. replace(vars, s) = s9 /\ replace(vars, t) = t9 /\ replace(vars, Cat(s, t)) = x9
  BY DEF replace
<1>s1. s1 \in Seq(T) /\ t1 \in Seq(T) /\ x1 = Cat(s1, t1)
  BY <1>1 DEF Piecewise
<1>s2. s2 \in Seq(T) /\ t2 \in Seq(T) /\ x2 = Cat(s2, t2)
  <2> HIDE DEF s1, t1, x1
  <2> QED
    BY <1>2, <1>s1 DEF Piecewise
<1>s3. s3 \in Seq(T) /\ t3 \in Seq(T) /\ x3 = Cat(s3, t3)
  <2> HIDE DEF s2, t2, x2
  <2> QED
    BY <1>3, <1>s2 DEF Piecewise
<1>s4. s4 \in Seq(T) /\ t4 \in Seq(T) /\ x4 = Cat(s4, t4)
  <2> HIDE DEF s3, t3, x3
  <2> QED
    BY <1>4, <1>s3 DEF Piecewise
<1>s5. s5 \in Seq(T) /\ t5 \in Seq(T) /\ x5 = Cat(s5, t5)
  <2> HIDE DEF s4, t4, x4
  <2> QED
    BY <1>5, <1>s4 DEF Piecewise
<1>s6. s6 \in Seq(T) /\ t6 \in Seq(T) /\ x6 = Cat(s6, t6)
  <2> HIDE DEF s5, t5, x5
  <2> QED
    BY <1>6, <1>s5 DEF Piecewise
<1>s7. s7 \in Seq(T) /\ t7 \in Seq(T) /\ x7 = Cat(s7, t7)
  <2> HIDE DEF s6, t6, x6
  <2> QED
    BY <1>7, <1>s6 DEF Piecewise
<1>s8. s8 \in Seq(T) /\ t8 \in Seq(T) /\ x8 = Cat(s8, t8)
  <2> HIDE DEF s7, t7, x7
  <2> QED
    BY <1>8, <1>s7 DEF Piecewise
<1>s9. s9 \in Seq(T) /\ t9 \in Seq(T) /\ x9 = Cat(s9, t9)
  <2> HIDE DEF s8, t8, x8
  <2> QED
    BY <1>9, <1>s8 DEF Piecewise
<1> HIDE DEF s9, t9, x9
<1> QED
  BY <1>a, <1>s9

\* One substitution of a token: v is what the token stands for in the end, D
\* the variables that are replaced before.
LEMMA StageToken ==
  ASSUME NEW Text, NEW T, Text \subseteq T, NEW token, token \notin Text,
         NEW value \in Seq(T), NEW v \in Seq(Text), NEW c \in T, c = token => v = value
  PROVE  \A D, s : s = (IF c \in D THEN v ELSE <<c>>) =>
           String_replace(s, token, value) = IF c \in D \cup {token} THEN v ELSE <<c>>
<1>1. String_replace(v, token, value) = v
  BY ReplaceAbsent
<1>2. String_replace(<<c>>, token, value) = Image(c, token, value)
  BY ReplaceOne
<1>3. String_replace(<<c>>, token, value) = IF c = token THEN v ELSE <<c>>
  BY <1>2 DEF Image
<1> SUFFICES ASSUME NEW D, NEW s, s = IF c \in D THEN v ELSE <<c>>
             PROVE  String_replace(s, token, value) = IF c \in D \cup {token} THEN v ELSE <<c>>
  OBVIOUS
<1>4. CASE c \in D
  BY <1>1, <1>4
<1>5. CASE c \notin D
  BY <1>3, <1>5
<1> QED
  BY <1>4, <1>5

LEMMA replaceToken ==
  ASSUME NEW Text, NEW T, Text \subseteq T, Variables \subseteq T, Text \cap Variables = {},
         NEW vars, HasValues(vars, T), NEW c \in Text \cup Variables, Value(vars, c) \in Seq(Text)
  PROVE  replace(vars, <<c>>) = Value(vars, c)
<1> DEFINE v  == Value(vars, c)
           D1 == {"$(pname)"}
           D2 == D1 \cup {"$(pdir)"}
           D3 == D2 \cup {"$(sdir)"}
           D4 == D3 \cup {"$(wdir)"}
           D5 == D4 \cup {"$(sfile)"}
           D6 == D5 \cup {"$(ofile)"}
           D7 == D6 \cup {"$(sourcefile)"}
           D8 == D7 \cup {"$(sourcefilename)"}
           D9 == D8 \cup {"$(outputfile)"}
           s1 == String_replace(<<c>>, "$(pname)", vars.PName)
           s2 == String_replace(s1, "$(pdir)", vars.PDir)
           s3 == String_replace(s2, "$(sdir)", vars.SDir)
           s4 == String_replace(s3, "$(wdir)", vars.WDir)
           s5 == String_replace(s4, "$(sfile)", vars.SFile)
           s6 == String_replace(s5, "$(ofile)", vars.OFile)
           s7 == String_replace(s6, "$(sourcefile)", vars.SourceFile)
           s8 == String_replace(s7, "$(sourcefilename)", vars.SourceFileName)
           s9 == String_replace(s8, "$(outputfile)", vars.OutputFile)
<1>a. replace(vars, <<c>>) = s9
  BY DEF replace
<1>b. c \in T /\ v \in Seq(Text) /\ \A token \in Variables : token \notin Text
  OBVIOUS
<1>v. /\ c = "$(pname)" => v = vars.PName
      /\ c = "$(pdir)" => v = vars.PDir
      /\ c = "$(sdir)" => v = vars.SDir
      /\ c = "$(wdir)" => v = vars.WDir
      /\ c = "$(sfile)" => v = vars.SFile
      /\ c = "$(ofile)" => v = vars.OFile
      /\ c = "$(sourcefile)" => v = vars.SourceFile
      /\ c = "$(sourcefilename)" => v = vars.SourceFileName
      /\ c = "$(outputfile)" => v = vars.OutputFile
  BY DEF Value
<1>t. /\ "$(pname)" \in Variables
      /\ "$(pdir)" \in Variables
      /\ "$(sdir)" \in Variables
      /\ "$(wdir)" \in Variables
      /\ "$(sfile)" \in Variables
      /\ "$(ofile)" \in Variables
      /\ "$(sourcefile)" \in Variables
      /\ "$(sourcefilename)" \in Variables
      /\ "$(outputfile)" \in Variables
  BY DEF Variables, OutputVariables, SourceVariables
<1>o. c \notin D9 => v = <<c>>
  BY DEF Value
<1> HIDE DEF v
<1>1. s1 = IF c \in D1 THEN v ELSE <<c>>
  <2>1. vars.PName \in Seq(T)
    BY DEF HasValues
  <2>2. "$(pname)" \notin Text /\ (c = "$(pname)" => v = vars.PName)
    BY <1>b, <1>v, <1>t
  <2> DEFINE D0 == {}
  <2>3. <<c>> = IF c \in D0 THEN v ELSE <<c>>
    OBVIOUS
  <2>4. D1 = D0 \cup {"$(pname)"}
    OBVIOUS
  <2> HIDE DEF D0, D1
  <2> QED
    BY <1>b, <2>1, <2>2, <2>3, <2>4, StageToken
<1>2. s2 = IF c \in D2 THEN v ELSE <<c>>
  <2>1. vars.PDir \in Seq(T)
    BY DEF HasValues
  <2>2. "$(pdir)" \notin Text /\ (c = "$(pdir)" => v = vars.PDir)
    BY <1>b, <1>v, <1>t
  <2> HIDE DEF s1, D1
  <2> QED
    BY <1>b, <2>1, <2>2, <1>1, StageToken
<1>3. s3 = IF c \in D3 THEN v ELSE <<c>>
  <2>1. vars.SDir \in Seq(T)
    BY DEF HasValues
  <2>2. "$(sdir)" \notin Text /\ (c = "$(sdir)" => v = vars.SDir)
    BY <1>b, <1>v, <1>t
  <2> HIDE DEF s2, D2
  <2> QED
    BY <1>b, <2>1, <2>2, <1>2, StageToken
<1>4. s4 = IF c \in D4 THEN v ELSE <<c>>
  <2>1. vars.WDir \in Seq(T)
    BY DEF HasValues
  <2>2. "$(wdir)" \notin Text /\ (c = "$(wdir)" => v = vars.WDir)
    BY <1>b, <1>v, <1>t
  <2> HIDE DEF s3, D3
  <2> QED
    BY <1>b, <2>1, <2>2, <1>3, StageToken
<1>5. s5 = IF c \in D5 THEN v ELSE <<c>>
  <2>1. vars.SFile \in Seq(T)
    BY DEF HasValues
  <2>2. "$(sfile)" \notin Text /\ (c = "$(sfile)" => v = vars.SFile)
    BY <1>b, <1>v, <1>t
  <2> HIDE DEF s4, D4
  <2> QED
    BY <1>b, <2>1, <2>2, <1>4, StageToken
<1>6. s6 = IF c \in D6 THEN v ELSE <<c>>
  <2>1. vars.OFile \in Seq(T)
    BY DEF HasValues
  <2>2. "$(ofile)" \notin Text /\ (c = "$(ofile)" => v = vars.OFile)
    BY <1>b, <1>v, <1>t
  <2> HIDE DEF s5, D5
  <2> QED
    BY <1>b, <2>1, <2>2, <1>5, StageToken
<1>7. s7 = IF c \in D7 THEN v ELSE <<c>>
  <2>1. vars.SourceFile \in Seq(T)
    BY DEF HasValues
  <2>2. "$(sourcefile)" \notin Text /\ (c = "$(sourcefile)" => v = vars.SourceFile)
    BY <1>b, <1>v, <1>t
  <2> HIDE DEF s6, D6
  <2> QED
    BY <1>b, <2>1, <2>2, <1>6, StageToken
<1>8. s8 = IF c \in D8 THEN v ELSE <<c>>
  <2>1. vars.SourceFileName \in Seq(T)
    BY DEF HasValues
  <2>2. "$(sourcefilename)" \notin Text /\ (c = "$(sourcefilename)" => v = vars.SourceFileName)
    BY <1>b, <1>v, <1>t
  <2> HIDE DEF s7, D7
  <2> QED
    BY <1>b, <2>1, <2>2, <1>7, StageToken
<1>9. s9 = IF c \in D9 THEN v ELSE <<c>>
  <2>1. vars.OutputFile \in Seq(T)
    BY DEF HasValues
  <2>2. "$(outputfile)" \notin Text /\ (c = "$(outputfile)" => v = vars.OutputFile)
    BY <1>b, <1>v, <1>t
  <2> HIDE DEF s8, D8
  <2> QED
    BY <1>b, <2>1, <2>2, <1>8, StageToken
<1> HIDE DEF s9, D9
<1> QED
  BY <1>a, <1>o, <1>9 DEF v

LEMMA CatLast ==
  ASSUME NEW T, NEW s \in Seq(T), NEW c \in T
  PROVE  Append(s, c) = Cat(s, <<c>>) /\ <<c>> \in Seq(T)
<1>1. Append(s, c) = s \o <<c>>
  BY AppendIsConcat
<1>2. <<c>> \in Seq(T)
  OBVIOUS
<1> QED
  BY <1>1, <1>2 DEF Cat

LEMMA CatType ==
  ASSUME NEW T
  PROVE  \A s, t \in Seq(T) : Cat(s, t) \in Seq(T)
BY ConcatProperties DEF Cat

LEMMA replaceEmpty == ASSUME NEW vars PROVE replace(vars, <<>>) = <<>>
BY ReplaceEmpty DEF replace

\* T has the texts and the variables.
Tokens(Text, T) == Text \subseteq T /\ Variables \subseteq T /\ Text \cap Variables = {}

LEMMA replacePlain ==
  ASSUME NEW Text, NEW T, Tokens(Text, T), NEW vars, HasValues(vars, T)
  PROVE  \A s \in Seq(Text) : replace(vars, s) = s
<1> DEFINE S == {s \in Seq(Text) : replace(vars, s) = s}
<1>1. <<>> \in S
  BY replaceEmpty, EmptySeq
<1>2. ASSUME NEW s \in Seq(Text), NEW c \in Text, s \in S PROVE Append(s, c) \in S
  <2> DEFINE one == <<c>>
  <2>1. s \in Seq(T) /\ one \in Seq(T) /\ <<c>> \in Seq(Text)
    BY SeqMonotonic DEF Tokens
  <2>2. replace(vars, Cat(s, one)) = Cat(replace(vars, s), replace(vars, one))
    <3> HIDE DEF one
    <3> QED
      BY <2>1, replacePiecewise
  <2>3. Value(vars, c) = <<c>>
    BY DEF Value, Tokens, Variables, OutputVariables, SourceVariables
  <2>4. replace(vars, <<c>>) = <<c>>
    BY <2>1, <2>3, replaceToken, ZenonT(30) DEF Tokens
  <2>5. Append(s, c) = Cat(s, <<c>>) /\ Append(s, c) \in Seq(Text)
    BY CatLast, AppendProperties
  <2>6. replace(vars, s) = s
    BY <1>2
  <2> QED
    BY <2>2, <2>4, <2>5, <2>6
<1> HIDE DEF S
<1>3. \A s \in Seq(Text) : s \in S
  BY <1>1, <1>2, SequenceInduction
<1> QED
  BY <1>3 DEF S

LEMMA replaceType ==
  ASSUME NEW Text, NEW T, Tokens(Text, T), NEW vars, HasValues(vars, T),
         NEW Used, Used \subseteq Variables, \A c \in Used : Value(vars, c) \in Seq(Text)
  PROVE  \A s \in Seq(Text \cup Used) : replace(vars, s) \in Seq(Text)
<1> DEFINE W == Text \cup Used
           S == {s \in Seq(W) : replace(vars, s) \in Seq(Text)}
<1>0. W \subseteq T /\ W \subseteq Text \cup Variables
  BY DEF Tokens
<1>a. \A c \in W : Value(vars, c) \in Seq(Text)
  <2> SUFFICES ASSUME NEW c \in Text PROVE Value(vars, c) \in Seq(Text)
    OBVIOUS
  <2>1. Value(vars, c) = <<c>>
    BY DEF Value, Tokens, Variables, OutputVariables, SourceVariables
  <2> QED
    BY <2>1
<1> HIDE DEF W
<1>1. <<>> \in S
  BY replaceEmpty, EmptySeq
<1>2. ASSUME NEW s \in Seq(W), NEW c \in W, s \in S PROVE Append(s, c) \in S
  <2> DEFINE one == <<c>>
  <2>1. s \in Seq(T) /\ one \in Seq(T)
    BY <1>0, SeqMonotonic
  <2>2. replace(vars, Cat(s, one)) = Cat(replace(vars, s), replace(vars, one))
    <3> HIDE DEF one
    <3> QED
      BY <2>1, replacePiecewise
  <2>3. Value(vars, c) \in Seq(Text)
    BY <1>a
  <2>4. replace(vars, <<c>>) = Value(vars, c)
    BY <1>0, <2>3, replaceToken DEF Tokens
  <2>5. Append(s, c) = Cat(s, <<c>>) /\ Append(s, c) \in Seq(W)
    BY CatLast, AppendProperties
  <2>6. replace(vars, s) \in Seq(Text)
    BY <1>2
  <2>7. replace(vars, Append(s, c)) \in Seq(Text)
    BY <2>2, <2>3, <2>4, <2>5, <2>6, CatType
  <2> QED
    BY <2>5, <2>7
<1> HIDE DEF S
<1>3. \A s \in Seq(W) : s \in S
  BY <1>1, <1>2, SequenceInduction
<1> QED
  BY <1>3 DEF S, W

\* The path of the project becomes $(pdir) and then the work directory: that is
\* to put the work directory in its place, as a plain text has no $(pdir).
LEMMA ThereAndBack ==
  ASSUME NEW Text, NEW T, Tokens(Text, T), NEW path \in Text, NEW work \in Seq(Text)
  PROVE  \A s \in Seq(Text) :
           String_replace(String_replace(s, path, <<"$(pdir)">>), "$(pdir)", work)
             = String_replace(s, path, work)
<1> DEFINE pdir  == <<"$(pdir)">>
           to(s)   == String_replace(s, path, pdir)
           back(s) == String_replace(s, "$(pdir)", work)
           move(s) == String_replace(s, path, work)
           S == {s \in Seq(Text) : back(to(s)) = move(s)}
<1>0. /\ "$(pdir)" \in T /\ "$(pdir)" \notin Text /\ pdir \in Seq(T) /\ work \in Seq(T) /\ path \in T
      /\ \A s \in Seq(Text) : s \in Seq(T)
  <2>1. "$(pdir)" \in Variables
    BY DEF Variables, OutputVariables, SourceVariables
  <2> QED
    BY <2>1, SeqMonotonic DEF Tokens
<1>p. Piecewise(T, path, pdir) /\ Piecewise(T, "$(pdir)", work) /\ Piecewise(T, path, work)
  BY <1>0, ReplacePiecewise
<1>1. <<>> \in S
  BY ReplaceEmpty, EmptySeq
<1>2. ASSUME NEW s \in Seq(Text), NEW c \in Text, s \in S PROVE Append(s, c) \in S
  <2> DEFINE one == <<c>>
  <2>1. s \in Seq(T) /\ one \in Seq(T) /\ c \in T
    BY <1>0 DEF Tokens
  <2>2. to(one) = Image(c, path, pdir) /\ move(one) = Image(c, path, work)
    BY <1>0, <2>1, ReplaceOne
  <2>3. back(pdir) = work
    BY <1>0, ReplaceOne DEF Image
  <2>4. back(one) = one
    <3>1. back(one) = Image(c, "$(pdir)", work)
      BY <1>0, <2>1, ReplaceOne
    <3> QED
      BY <1>0, <3>1 DEF Image
  <2>5. back(to(one)) = move(one)
    BY <2>2, <2>3, <2>4 DEF Image
  <2>6. Append(s, c) = Cat(s, one) /\ Append(s, c) \in Seq(Text)
    BY CatLast, AppendProperties
  <2>7. back(to(s)) = move(s)
    BY <1>2
  <2> HIDE DEF one, pdir
  <2>8. to(Cat(s, one)) = Cat(to(s), to(one)) /\ move(Cat(s, one)) = Cat(move(s), move(one))
        /\ to(s) \in Seq(T) /\ to(one) \in Seq(T)
    BY <1>p, <2>1 DEF Piecewise
  <2>9. back(Cat(to(s), to(one))) = Cat(back(to(s)), back(to(one)))
    <3> HIDE DEF to
    <3> QED
      BY <1>p, <2>8 DEF Piecewise
  <2> QED
    BY <2>5, <2>6, <2>7, <2>8, <2>9
<1> HIDE DEF S
<1>3. \A s \in Seq(Text) : s \in S
  BY <1>1, <1>2, SequenceInduction
<1> QED
  BY <1>3 DEF S

LEMMA ValueType ==
  ASSUME NEW Text, NEW vars, HasValues(vars, Text), NEW c \in Text \cup Variables
  PROVE  Value(vars, c) \in Seq(Text)
<1>1. c \in Variables \/ c \in Text
  OBVIOUS
<1>2. CASE c = "$(pname)"
  BY <1>2 DEF Value, HasValues
<1>3. CASE c = "$(pdir)"
  BY <1>3 DEF Value, HasValues
<1>4. CASE c = "$(sdir)"
  BY <1>4 DEF Value, HasValues
<1>5. CASE c = "$(wdir)"
  BY <1>5 DEF Value, HasValues
<1>6. CASE c = "$(sfile)"
  BY <1>6 DEF Value, HasValues
<1>7. CASE c = "$(ofile)"
  BY <1>7 DEF Value, HasValues
<1>8. CASE c = "$(sourcefile)"
  BY <1>8 DEF Value, HasValues
<1>9. CASE c = "$(sourcefilename)"
  BY <1>9 DEF Value, HasValues
<1>10. CASE c = "$(outputfile)"
  BY <1>10 DEF Value, HasValues
<1>11. CASE c \notin Variables
  <2>1. Value(vars, c) = <<c>>
    BY <1>11 DEF Value, Variables, OutputVariables, SourceVariables
  <2> QED
    BY <1>1, <1>11, <2>1
<1> QED
  BY <1>2, <1>3, <1>4, <1>5, <1>6, <1>7, <1>8, <1>9, <1>10, <1>11
    DEF Variables, OutputVariables, SourceVariables

\* To move the project is to move what is substituted and to substitute it.
LEMMA MoveReplaced ==
  ASSUME NEW Text, NEW T, Tokens(Text, T), NEW path \in Text, NEW work \in Seq(Text),
         NEW vars, HasValues(vars, Text), NEW moved, HasValues(moved, Text),
         \A c \in Variables : Value(moved, c) = String_replace(Value(vars, c), path, work)
  PROVE  \A s \in Seq(Text \cup Variables) :
           String_replace(replace(vars, s), path, work) = replace(moved, String_replace(s, path, work))
<1> DEFINE W == Text \cup Variables
           move(s) == String_replace(s, path, work)
           S == {s \in Seq(W) : move(replace(vars, s)) = replace(moved, move(s))}
<1>0. /\ path \in W /\ work \in Seq(W) /\ path \notin Variables /\ Tokens(Text, W)
      /\ \A s \in Seq(Text) : s \in Seq(W)
  BY SeqMonotonic DEF Tokens
<1>v. HasValues(vars, W) /\ HasValues(moved, W)
  <2> HIDE DEF W
  <2> QED
    BY <1>0 DEF HasValues
<1>t. \A c \in W : Value(vars, c) \in Seq(Text) /\ Value(moved, c) \in Seq(Text)
  BY ValueType
<1>p. Piecewise(W, path, work)
  <2> HIDE DEF W
  <2> QED
    BY <1>0, ReplacePiecewise
<1>1. <<>> \in S
  BY replaceEmpty, ReplaceEmpty, EmptySeq
<1>2. ASSUME NEW s \in Seq(W), NEW c \in W, s \in S PROVE Append(s, c) \in S
  <2> DEFINE one == <<c>>
  <2>1. one \in Seq(W) /\ Append(s, c) = Cat(s, one) /\ Append(s, c) \in Seq(W)
    <3> HIDE DEF W
    <3> QED
      BY CatLast, AppendProperties
  <2>2. replace(vars, one) = Value(vars, c) /\ replace(moved, one) = Value(moved, c)
    <3>1. c \in Text \cup Variables /\ Value(vars, c) \in Seq(Text) /\ Value(moved, c) \in Seq(Text)
      BY <1>t
    <3> HIDE DEF W
    <3> QED
      BY <1>0, <1>v, <3>1, replaceToken DEF Tokens
  <2>3. move(one) = Image(c, path, work)
    <3> HIDE DEF W
    <3> QED
      BY <1>0, ReplaceOne
  <2>4. move(replace(vars, one)) = replace(moved, move(one))
    <3>1. CASE c \in Variables
      <4>1. move(one) = one
        BY <1>0, <2>3, <3>1 DEF Image
      <4> QED
        BY <2>2, <3>1, <4>1
    <3>2. CASE c \in Text
      <4>1. replace(vars, one) = one
        BY <2>2, <3>2 DEF Value, Tokens, Variables, OutputVariables, SourceVariables
      <4>2. Image(c, path, work) \in Seq(Text)
        BY <3>2 DEF Image
      <4>3. replace(moved, move(one)) = move(one)
        <5> HIDE DEF W, move
        <5> QED
          BY <1>0, <1>v, <2>3, <4>2, replacePlain
      <4> QED
        BY <4>1, <4>3
    <3> QED
      BY <3>1, <3>2
  <2>5. move(replace(vars, s)) = replace(moved, move(s))
    BY <1>2
  <2> HIDE DEF one, W, move
  <2>6. /\ replace(vars, s) \in Seq(W) /\ replace(vars, one) \in Seq(W)
        /\ replace(vars, Cat(s, one)) = Cat(replace(vars, s), replace(vars, one))
    BY <1>v, <2>1, replacePiecewise
  <2>7. /\ move(s) \in Seq(W) /\ move(one) \in Seq(W)
        /\ move(Cat(s, one)) = Cat(move(s), move(one))
        /\ move(Cat(replace(vars, s), replace(vars, one)))
             = Cat(move(replace(vars, s)), move(replace(vars, one)))
    BY <1>p, <2>1, <2>6 DEF Piecewise, move
  <2>8. replace(moved, Cat(move(s), move(one))) = Cat(replace(moved, move(s)), replace(moved, move(one)))
    BY <1>v, <2>7, replacePiecewise
  <2>9. move(replace(vars, Append(s, c))) = replace(moved, move(Append(s, c)))
    BY <2>1, <2>4, <2>5, <2>6, <2>7, <2>8
  <2> QED
    BY <2>1, <2>9
<1> HIDE DEF S, W
<1>3. \A s \in Seq(W) : s \in S
  BY <1>1, <1>2, SequenceInduction
<1> QED
  BY <1>3 DEF S, W

-----------------------------------------------------------------------------
(***************************************************************************)
(* The last separator or star of a string, and the parts of a string.      *)
(***************************************************************************)
LEMMA MaxInInterval ==
  ASSUME NEW n \in Nat, NEW I \in SUBSET (1 .. n), I # {}
  PROVE  Max(I) \in I /\ \A i \in I : i <= Max(I)
<1> DEFINE B == {k \in Nat : \A i \in I : i <= k}
<1>1. n \in B /\ B \in SUBSET Nat
  OBVIOUS
<1>2. PICK m \in B : \A k \in B : m <= k
  BY <1>1, LeastNumber
<1>3. m \in I
  <2> SUFFICES ASSUME m \notin I PROVE FALSE
    OBVIOUS
  <2>1. \A i \in I : i <= m - 1 /\ i >= 1
    BY <1>2
  <2>2. PICK j \in I : j >= 1 /\ j <= m - 1
    BY <2>1
  <2>3. m - 1 \in Nat
    BY <1>2, <2>2
  <2>4. m - 1 \in B
    BY <2>1, <2>3
  <2> QED
    BY <1>2, <2>4
<1>4. \E x \in I : \A y \in I : x >= y
  BY <1>2, <1>3
<1>5. Max(I) \in I /\ \A y \in I : Max(I) >= y
  BY <1>4, Zenon DEF Max
<1> QED
  BY <1>5

LEMMA LastSlashType ==
  ASSUME NEW T, NEW str \in Seq(T)
  PROVE  LastSlash(str) \in 0 .. Len(str)
<1> DEFINE I == {i \in 1 .. Len(str) : str[i] = "\\"}
<1>1. LastSlash(str) = IF I # {} THEN Max(I) ELSE 0
  BY DEF LastSlash, SelectLastInSeq
<1>2. Len(str) \in Nat /\ I \in SUBSET (1 .. Len(str))
  BY LenProperties
<1> HIDE DEF I
<1>3. I # {} => Max(I) \in I
  BY <1>2, MaxInInterval
<1>4. \A i \in I : i \in 0 .. Len(str)
  BY <1>2
<1>5. CASE I = {}
  BY <1>1, <1>2, <1>5
<1>6. CASE I # {}
  <2>1. LastSlash(str) \in I
    BY <1>1, <1>3, <1>6
  <2> QED
    BY <1>4, <2>1
<1> QED
  BY <1>5, <1>6

LEMMA PartType ==
  ASSUME NEW T, NEW str \in Seq(T), NEW m \in Int, NEW n \in Int, 1 <= m, n <= Len(str)
  PROVE  SubSeq(str, m, n) \in Seq(T)
<1>1. \A i \in m .. n : str[i] \in T
  BY ElementOfSeq, LenProperties
<1> QED
  BY <1>1, SubSeqProperties

LEMMA RawFilenameType ==
  ASSUME NEW T, NEW path \in Seq(T)
  PROVE  RawFilename(path) \in Seq(T)
<1>1. LastSlash(path) \in 0 .. Len(path) /\ Len(path) \in Nat
  BY LastSlashType, LenProperties
<1> QED
  BY <1>1, PartType DEF RawFilename

-----------------------------------------------------------------------------
(***************************************************************************)
(* The table is a sequence, loadConfig's counter is its length, and every  *)
(* record has the id of its place and the name of a known project.         *)
(***************************************************************************)
Placed(i) == tasks[i].message.id = i /\ tasks[i].message.project \in DOMAIN Path

TableInv ==
  /\ id \in Nat
  /\ tasks = [i \in 1 .. id |-> tasks[i]]
  /\ \A i \in 1 .. id : Placed(i)

\* A directory that exists has finitely many entries.
LEMMA EntriesFinite ==
  ASSUME NEW dir \in DOMAIN Directory
  PROVE  IsFiniteSet(Entries(dir))
<1> DEFINE f == [name \in Directory[dir] |-> Entry(dir, name)]
<1>1. f \in Surjection(Directory[dir], Entries(dir))
  BY DEF Surjection, Entries
<1>2. IsFiniteSet(Directory[dir])
  BY BuildSetAssumption
<1> QED
  BY <1>1, <1>2, FS_Surjection

\* The source files of an element are a sequence, also those of a wildcard, in
\* whatever order the operating system lists them.
LEMMA SourcesAreSequences ==
  ASSUME NEW element, NEW vars, ~Throws(element, vars), NEW sources \in Sources(element, vars)
  PROVE  Len(sources) \in Nat /\ DOMAIN sources = 1 .. Len(sources)
<1> DEFINE str   == replace(vars, element.SourceFile)
           paths == {path \in Entries(Dir(str)) : IsSuffix(Mask(str), path)}
<1>1. CASE IsWildcard(element)
  <2>1. Dir(str) \in DOMAIN Directory
    BY <1>1 DEF Throws
  <2>2. IsFiniteSet(Entries(Dir(str)))
    BY <2>1, EntriesFinite
  <2>3. IsFiniteSet(paths)
    BY <2>2, FS_Subset
  <2>4. Cardinality(paths) \in Nat
    BY <2>3, FS_CardinalityType
  <2>5. sources \in SetToSeqs(paths)
    BY <1>1 DEF Sources
  <2> HIDE DEF paths
  <2>6. sources \in [1 .. Cardinality(paths) -> paths]
    BY <2>5 DEF SetToSeqs
  <2>7. sources \in Seq(paths) /\ Len(sources) = Cardinality(paths)
    BY <2>4, <2>6
  <2> QED
    BY <2>4, <2>6, <2>7
<1>2. CASE ~IsWildcard(element)
  <2>1. sources = <<element.SourceFile>>
    BY <1>2 DEF Sources
  <2> QED
    BY <2>1
<1> QED
  BY <1>1, <1>2

\* The record made of a source file: its id, and the project it belongs to.
LEMMA GeneratedRecord ==
  ASSUME NEW element, NEW name, NEW source, NEW n
  PROVE  LET m == TaskInfo(n, TaskVars(element, ProjectVars(name), source), element).message
         IN  m.id = n /\ m.project = name
<1> DEFINE vars == ProjectVars(name)
           v1   == NewVars(element, vars, source)
           v2   == WithSource(v1)
           v3   == TaskVars(element, vars, source)
<1>1. vars.PName = <<name>>
  BY DEF ProjectVars
<1>2. v1.PName = vars.PName
  BY DEF NewVars, ProjectVars
<1>3. v2.PName = v1.PName
  BY DEF WithSource, NewVars, ProjectVars
<1>4. v3.PName = v2.PName
  BY DEF TaskVars, WithSource, NewVars, ProjectVars
<1>5. v3.PName[1] = name
  BY <1>1, <1>2, <1>3, <1>4
<1> HIDE DEF v3
<1>6. TaskInfo(n, v3, element).message.id = n /\ TaskInfo(n, v3, element).message.project = v3.PName[1]
  BY DEF TaskInfo, Message
<1> QED
  BY <1>5, <1>6 DEF v3

\* Every Task element adds its records at the end of the table, with the ids
\* that follow.
LEMMA NextTaskAppends ==
  ASSUME TableInv, NextTask,
         NEW element, element = buildSet[project].tasks[task],
         NEW vars, vars = ProjectVars(buildSet[project].name), ~Throws(element, vars)
  PROVE  \E sources \in Sources(element, vars) :
           /\ Len(sources) \in Nat /\ DOMAIN sources = 1 .. Len(sources) /\ id' = id + Len(sources)
           /\ tasks' = [i \in 1 .. id' |-> tasks'[i]]
           /\ \A i \in 1 .. id : tasks'[i] = tasks[i]
           /\ \A i \in 1 .. id' : i \notin 1 .. id =>
                /\ i - id \in 1 .. Len(sources)
                /\ tasks'[i] = TaskInfo(i, TaskVars(element, vars, sources[i - id]), element)
<1>1. PICK sources \in Sources(element, vars) :
        /\ tasks' = tasks \o taskGenerator(element, vars, sources)
        /\ id' = id + Len(sources)
  BY DEF NextTask
<1>2. Len(sources) \in Nat /\ DOMAIN sources = 1 .. Len(sources)
  BY <1>1, SourcesAreSequences
<1> DEFINE new == taskGenerator(element, vars, sources)
           S   == {tasks[i] : i \in 1 .. id} \cup {new[i] : i \in 1 .. Len(sources)}
<1>3. \A i \in 1 .. Len(sources) :
        new[i] = TaskInfo(id + i, TaskVars(element, vars, sources[i]), element)
  BY <1>2 DEF taskGenerator, TaskId
<1>4. new = [i \in 1 .. Len(sources) |-> new[i]]
  BY <1>2 DEF taskGenerator
<1> HIDE DEF new
<1>5. /\ tasks \in Seq(S) /\ Len(tasks) = id
      /\ new \in Seq(S) /\ Len(new) = Len(sources)
  <2>1. id \in Nat /\ tasks \in [1 .. id -> S]
    BY DEF TableInv
  <2>2. new \in [1 .. Len(sources) -> S]
    BY <1>4
  <2> HIDE DEF S
  <2> QED
    BY <1>2, <2>1, <2>2
<1> HIDE DEF S
<1>6. /\ tasks' \in Seq(S) /\ Len(tasks') = id'
      /\ \A i \in 1 .. id' : tasks'[i] = IF i <= id THEN tasks[i] ELSE new[i - id]
  BY <1>1, <1>5, ConcatProperties DEF new
<1>7. id \in Nat /\ id' \in Nat /\ id' = id + Len(sources)
  BY <1>1, <1>2 DEF TableInv
<1>8. tasks' = [i \in 1 .. id' |-> tasks'[i]]
  BY <1>6
<1>9. \A i \in 1 .. id : tasks'[i] = tasks[i]
  BY <1>2, <1>6, <1>7
<1>10. ASSUME NEW i \in 1 .. id', i \notin 1 .. id
       PROVE  /\ i - id \in 1 .. Len(sources)
              /\ tasks'[i] = TaskInfo(i, TaskVars(element, vars, sources[i - id]), element)
  <2>1. i - id \in 1 .. Len(sources) /\ id + (i - id) = i /\ ~(i <= id)
    BY <1>2, <1>7, <1>10
  <2>2. tasks'[i] = new[i - id]
    BY <1>6, <2>1
  <2> QED
    BY <1>3, <2>1, <2>2
<1> QED
  BY <1>1, <1>2, <1>8, <1>9, <1>10

LEMMA NextTaskKeepsTable ==
  ASSUME TableInv, NextTask
  PROVE  TableInv'
<1> DEFINE element == buildSet[project].tasks[task]
           name    == buildSet[project].name
           vars    == ProjectVars(name)
<1>1. CASE Throws(element, vars)
  <2>1. UNCHANGED <<id, tasks>>
    BY <1>1 DEF NextTask
  <2> QED
    BY <2>1 DEF TableInv, Placed
<1>2. CASE ~Throws(element, vars)
  <2>1. PICK sources \in Sources(element, vars) :
          /\ Len(sources) \in Nat /\ id' = id + Len(sources)
          /\ tasks' = [i \in 1 .. id' |-> tasks'[i]]
          /\ \A i \in 1 .. id : tasks'[i] = tasks[i]
          /\ \A i \in 1 .. id' : i \notin 1 .. id =>
               tasks'[i] = TaskInfo(i, TaskVars(element, vars, sources[i - id]), element)
    BY <1>2, NextTaskAppends
  <2>2. name \in DOMAIN Path
    BY DEF NextTask, Known
  <2> HIDE DEF element, name
  <2>3. ASSUME NEW i \in 1 .. id'
        PROVE  tasks'[i].message.id = i /\ tasks'[i].message.project \in DOMAIN Path
    <3>1. CASE i \in 1 .. id
      BY <2>1, <3>1 DEF TableInv, Placed
    <3>2. CASE i \notin 1 .. id
      <4>1. tasks'[i] = TaskInfo(i, TaskVars(element, ProjectVars(name), sources[i - id]), element)
        BY <2>1, <3>2
      <4>2. tasks'[i].message.id = i /\ tasks'[i].message.project = name
        BY <4>1, GeneratedRecord
      <4> QED
        BY <2>2, <4>2
    <3> QED
      BY <3>1, <3>2
  <2>4. id' \in Nat
    BY <2>1 DEF TableInv
  <2> QED
    BY <2>1, <2>3, <2>4 DEF TableInv, Placed
<1> QED
  BY <1>1, <1>2

\* The ids of the table are 1, 2, 3 and so on for every build set, whatever
\* projects are skipped, however many files a wildcard finds and in whatever
\* order, and every task is of a project the console knows: what FdbProtocol
\* takes for granted of the tasks.
THEOREM IdsAreDenseHolds == BsSpec => []IdsAreDense
<1>1. BsInit => TableInv
  BY DEF BsInit, TableInv
<1>2. TableInv /\ [BsNext]_bsVars => TableInv'
  <2> SUFFICES ASSUME TableInv, [BsNext]_bsVars PROVE TableInv'
    OBVIOUS
  <2>1. CASE UNCHANGED <<id, tasks>>
    BY <2>1 DEF TableInv, Placed
  <2> QED
    BY <2>1, NextTaskKeepsTable DEF BsNext, bsVars, LoadFails, NextProject, Loaded
<1>3. TableInv => IdsAreDense
  <2> SUFFICES ASSUME TableInv, NEW i \in DOMAIN tasks
               PROVE  tasks[i].message.id = i /\ tasks[i].message.project \in DOMAIN Path
    BY DEF IdsAreDense
  <2>1. i \in 1 .. id
    BY DEF TableInv
  <2> QED
    BY <2>1 DEF TableInv, Placed
<1> QED
  BY <1>1, <1>2, <1>3, PTL DEF BsSpec

-----------------------------------------------------------------------------
(***************************************************************************)
(* The variables of a task.  v1, v2 and v3 of these lemmas are m_vars as   *)
(* the task is created, after step 1 and after step 2.                     *)
(***************************************************************************)
LEMMA TaskVarsFields ==
  ASSUME NEW element, NEW name, NEW source,
         NEW v1, v1 = NewVars(element, ProjectVars(name), source),
         NEW v2, v2 = WithSource(v1),
         NEW v3, v3 = TaskVars(element, ProjectVars(name), source)
  PROVE  /\ v1.PName = <<name>> /\ v1.PDir = <<Path[name]>> /\ v1.SDir = Options.SDir
         /\ v1.WDir = Options.WDir /\ v1.SFile = Options.SFile /\ v1.OFile = Options.OFile
         /\ v1.SourceFile = source /\ v1.SourceFileName = <<>> /\ v1.OutputFile = element.OutputFile
         /\ v2.PName = <<name>> /\ v2.PDir = <<Path[name]>> /\ v2.SDir = Options.SDir
         /\ v2.WDir = Options.WDir /\ v2.SFile = Options.SFile /\ v2.OFile = Options.OFile
         /\ v2.SourceFile = replace(v1, source) /\ v2.SourceFileName = RawFilename(replace(v1, source))
         /\ v2.OutputFile = element.OutputFile
         /\ v3.PName = <<name>> /\ v3.PDir = <<Path[name]>> /\ v3.SDir = Options.SDir
         /\ v3.WDir = Options.WDir /\ v3.SFile = Options.SFile /\ v3.OFile = Options.OFile
         /\ v3.SourceFile = v2.SourceFile /\ v3.SourceFileName = v2.SourceFileName
         /\ v3.OutputFile = replace(v2, element.OutputFile)
<1>1. v1 = [PName |-> <<name>>, PDir |-> <<Path[name]>>,
            SDir |-> Options.SDir, ODir |-> Options.ODir, WDir |-> Options.WDir,
            SFile |-> Options.SFile, OFile |-> Options.OFile,
            SourceFile |-> source, SourceFileName |-> <<>>, OutputFile |-> element.OutputFile]
  BY DEF NewVars, ProjectVars
<1> DEFINE file == replace(v1, source)
           raw  == RawFilename(file)
<1>2. v2 = [v1 EXCEPT !.SourceFile = file, !.SourceFileName = raw]
  BY <1>1 DEF WithSource
<1> HIDE DEF file, raw
<1>3. v2 = [PName |-> <<name>>, PDir |-> <<Path[name]>>,
            SDir |-> Options.SDir, ODir |-> Options.ODir, WDir |-> Options.WDir,
            SFile |-> Options.SFile, OFile |-> Options.OFile,
            SourceFile |-> file, SourceFileName |-> raw, OutputFile |-> element.OutputFile]
  <2> DEFINE w == [v1 EXCEPT !.SourceFile = file]
  <2>1. w = [PName |-> <<name>>, PDir |-> <<Path[name]>>,
             SDir |-> Options.SDir, ODir |-> Options.ODir, WDir |-> Options.WDir,
             SFile |-> Options.SFile, OFile |-> Options.OFile,
             SourceFile |-> file, SourceFileName |-> <<>>, OutputFile |-> element.OutputFile]
    BY <1>1
  <2>2. v2 = [w EXCEPT !.SourceFileName = raw]
    BY <1>2
  <2> HIDE DEF w
  <2> QED
    BY <2>1, <2>2
<1> DEFINE out == replace(v2, element.OutputFile)
<1>4. v3 = [v2 EXCEPT !.OutputFile = out]
  BY <1>3 DEF TaskVars, OutputName
<1> HIDE DEF out
<1>5. v3 = [PName |-> <<name>>, PDir |-> <<Path[name]>>,
            SDir |-> Options.SDir, ODir |-> Options.ODir, WDir |-> Options.WDir,
            SFile |-> Options.SFile, OFile |-> Options.OFile,
            SourceFile |-> file, SourceFileName |-> raw, OutputFile |-> out]
  BY <1>3, <1>4
<1>6. /\ v1.PName = <<name>> /\ v1.PDir = <<Path[name]>> /\ v1.SDir = Options.SDir
      /\ v1.WDir = Options.WDir /\ v1.SFile = Options.SFile /\ v1.OFile = Options.OFile
      /\ v1.SourceFile = source /\ v1.SourceFileName = <<>> /\ v1.OutputFile = element.OutputFile
  BY <1>1
<1>7. /\ v2.PName = <<name>> /\ v2.PDir = <<Path[name]>> /\ v2.SDir = Options.SDir
      /\ v2.WDir = Options.WDir /\ v2.SFile = Options.SFile /\ v2.OFile = Options.OFile
      /\ v2.SourceFile = file /\ v2.SourceFileName = raw /\ v2.OutputFile = element.OutputFile
  BY <1>3
<1>8. /\ v3.PName = <<name>> /\ v3.PDir = <<Path[name]>> /\ v3.SDir = Options.SDir
      /\ v3.WDir = Options.WDir /\ v3.SFile = Options.SFile /\ v3.OFile = Options.OFile
      /\ v3.SourceFile = file /\ v3.SourceFileName = raw /\ v3.OutputFile = out
  BY <1>5
<1> QED
  BY <1>6, <1>7, <1>8 DEF file, raw, out

\* An element of a build set, in a project of that name.
OfBuildSet(name, element) ==
  \E bs \in BuildSets : \E p \in DOMAIN bs :
    bs[p].name = name /\ \E k \in DOMAIN bs[p].tasks : bs[p].tasks[k] = element

LEMMA ElementType ==
  ASSUME NEW Text, WellFormed(Text), NEW name, NEW element, OfBuildSet(name, element)
  PROVE  /\ name \in Text /\ element \in Elements(Text) /\ element \in AllElements
         /\ element.SourceFile \in Seq(Text \cup SourceVariables)
         /\ element.OutputFile \in Seq(Text \cup OutputVariables)
         /\ element.Params \in Seq(Text \cup Variables)
<1>0. PICK bs \in BuildSets : \E p \in DOMAIN bs :
        bs[p].name = name /\ \E k \in DOMAIN bs[p].tasks : bs[p].tasks[k] = element
  BY DEF OfBuildSet
<1>1. PICK p \in DOMAIN bs :
        bs[p].name = name /\ \E k \in DOMAIN bs[p].tasks : bs[p].tasks[k] = element
  BY <1>0
<1>2. PICK k \in DOMAIN bs[p].tasks : bs[p].tasks[k] = element
  BY <1>1
<1> DEFINE P == [name : Text, tasks : Seq(Elements(Text))]
<1>3. bs \in Seq(P)
  BY DEF WellFormed
<1>4. bs[p] \in P
  <2> HIDE DEF P
  <2> QED
    BY <1>3, LenProperties, ElementOfSeq
<1>5. bs[p].name \in Text /\ bs[p].tasks \in Seq(Elements(Text))
  BY <1>4
<1>6. bs[p].tasks[k] \in Elements(Text)
  BY <1>5, LenProperties, ElementOfSeq
<1>7. element \in Range(bs[p].tasks)
  BY <1>2 DEF Range
<1>8. element \in AllElements
  BY <1>7 DEF AllElements
<1>9. element \in Elements(Text)
  BY <1>2, <1>6
<1>10. /\ element.SourceFile \in Seq(Text \cup SourceVariables)
       /\ element.OutputFile \in Seq(Text \cup OutputVariables)
       /\ element.Params \in Seq(Text \cup Variables)
  BY <1>9 DEF Elements
<1> QED
  BY <1>1, <1>5, <1>8, <1>9, <1>10

\* A source file of an element, as Sources has them.
IsSource(element, name, source) ==
  LET str == replace(ProjectVars(name), element.SourceFile)
  IN  IF IsWildcard(element)
      THEN Dir(str) \in DOMAIN Directory /\ source \in Entries(Dir(str)) /\ IsSuffix(Mask(str), source)
      ELSE source = element.SourceFile

LEMMA ProjectVarsValues ==
  ASSUME NEW Text, WellFormed(Text), NEW name \in DOMAIN Path, name \in Text
  PROVE  HasValues(ProjectVars(name), Text)
<1>1. Path[name] \in Text
  BY DEF WellFormed
<1>2. /\ Options.SDir \in Seq(Text) /\ Options.WDir \in Seq(Text)
      /\ Options.SFile \in Seq(Text) /\ Options.OFile \in Seq(Text)
  BY DEF WellFormed
<1>3. <<name>> \in Seq(Text) /\ <<Path[name]>> \in Seq(Text) /\ <<>> \in Seq(Text)
  BY <1>1
<1> QED
  BY <1>2, <1>3 DEF HasValues, ProjectVars

\* The string of which the directory and the mask of a wildcard are parts.
LEMMA PatternType ==
  ASSUME NEW Text, WellFormed(Text), NEW name \in DOMAIN Path, NEW element, OfBuildSet(name, element)
  PROVE  replace(ProjectVars(name), element.SourceFile) \in Seq(Text)
<1> DEFINE vars == ProjectVars(name)
           T    == Text \cup Variables
<1>1. name \in Text /\ element.SourceFile \in Seq(Text \cup SourceVariables)
  BY ElementType
<1>2. HasValues(vars, Text)
  BY <1>1, ProjectVarsValues
<1>3. \A c \in SourceVariables : Value(vars, c) \in Seq(Text)
  <2> HIDE DEF vars
  <2> QED
    BY <1>2, ValueType DEF Variables, OutputVariables
<1>4. Tokens(Text, T) /\ \A s \in Seq(Text) : s \in Seq(T)
  BY SeqMonotonic DEF Tokens, WellFormed
<1>5. SourceVariables \subseteq Variables
  BY DEF Variables, OutputVariables
<1> HIDE DEF vars, T
<1>6. HasValues(vars, T)
  BY <1>2, <1>4 DEF HasValues
<1> QED
  BY <1>1, <1>3, <1>4, <1>5, <1>6, replaceType DEF vars

LEMMA DirType ==
  ASSUME NEW Text, {"\\", "."} \subseteq Text, NEW str \in Seq(Text)
  PROVE  Dir(str) \in Seq(Text)
<1>1. LastSlash(str) \in 0 .. Len(str) /\ Len(str) \in Nat
  BY LastSlashType, LenProperties
<1>2. SubSeq(str, 1, LastSlash(str) - 1) \in Seq(Text)
  BY <1>1, PartType
<1>3. <<".", "\\">> \in Seq(Text)
  OBVIOUS
<1> QED
  BY <1>2, <1>3 DEF Dir

LEMMA EntryType ==
  ASSUME NEW Text, {"\\", "."} \subseteq Text, NEW dir \in Seq(Text), NEW file \in Seq(Text)
  PROVE  Entry(dir, file) \in Seq(Text)
<1>0. <<"\\">> \in Seq(Text)
  OBVIOUS
<1>1. PICK slash \in Seq(Text) : slash = <<"\\">>
  BY <1>0
<1>2. dir \o slash \in Seq(Text)
  BY ConcatProperties
<1>3. (dir \o slash) \o file \in Seq(Text)
  BY <1>2, ConcatProperties
<1>4. dir \o file \in Seq(Text)
  BY ConcatProperties
<1> QED
  BY <1>1, <1>3, <1>4 DEF Entry

LEMMA SourceType ==
  ASSUME NEW Text, WellFormed(Text), NEW name \in DOMAIN Path, NEW element, OfBuildSet(name, element),
         NEW source, IsSource(element, name, source)
  PROVE  /\ source \in Seq(Text \cup SourceVariables)
         /\ IsWildcard(element) => source \in Seq(Text)
<1> DEFINE str == replace(ProjectVars(name), element.SourceFile)
<1>1. element.SourceFile \in Seq(Text \cup SourceVariables)
  BY ElementType
<1>2. str \in Seq(Text) /\ {"\\", "."} \subseteq Text
  BY PatternType DEF WellFormed
<1>3. ASSUME IsWildcard(element) PROVE source \in Seq(Text)
  <2>1. Dir(str) \in DOMAIN Directory /\ source \in Entries(Dir(str))
    BY <1>3 DEF IsSource
  <2> HIDE DEF str
  <2>2. PICK file \in Directory[Dir(str)] : source = Entry(Dir(str), file)
    BY <2>1 DEF Entries
  <2>3. file \in Seq(Text)
    BY <2>1, <2>2 DEF WellFormed
  <2>4. Dir(str) \in Seq(Text)
    BY <1>2, DirType
  <2> QED
    BY <1>2, <2>2, <2>3, <2>4, EntryType
<1>4. CASE IsWildcard(element)
  BY <1>3, <1>4, SeqMonotonic
<1>5. CASE ~IsWildcard(element)
  BY <1>1, <1>5 DEF IsSource
<1> QED
  BY <1>3, <1>4, <1>5

\* The values of a task's variables are plain texts, and the source file of a
\* wildcard is the file that was found.
LEMMA TaskValues ==
  ASSUME NEW Text, WellFormed(Text), NEW name \in DOMAIN Path, NEW element, OfBuildSet(name, element),
         NEW source, IsSource(element, name, source),
         NEW vars, vars = TaskVars(element, ProjectVars(name), source)
  PROVE  /\ HasValues(vars, Text) /\ vars.PName = <<name>> /\ vars.PDir = <<Path[name]>>
         /\ IsWildcard(element) => vars.SourceFile = source
<1> DEFINE v1 == NewVars(element, ProjectVars(name), source)
           v2 == WithSource(v1)
           T  == Text \cup Variables
<1>1. /\ name \in Text
      /\ element.SourceFile \in Seq(Text \cup SourceVariables)
      /\ element.OutputFile \in Seq(Text \cup OutputVariables)
  BY ElementType
<1>2. source \in Seq(Text \cup SourceVariables) /\ (IsWildcard(element) => source \in Seq(Text))
  BY SourceType
<1>3. HasValues(ProjectVars(name), Text)
  BY <1>1, ProjectVarsValues
<1>4. /\ <<name>> \in Seq(Text) /\ <<Path[name]>> \in Seq(Text) /\ <<>> \in Seq(Text)
      /\ Options.SDir \in Seq(Text) /\ Options.WDir \in Seq(Text)
      /\ Options.SFile \in Seq(Text) /\ Options.OFile \in Seq(Text)
  BY <1>3 DEF HasValues, ProjectVars
<1>5. Tokens(Text, T) /\ \A s \in Seq(Text) : s \in Seq(T)
  BY SeqMonotonic DEF Tokens, WellFormed
<1>6. SourceVariables \subseteq Variables /\ OutputVariables \subseteq Variables
  BY DEF Variables, OutputVariables
<1>7. source \in Seq(T) /\ element.OutputFile \in Seq(T)
  BY <1>1, <1>2, <1>6, SeqMonotonic
<1> HIDE DEF v1, v2, T
<1>8. /\ v1.PName = <<name>> /\ v1.PDir = <<Path[name]>> /\ v1.SDir = Options.SDir
      /\ v1.WDir = Options.WDir /\ v1.SFile = Options.SFile /\ v1.OFile = Options.OFile
      /\ v1.SourceFile = source /\ v1.SourceFileName = <<>> /\ v1.OutputFile = element.OutputFile
  BY TaskVarsFields DEF v1
<1> DEFINE file == replace(v1, source)
           raw  == RawFilename(file)
           out  == replace(v2, element.OutputFile)
<1>9. /\ v2.PName = <<name>> /\ v2.PDir = <<Path[name]>> /\ v2.SDir = Options.SDir
      /\ v2.WDir = Options.WDir /\ v2.SFile = Options.SFile /\ v2.OFile = Options.OFile
      /\ v2.SourceFile = file /\ v2.SourceFileName = raw /\ v2.OutputFile = element.OutputFile
  BY TaskVarsFields DEF v1, v2
<1>10. /\ vars.PName = <<name>> /\ vars.PDir = <<Path[name]>> /\ vars.SDir = Options.SDir
       /\ vars.WDir = Options.WDir /\ vars.SFile = Options.SFile /\ vars.OFile = Options.OFile
       /\ vars.SourceFile = file /\ vars.SourceFileName = raw /\ vars.OutputFile = out
  BY <1>9, TaskVarsFields DEF v1, v2
<1>11. HasValues(v1, T)
  BY <1>4, <1>5, <1>7, <1>8 DEF HasValues
<1>12. \A c \in SourceVariables : Value(v1, c) \in Seq(Text)
  BY <1>4, <1>8 DEF Value, SourceVariables
<1>13. file \in Seq(Text)
  BY <1>2, <1>5, <1>6, <1>11, <1>12, replaceType
<1>14. IsWildcard(element) => file = source
  BY <1>2, <1>5, <1>11, replacePlain
<1>15. raw \in Seq(Text)
  <2> HIDE DEF file
  <2> QED
    BY <1>13, RawFilenameType
<1> HIDE DEF file, raw
<1>16. HasValues(v2, T)
  BY <1>4, <1>5, <1>7, <1>9, <1>13, <1>15 DEF HasValues
<1>17. \A c \in OutputVariables : Value(v2, c) \in Seq(Text)
  BY <1>4, <1>9, <1>13, <1>15 DEF Value, OutputVariables, SourceVariables
<1>18. out \in Seq(Text)
  BY <1>1, <1>5, <1>6, <1>16, <1>17, replaceType
<1> HIDE DEF out
<1>19. HasValues(vars, Text)
  BY <1>4, <1>10, <1>13, <1>15, <1>18 DEF HasValues
<1> QED
  BY <1>10, <1>14, <1>19

-----------------------------------------------------------------------------
(***************************************************************************)
(* Where the records of the table come from.                               *)
(***************************************************************************)
MadeOf(i, name, element, source) ==
  /\ name \in DOMAIN Path
  /\ OfBuildSet(name, element)
  /\ IsSource(element, name, source)
  /\ tasks[i] = TaskInfo(i, TaskVars(element, ProjectVars(name), source), element)

OriginInv ==
  /\ buildSet \in BuildSets
  /\ project \in Nat \ {0} /\ task \in Nat \ {0}
  /\ \A i \in 1 .. id : \E name, element, source : MadeOf(i, name, element, source)

LEMMA SourcesAreSources ==
  ASSUME NEW name, NEW element, ~Throws(element, ProjectVars(name)),
         NEW sources \in Sources(element, ProjectVars(name)),
         DOMAIN sources = 1 .. Len(sources), NEW i \in 1 .. Len(sources)
  PROVE  IsSource(element, name, sources[i])
<1> DEFINE str   == replace(ProjectVars(name), element.SourceFile)
           paths == {path \in Entries(Dir(str)) : IsSuffix(Mask(str), path)}
<1>1. CASE IsWildcard(element)
  <2>1. Dir(str) \in DOMAIN Directory
    BY <1>1 DEF Throws
  <2>2. sources \in SetToSeqs(paths)
    BY <1>1 DEF Sources
  <2> HIDE DEF paths
  <2>3. sources \in [1 .. Cardinality(paths) -> paths]
    BY <2>2 DEF SetToSeqs
  <2>4. sources[i] \in paths
    BY <2>3
  <2> QED
    BY <1>1, <2>1, <2>4 DEF IsSource, paths
<1>2. CASE ~IsWildcard(element)
  <2>1. sources = <<element.SourceFile>>
    BY <1>2 DEF Sources
  <2>2. sources[i] = element.SourceFile
    BY <2>1
  <2> QED
    BY <1>2, <2>2 DEF IsSource
<1> QED
  BY <1>1, <1>2

\* The place loadConfig is at, when it is at a Task element of a known project.
LEMMA AtElement ==
  ASSUME NEW Text, WellFormed(Text), OriginInv, NextTask
  PROVE  /\ project \in DOMAIN buildSet /\ task \in DOMAIN buildSet[project].tasks
         /\ buildSet[project].name \in DOMAIN Path
         /\ OfBuildSet(buildSet[project].name, buildSet[project].tasks[task])
<1> DEFINE P == [name : Text, tasks : Seq(Elements(Text))]
<1>1. buildSet \in Seq(P)
  BY DEF WellFormed, OriginInv
<1>2. DOMAIN buildSet = 1 .. Len(buildSet) /\ Len(buildSet) \in Nat
  <2> HIDE DEF P
  <2> QED
    BY <1>1, LenProperties
<1>3. project \in DOMAIN buildSet
  BY <1>2 DEF OriginInv, NextTask, AtProject
<1>4. buildSet[project] \in P
  <2> HIDE DEF P
  <2> QED
    BY <1>1, <1>2, <1>3, ElementOfSeq
<1>5. buildSet[project].tasks \in Seq(Elements(Text))
  BY <1>4
<1>6. DOMAIN buildSet[project].tasks = 1 .. Len(buildSet[project].tasks)
        /\ Len(buildSet[project].tasks) \in Nat
  BY <1>5, LenProperties
<1>7. task \in DOMAIN buildSet[project].tasks
  BY <1>6 DEF OriginInv, NextTask
<1>8. buildSet[project].name \in DOMAIN Path
  BY DEF NextTask, Known
<1>9. OfBuildSet(buildSet[project].name, buildSet[project].tasks[task])
  BY <1>3, <1>7 DEF OfBuildSet, OriginInv
<1> QED
  BY <1>3, <1>7, <1>8, <1>9

LEMMA NextTaskKeepsOrigin ==
  ASSUME NEW Text, WellFormed(Text), TableInv, OriginInv, NextTask
  PROVE  OriginInv'
<1> DEFINE element == buildSet[project].tasks[task]
           name    == buildSet[project].name
           vars    == ProjectVars(name)
<1>0. buildSet' = buildSet /\ project' = project /\ id \in Nat
  BY DEF NextTask, TableInv
<1>1. CASE Throws(element, vars)
  <2>1. UNCHANGED <<id, tasks, task>>
    BY <1>1 DEF NextTask
  <2> QED
    BY <1>0, <2>1 DEF OriginInv, MadeOf
<1>2. CASE ~Throws(element, vars)
  <2>0. task' = task + 1
    BY <1>2 DEF NextTask
  <2>1. PICK sources \in Sources(element, vars) :
          /\ Len(sources) \in Nat /\ DOMAIN sources = 1 .. Len(sources) /\ id' = id + Len(sources)
          /\ \A i \in 1 .. id : tasks'[i] = tasks[i]
          /\ \A i \in 1 .. id' : i \notin 1 .. id =>
               /\ i - id \in 1 .. Len(sources)
               /\ tasks'[i] = TaskInfo(i, TaskVars(element, vars, sources[i - id]), element)
    BY <1>2, NextTaskAppends
  <2>2. name \in DOMAIN Path /\ OfBuildSet(name, element)
    BY AtElement
  <2> HIDE DEF element, name
  <2>3. ASSUME NEW i \in 1 .. id' PROVE \E n, e, s : MadeOf(i, n, e, s)'
    <3>1. CASE i \in 1 .. id
      <4>1. PICK n, e, s : MadeOf(i, n, e, s)
        BY <3>1 DEF OriginInv
      <4>2. MadeOf(i, n, e, s)'
        BY <2>1, <3>1, <4>1 DEF MadeOf
      <4> QED
        BY <4>2
    <3>2. CASE i \notin 1 .. id
      <4>1. IsSource(element, name, sources[i - id])
        BY <1>2, <2>1, <3>2, SourcesAreSources
      <4>2. PICK n, e, s : n = name /\ e = element /\ s = sources[i - id]
        OBVIOUS
      <4>3. MadeOf(i, n, e, s)'
        BY <2>1, <2>2, <3>2, <4>1, <4>2 DEF MadeOf
      <4> QED
        BY <4>3
    <3> QED
      BY <3>1, <3>2
  <2> QED
    BY <1>0, <2>0, <2>3 DEF OriginInv
<1> QED
  BY <1>1, <1>2

LEMMA OriginInvariant ==
  ASSUME NEW Text, WellFormed(Text)
  PROVE  BsSpec => [](TableInv /\ OriginInv)
<1>1. BsInit => TableInv /\ OriginInv
  BY DEF BsInit, TableInv, OriginInv
<1>2. TableInv /\ OriginInv /\ [BsNext]_bsVars => TableInv' /\ OriginInv'
  <2> SUFFICES ASSUME TableInv, OriginInv, [BsNext]_bsVars PROVE TableInv' /\ OriginInv'
    OBVIOUS
  <2>1. CASE NextTask
    BY <2>1, NextTaskKeepsTable, NextTaskKeepsOrigin
  <2>2. CASE NextProject
    BY <2>2 DEF NextProject, TableInv, OriginInv, Placed, MadeOf
  <2>3. CASE LoadFails \/ Loaded \/ UNCHANGED bsVars
    <3>1. UNCHANGED <<buildSet, project, task, id, tasks>>
      BY <2>3 DEF LoadFails, Loaded, bsVars
    <3> QED
      BY <3>1 DEF TableInv, OriginInv, Placed, MadeOf
  <2> QED
    BY <2>1, <2>2, <2>3 DEF BsNext
<1> QED
  BY <1>1, <1>2, PTL DEF BsSpec

-----------------------------------------------------------------------------
(***************************************************************************)
(* CommandNamesItsFiles.                                                   *)
(***************************************************************************)

\* What a daemon makes of the three strings it moves to the work directory.
LEMMA AtDaemonFields ==
  ASSUME NEW n, NEW vars, NEW element, NEW message, message = Message(n, vars, element)
  PROVE  /\ message.project = vars.PName[1]
         /\ AtDaemon(message).sourcefile = String_replace(message.sourcefile, "$(pdir)", WorkPath[message.project])
         /\ AtDaemon(message).outputfile = String_replace(message.outputfile, "$(pdir)", WorkPath[message.project])
         /\ AtDaemon(message).commandline = String_replace(message.commandline, "$(pdir)", WorkPath[message.project])
         /\ message.sourcefile = String_replace(vars.SourceFile, vars.PDir[1], <<"$(pdir)">>)
         /\ message.outputfile = String_replace(vars.OutputFile, vars.PDir[1], <<"$(pdir)">>)
         /\ message.commandline = String_replace(replace(vars, element.Params), vars.PDir[1], <<"$(pdir)">>)
BY DEF AtDaemon, Message, Relative, CommandLine

\* They are moved as Moved does it.
LEMMA MovedFiles ==
  ASSUME NEW Text, WellFormed(Text), NEW i, NEW name, NEW element, NEW source, MadeOf(i, name, element, source)
  PROVE  LET t == tasks[i]
             move(s) == String_replace(s, Path[name], WorkPath[name])
         IN  /\ HasValues(t.vars, Text) /\ t.vars.PName = <<name>> /\ t.vars.PDir = <<Path[name]>>
             /\ t.element = element /\ t.message.project = name
             /\ t.vars = TaskVars(element, ProjectVars(name), source)
             /\ AtDaemon(t.message).sourcefile = move(t.vars.SourceFile)
             /\ AtDaemon(t.message).outputfile = move(t.vars.OutputFile)
             /\ AtDaemon(t.message).commandline = move(replace(t.vars, element.Params))
<1> DEFINE vars    == TaskVars(element, ProjectVars(name), source)
           message == Message(i, vars, element)
           params  == replace(vars, element.Params)
           T       == Text \cup Variables
<1>1. /\ name \in DOMAIN Path /\ OfBuildSet(name, element) /\ IsSource(element, name, source)
      /\ tasks[i].vars = vars /\ tasks[i].message = message /\ tasks[i].element = element
  BY DEF MadeOf, TaskInfo
<1>2. HasValues(vars, Text) /\ vars.PName = <<name>> /\ vars.PDir = <<Path[name]>>
  BY <1>1, TaskValues
<1>3. element.Params \in Seq(Text \cup Variables)
  BY <1>1, ElementType
<1>4. Tokens(Text, T) /\ \A s \in Seq(Text) : s \in Seq(T)
  BY SeqMonotonic DEF Tokens, WellFormed
<1>5. Path[name] \in Text /\ WorkPath[name] \in Seq(Text)
  BY <1>1 DEF WellFormed
<1> HIDE DEF vars, T
<1>6. HasValues(vars, T)
  BY <1>2, <1>4 DEF HasValues
<1>7. params \in Seq(Text)
  <2>1. \A c \in Variables : Value(vars, c) \in Seq(Text)
    BY <1>2, ValueType
  <2> QED
    BY <1>3, <1>4, <1>6, <2>1, replaceType
<1>8. /\ message.project = name
      /\ AtDaemon(message).sourcefile = String_replace(message.sourcefile, "$(pdir)", WorkPath[name])
      /\ AtDaemon(message).outputfile = String_replace(message.outputfile, "$(pdir)", WorkPath[name])
      /\ AtDaemon(message).commandline = String_replace(message.commandline, "$(pdir)", WorkPath[name])
      /\ message.sourcefile = String_replace(vars.SourceFile, Path[name], <<"$(pdir)">>)
      /\ message.outputfile = String_replace(vars.OutputFile, Path[name], <<"$(pdir)">>)
      /\ message.commandline = String_replace(params, Path[name], <<"$(pdir)">>)
  <2> HIDE DEF message
  <2>1. vars.PName[1] = name /\ vars.PDir[1] = Path[name]
    BY <1>2
  <2> QED
    BY <2>1, AtDaemonFields DEF message
<1> HIDE DEF message, params
<1>9. vars.SourceFile \in Seq(Text) /\ vars.OutputFile \in Seq(Text)
  BY <1>2 DEF HasValues
<1>10. \A s \in Seq(Text) :
         String_replace(String_replace(s, Path[name], <<"$(pdir)">>), "$(pdir)", WorkPath[name])
           = String_replace(s, Path[name], WorkPath[name])
  BY <1>4, <1>5, ThereAndBack
<1>11. /\ AtDaemon(message).sourcefile = String_replace(vars.SourceFile, Path[name], WorkPath[name])
       /\ AtDaemon(message).outputfile = String_replace(vars.OutputFile, Path[name], WorkPath[name])
       /\ AtDaemon(message).commandline = String_replace(params, Path[name], WorkPath[name])
  BY <1>7, <1>8, <1>9, <1>10
<1> QED
  BY <1>1, <1>2, <1>8, <1>11 DEF vars, params

\* The command line of a task at a daemon is what the Params say of the moved
\* files.
LEMMA CommandOfTask ==
  ASSUME NEW Text, WellFormed(Text), NEW i, NEW name, NEW element, NEW source, MadeOf(i, name, element, source)
  PROVE  AtDaemon(tasks[i].message).commandline
           = replace(MovedVars(tasks[i]), Moved(tasks[i], tasks[i].element.Params))
<1> DEFINE t == tasks[i]
           moved == MovedVars(t)
           path  == Path[name]
           work  == WorkPath[name]
           move(s) == String_replace(s, path, work)
           T == Text \cup Variables
<1>1. /\ HasValues(t.vars, Text) /\ t.vars.PName = <<name>> /\ t.vars.PDir = <<path>>
      /\ t.element = element /\ t.message.project = name
      /\ AtDaemon(t.message).sourcefile = move(t.vars.SourceFile)
      /\ AtDaemon(t.message).outputfile = move(t.vars.OutputFile)
      /\ AtDaemon(t.message).commandline = move(replace(t.vars, element.Params))
  BY MovedFiles
<1>2. name \in DOMAIN Path /\ path \in Text /\ work \in Seq(Text)
  BY DEF MadeOf, WellFormed
<1>3. element.Params \in Seq(Text \cup Variables) /\ Tokens(Text, T)
  BY ElementType DEF MadeOf, Tokens, WellFormed
<1> HIDE DEF t, path, work
<1>4. \A s : Moved(t, s) = move(s)
  BY <1>1 DEF Moved, work
<1>5. move(<<path>>) = work
  BY <1>2, ReplaceOne DEF Image
<1>6. /\ moved.PName = move(t.vars.PName) /\ moved.PDir = move(t.vars.PDir)
      /\ moved.SDir = move(t.vars.SDir) /\ moved.WDir = move(t.vars.WDir)
      /\ moved.SFile = move(t.vars.SFile) /\ moved.OFile = move(t.vars.OFile)
      /\ moved.SourceFile = move(t.vars.SourceFile)
      /\ moved.SourceFileName = move(t.vars.SourceFileName)
      /\ moved.OutputFile = move(t.vars.OutputFile)
  <2> HIDE DEF move
  <2> QED
    BY <1>1, <1>4, <1>5 DEF MovedVars, work
<1> HIDE DEF moved
<1>7. \A s \in Seq(Text) : move(s) \in Seq(Text)
  BY <1>2, ReplaceSame
<1>8. HasValues(moved, Text)
  <2> HIDE DEF move
  <2> QED
    BY <1>1, <1>6, <1>7 DEF HasValues
<1>9. \A c \in Variables : Value(moved, c) = move(Value(t.vars, c))
  <2> HIDE DEF move
  <2> QED
    BY <1>6 DEF Value, Variables, OutputVariables, SourceVariables
<1>10. move(replace(t.vars, element.Params)) = replace(moved, move(element.Params))
  <2> HIDE DEF T
  <2> QED
    BY <1>1, <1>2, <1>3, <1>8, <1>9, MoveReplaced
<1> QED
  BY <1>1, <1>4, <1>10 DEF t, moved

\* For every build set whose strings are well formed, the command a daemon runs
\* names the files as the daemon has them: the paths that step 3 of
\* taskGenerator makes relative and runTaskProcess makes absolute again are
\* those the Params name in the work directory.
THEOREM CommandNamesItsFilesHolds ==
  ASSUME NEW Text, WellFormed(Text)
  PROVE  BsSpec => []CommandNamesItsFiles
<1>1. TableInv /\ OriginInv => CommandNamesItsFiles
  <2> SUFFICES ASSUME TableInv, OriginInv, NEW i \in DOMAIN tasks
               PROVE  AtDaemon(tasks[i].message).commandline
                        = replace(MovedVars(tasks[i]), Moved(tasks[i], tasks[i].element.Params))
    BY DEF CommandNamesItsFiles
  <2>1. i \in 1 .. id
    BY DEF TableInv
  <2>2. PICK name, element, source : MadeOf(i, name, element, source)
    BY <2>1 DEF OriginInv
  <2> QED
    BY <2>2, CommandOfTask
<1> QED
  BY <1>1, OriginInvariant, PTL

-----------------------------------------------------------------------------
(***************************************************************************)
(* The parts of a wildcard and of the path of a file.                      *)
(***************************************************************************)
LEMMA MaxIs ==
  ASSUME NEW n \in Nat, NEW I \in SUBSET (1 .. n), NEW k \in I, \A i \in I : i <= k
  PROVE  Max(I) = k
<1>1. Max(I) \in I /\ \A i \in I : i <= Max(I)
  BY MaxInInterval
<1>2. Max(I) <= k /\ k <= Max(I) /\ Max(I) \in 1 .. n /\ k \in 1 .. n
  BY <1>1
<1> QED
  BY <1>2

LEMMA LastSlashIs ==
  ASSUME NEW T, NEW str \in Seq(T), NEW k \in 1 .. Len(str), str[k] = "\\",
         \A j \in 1 .. Len(str) : j > k => str[j] # "\\"
  PROVE  LastSlash(str) = k
<1> DEFINE I == {i \in 1 .. Len(str) : str[i] = "\\"}
<1>1. LastSlash(str) = IF I # {} THEN Max(I) ELSE 0
  BY DEF LastSlash, SelectLastInSeq
<1>2. Len(str) \in Nat /\ I \in SUBSET (1 .. Len(str)) /\ k \in I /\ \A i \in I : i <= k
  BY LenProperties
<1> HIDE DEF I
<1>3. Max(I) = k
  BY <1>2, MaxIs
<1> QED
  BY <1>1, <1>2, <1>3

LEMMA NoSlash ==
  ASSUME NEW T, NEW str \in Seq(T), \A j \in 1 .. Len(str) : str[j] # "\\"
  PROVE  LastSlash(str) = 0
BY DEF LastSlash, SelectLastInSeq

\* The first and the last part of a concatenation.
LEMMA PartsOfCat ==
  ASSUME NEW T, NEW s \in Seq(T), NEW t \in Seq(T)
  PROVE  /\ SubSeq(s \o t, 1, Len(s)) = s
         /\ SubSeq(s \o t, Len(s) + 1, Len(s \o t)) = t
<1> DEFINE u == s \o t
           m == Len(s)
           n == Len(t)
<1>1. /\ u \in Seq(T) /\ Len(u) = m + n /\ m \in Nat /\ n \in Nat
      /\ \A i \in 1 .. m + n : u[i] = IF i <= m THEN s[i] ELSE t[i - m]
  BY ConcatProperties, LenProperties
<1> HIDE DEF u, m, n
<1>2. \A i \in 1 .. m + n : u[i] \in T
  BY <1>1, ElementOfSeq
<1>3. /\ SubSeq(u, 1, m) \in Seq(T) /\ Len(SubSeq(u, 1, m)) = m
      /\ \A i \in 1 .. m : SubSeq(u, 1, m)[i] = u[i]
  <2>1. \A i \in 1 .. m : u[i] \in T
    BY <1>1, <1>2
  <2>2. /\ SubSeq(u, 1, m) \in Seq(T)
        /\ Len(SubSeq(u, 1, m)) = IF 1 <= m THEN m - 1 + 1 ELSE 0
        /\ \A i \in 1 .. m - 1 + 1 : SubSeq(u, 1, m)[i] = u[1 + i - 1]
    BY <1>1, <2>1, SubSeqProperties
  <2> QED
    BY <1>1, <2>2
<1>4. /\ SubSeq(u, m + 1, m + n) \in Seq(T) /\ Len(SubSeq(u, m + 1, m + n)) = n
      /\ \A i \in 1 .. n : SubSeq(u, m + 1, m + n)[i] = u[m + i]
  <2>1. \A i \in m + 1 .. m + n : u[i] \in T
    BY <1>1, <1>2
  <2>2. /\ SubSeq(u, m + 1, m + n) \in Seq(T)
        /\ Len(SubSeq(u, m + 1, m + n)) = IF m + 1 <= m + n THEN (m + n) - (m + 1) + 1 ELSE 0
        /\ \A i \in 1 .. (m + n) - (m + 1) + 1 : SubSeq(u, m + 1, m + n)[i] = u[(m + 1) + i - 1]
    BY <1>1, <2>1, SubSeqProperties
  <2>3. (m + n) - (m + 1) + 1 = n /\ \A i \in 1 .. n : (m + 1) + i - 1 = m + i
    BY <1>1
  <2> QED
    BY <1>1, <2>2, <2>3
<1>5. SubSeq(u, 1, m) = s
  <2>1. \A i \in 1 .. m : SubSeq(u, 1, m)[i] = s[i]
    BY <1>1, <1>3
  <2> QED
    BY <1>3, <2>1, SeqEqual DEF m
<1>6. SubSeq(u, m + 1, m + n) = t
  <2>1. \A i \in 1 .. n : m + i \in 1 .. m + n /\ ~(m + i <= m) /\ (m + i) - m = i
    BY <1>1
  <2>2. \A i \in 1 .. n : SubSeq(u, m + 1, m + n)[i] = t[i]
    BY <1>1, <1>4, <2>1
  <2> QED
    BY <1>4, <2>2, SeqEqual DEF n
<1> QED
  BY <1>1, <1>5, <1>6 DEF u, m

\* IsSuffix, from the end.
LEMMA SuffixTokens ==
  ASSUME NEW T, NEW s \in Seq(T), NEW t \in Seq(T)
  PROVE  IsSuffix(s, t) <=>
           Len(s) <= Len(t) /\ \A k \in 1 .. Len(s) : s[(Len(s) - k) + 1] = t[(Len(t) - k) + 1]
<1> DEFINE rs == Reverse(s)
           rt == Reverse(t)
           n  == Len(s)
           m  == Len(t)
           a  == SubSeq(rs, 1, n)
           b  == SubSeq(rt, 1, n)
<1>1. n \in Nat /\ m \in Nat
  BY LenProperties
<1>2. /\ \A k \in 1 .. n : s[(n - k) + 1] \in T /\ rs[k] = s[(n - k) + 1]
      /\ \A k \in 1 .. m : t[(m - k) + 1] \in T /\ rt[k] = t[(m - k) + 1]
  <2>1. \A k \in 1 .. n : (n - k) + 1 \in 1 .. n
    BY <1>1
  <2>2. \A k \in 1 .. m : (m - k) + 1 \in 1 .. m
    BY <1>1
  <2> QED
    BY <2>1, <2>2, ElementOfSeq DEF Reverse
<1>3. rs \in [1 .. n -> T] /\ rt \in [1 .. m -> T]
  BY <1>2 DEF Reverse
<1> HIDE DEF rs, rt, n, m
<1>4. rs \in Seq(T) /\ rt \in Seq(T) /\ Len(rs) = n /\ Len(rt) = m
  BY <1>1, <1>3
<1>5. IsSuffix(s, t) <=> n <= m /\ a = b
  BY <1>4 DEF IsSuffix, IsPrefix, rs, rt
<1>6. ASSUME n <= m PROVE a = b <=> \A k \in 1 .. n : rs[k] = rt[k]
  <2>1. \A i \in 1 .. n : rs[i] \in T /\ rt[i] \in T
    BY <1>1, <1>2, <1>6, SMTT(30)
  <2>2. /\ a \in Seq(T) /\ Len(a) = (IF 1 <= n THEN n - 1 + 1 ELSE 0)
        /\ \A i \in 1 .. n - 1 + 1 : a[i] = rs[1 + i - 1]
    BY <1>1, <2>1, SubSeqProperties
  <2>3. /\ b \in Seq(T) /\ Len(b) = (IF 1 <= n THEN n - 1 + 1 ELSE 0)
        /\ \A i \in 1 .. n - 1 + 1 : b[i] = rt[1 + i - 1]
    BY <1>1, <2>1, SubSeqProperties
  <2> HIDE DEF a, b
  <2>4. Len(a) = n /\ Len(b) = n /\ \A i \in 1 .. n : a[i] = rs[i] /\ b[i] = rt[i]
    BY <1>1, <2>2, <2>3
  <2>5. ASSUME \A k \in 1 .. n : rs[k] = rt[k] PROVE a = b
    BY <2>2, <2>3, <2>4, <2>5, SeqEqual
  <2>6. ASSUME a = b PROVE \A k \in 1 .. n : rs[k] = rt[k]
    BY <2>4, <2>6
  <2> QED
    BY <2>5, <2>6
<1>7. ASSUME n <= m
      PROVE  (\A k \in 1 .. n : rs[k] = rt[k]) <=> \A k \in 1 .. n : s[(n - k) + 1] = t[(m - k) + 1]
  <2>1. \A k \in 1 .. n : k \in 1 .. m
    BY <1>1, <1>7
  <2> QED
    BY <1>2, <2>1
<1> QED
  BY <1>5, <1>6, <1>7 DEF n, m

\* What ends a file name ends the path.
LEMMA SuffixOfPath ==
  ASSUME NEW T, NEW s \in Seq(T), NEW t \in Seq(T), IsSuffix(s, t), NEW r \in Seq(T)
  PROVE  IsSuffix(s, r \o t)
<1> DEFINE u == r \o t
           l == Len(r)
           m == Len(t)
           n == Len(s)
<1>1. n <= m /\ \A k \in 1 .. n : s[(n - k) + 1] = t[(m - k) + 1]
  BY SuffixTokens
<1>2. /\ u \in Seq(T) /\ Len(u) = l + m /\ m \in Nat /\ n \in Nat /\ l \in Nat
      /\ \A i \in 1 .. l + m : u[i] = IF i <= l THEN r[i] ELSE t[i - l]
  BY ConcatProperties, LenProperties
<1> HIDE DEF u, l, m, n
<1>3. \A k \in 1 .. n : u[((l + m) - k) + 1] = t[(m - k) + 1]
  <2> SUFFICES ASSUME NEW k \in 1 .. n PROVE u[((l + m) - k) + 1] = t[(m - k) + 1]
    OBVIOUS
  <2>1. /\ ((l + m) - k) + 1 \in 1 .. l + m /\ ~(((l + m) - k) + 1 <= l)
        /\ (((l + m) - k) + 1) - l = (m - k) + 1
    BY <1>1, <1>2
  <2> QED
    BY <1>2, <2>1
<1>4. n <= l + m /\ \A k \in 1 .. n : s[(n - k) + 1] = u[((l + m) - k) + 1]
  BY <1>1, <1>2, <1>3
<1>5. Len(s) <= Len(u) /\ \A k \in 1 .. Len(s) : s[(Len(s) - k) + 1] = u[(Len(u) - k) + 1]
  BY <1>2, <1>4 DEF n
<1>6. u \in Seq(T)
  BY <1>2
<1>7. IsSuffix(s, u)
  BY <1>5, <1>6, SuffixTokens
<1> QED
  BY <1>7 DEF u

\* The source of a wildcard: something, a separator, the star, the ending.
Parts(Text, str, front, sep, ending) ==
  /\ front \in Seq(Text \cup SourceVariables) /\ sep \in Seq(Text) /\ ending \in Seq(Text)
  /\ Len(sep) = 2 /\ sep[1] = "\\" /\ sep[2] = "*"
  /\ ending # <<>> /\ \A j \in 1 .. Len(ending) : ending[j] # "\\" /\ ending[j] # "*"
  /\ str = (front \o sep) \o ending

LEMMA WildcardParts ==
  ASSUME NEW Text, WellFormed(Text), StarThenEnding(Text), NEW name, NEW element,
         OfBuildSet(name, element), IsWildcard(element)
  PROVE  \E front, sep, ending : Parts(Text, element.SourceFile, front, sep, ending)
<1> DEFINE T   == Text \cup SourceVariables
           str == element.SourceFile
           n   == Len(str)
<1>1. str \in Seq(T) /\ element \in Wildcards
  BY ElementType DEF Wildcards
<1>2. PICK i \in 2 .. n - 1 :
        /\ str[i - 1] = "\\" /\ str[i] = "*"
        /\ \A j \in i + 1 .. n : str[j] \in Text \ {"\\", "*"}
  BY <1>1 DEF StarThenEnding
<1>3. n \in Nat /\ \A j \in 1 .. n : str[j] \in T
  <2> HIDE DEF T
  <2> QED
    BY <1>1, LenProperties, ElementOfSeq
<1>4. "\\" \in Text /\ "*" \in Text
  <2>1. i \in 1 .. n
    BY <1>2, <1>3
  <2>2. "*" \in T
    BY <1>2, <1>3, <2>1
  <2>3. "*" \notin SourceVariables
    BY DEF SourceVariables
  <2>4. "\\" \in Text
    BY DEF WellFormed
  <2> QED
    BY <2>2, <2>3, <2>4
<1> DEFINE front  == SubSeq(str, 1, i - 2)
           sep    == SubSeq(str, i - 1, i)
           ending == SubSeq(str, i + 1, n)
<1> HIDE DEF T, str, n
<1>5. /\ i \in Nat /\ 2 <= i /\ i <= n - 1
      /\ i - 2 \in Int /\ i - 1 \in Int /\ i \in Int /\ i + 1 \in Int /\ n \in Int
  BY <1>2, <1>3
<1>6. front \in Seq(T)
  <2>1. \A j \in 1 .. i - 2 : str[j] \in T
    BY <1>3, <1>5
  <2> QED
    BY <1>5, <2>1, SubSeqProperties
<1>7. sep \in Seq(Text) /\ Len(sep) = 2 /\ sep[1] = "\\" /\ sep[2] = "*"
  <2>1. \A j \in i - 1 .. i : str[j] \in Text
    <3>1. \A j \in i - 1 .. i : j = i - 1 \/ j = i
      BY <1>5
    <3> QED
      BY <1>2, <1>4, <3>1
  <2>2. /\ SubSeq(str, i - 1, i) \in Seq(Text)
        /\ Len(SubSeq(str, i - 1, i)) = IF i - 1 <= i THEN i - (i - 1) + 1 ELSE 0
        /\ \A j \in 1 .. i - (i - 1) + 1 : SubSeq(str, i - 1, i)[j] = str[(i - 1) + j - 1]
    BY <1>5, <2>1, SubSeqProperties
  <2> HIDE DEF sep
  <2>3. sep \in Seq(Text) /\ Len(sep) = 2 /\ \A j \in 1 .. 2 : sep[j] = str[(i - 1) + j - 1]
    BY <1>5, <2>2 DEF sep
  <2>4. sep[1] = str[(i - 1) + 1 - 1] /\ sep[2] = str[(i - 1) + 2 - 1]
    BY <2>3
  <2>5. (i - 1) + 1 - 1 = i - 1 /\ (i - 1) + 2 - 1 = i
    BY <1>5
  <2> QED
    BY <1>2, <2>3, <2>4, <2>5
<1>8. /\ ending \in Seq(Text) /\ Len(ending) = n - i
      /\ \A j \in 1 .. Len(ending) : ending[j] # "\\" /\ ending[j] # "*"
  <2>1. \A j \in i + 1 .. n : str[j] \in Text
    BY <1>2
  <2>2. /\ SubSeq(str, i + 1, n) \in Seq(Text)
        /\ Len(SubSeq(str, i + 1, n)) = IF i + 1 <= n THEN n - (i + 1) + 1 ELSE 0
        /\ \A j \in 1 .. n - (i + 1) + 1 : SubSeq(str, i + 1, n)[j] = str[(i + 1) + j - 1]
    BY <1>5, <2>1, SubSeqProperties
  <2> HIDE DEF ending
  <2>3. ending \in Seq(Text) /\ Len(ending) = n - i /\ \A j \in 1 .. n - i : ending[j] = str[(i + 1) + j - 1]
    BY <1>5, <2>2 DEF ending
  <2>4. \A j \in 1 .. n - i : (i + 1) + j - 1 \in i + 1 .. n
    BY <1>5
  <2> QED
    BY <1>2, <2>3, <2>4
<1>9. str = (front \o sep) \o ending
  <2>1. front \o sep = SubSeq(str, 1, i)
    <3>1. 1 \in 1 .. Len(str) + 1 /\ i - 2 \in 1 - 1 .. Len(str) /\ i \in i - 2 .. Len(str) /\ (i - 2) + 1 = i - 1
      BY <1>5 DEF n
    <3>2. SubSeq(str, 1, i - 2) \o SubSeq(str, (i - 2) + 1, i) = SubSeq(str, 1, i)
      BY <1>1, <3>1, ConcatAdjacentSubSeq
    <3> QED
      BY <3>1, <3>2
  <2>2. SubSeq(str, 1, i) \o ending = SubSeq(str, 1, n)
    <3>1. 1 \in 1 .. Len(str) + 1 /\ i \in 1 - 1 .. Len(str) /\ n \in i .. Len(str)
      BY <1>5 DEF n
    <3> QED
      BY <1>1, <3>1, ConcatAdjacentSubSeq
  <2>3. SubSeq(str, 1, n) = str
    BY <1>1, SubSeqFull DEF n
  <2> QED
    BY <2>1, <2>2, <2>3
<1>10. ending # <<>>
  <2> HIDE DEF ending
  <2> SUFFICES ASSUME ending = <<>> PROVE FALSE
    OBVIOUS
  <2>1. Len(ending) = 0
    BY EmptySeq
  <2> QED
    BY <1>5, <1>8, <2>1
<1> HIDE DEF front, sep, ending
<1>11. Parts(Text, str, front, sep, ending)
  BY <1>6, <1>7, <1>8, <1>9, <1>10 DEF Parts, T
<1> QED
  BY <1>11 DEF str

\* The directory and the mask of a wildcard, after substitution.
LEMMA PatternParts ==
  ASSUME NEW Text, WellFormed(Text), StarThenEnding(Text), NEW name \in DOMAIN Path, NEW element,
         OfBuildSet(name, element), IsWildcard(element),
         NEW str, str = replace(ProjectVars(name), element.SourceFile)
  PROVE  /\ Dir(str) \in Seq(Text)
         /\ Mask(str) \in Seq(Text) /\ Mask(str) # <<>> /\ \A j \in 1 .. Len(Mask(str)) : Mask(str)[j] # "\\"
         /\ AfterStar(element.SourceFile) = Mask(str)
         /\ Last(element.SourceFile) = Last(Mask(str))
<1> DEFINE T == Text \cup Variables
           vars == ProjectVars(name)
<1>0. PICK front, sep, ending : Parts(Text, element.SourceFile, front, sep, ending)
  BY WildcardParts
<1>1. /\ front \in Seq(Text \cup SourceVariables) /\ sep \in Seq(Text) /\ ending \in Seq(Text)
      /\ Len(sep) = 2 /\ sep[1] = "\\" /\ sep[2] = "*"
      /\ ending # <<>> /\ \A j \in 1 .. Len(ending) : ending[j] # "\\" /\ ending[j] # "*"
      /\ element.SourceFile = (front \o sep) \o ending
  BY <1>0 DEF Parts
<1>s. sep \in Seq(Text) /\ ending \in Seq(Text) /\ front \in Seq(Text \cup SourceVariables)
  BY <1>1
<1>2. /\ Tokens(Text, T) /\ \A s \in Seq(Text) : s \in Seq(T)
      /\ \A s \in Seq(Text \cup SourceVariables) : s \in Seq(T)
  BY SeqMonotonic DEF Tokens, WellFormed, Variables, OutputVariables
<1>3. HasValues(vars, Text)
  BY ElementType, ProjectVarsValues
<1> HIDE DEF T, vars
<1>4. HasValues(vars, T)
  BY <1>2, <1>3 DEF HasValues
<1> DEFINE x == replace(vars, front)
<1>5. x \in Seq(Text)
  <2>1. \A c \in SourceVariables : Value(vars, c) \in Seq(Text)
    BY <1>3, ValueType DEF Variables, OutputVariables
  <2>2. SourceVariables \subseteq Variables
    BY DEF Variables, OutputVariables
  <2> QED
    BY <1>s, <1>2, <1>4, <2>1, <2>2, replaceType
<1>6. str = (x \o sep) \o ending
  <2>1. replace(vars, sep) = sep /\ replace(vars, ending) = ending
    BY <1>s, <1>2, <1>4, replacePlain
  <2>2. front \in Seq(T) /\ sep \in Seq(T) /\ ending \in Seq(T)
    BY <1>s, <1>2
  <2>3. Cat(front, sep) \in Seq(T)
    BY <2>2, CatType
  <2>4. replace(vars, Cat(front, sep)) = Cat(x, sep)
    BY <1>4, <2>1, <2>2, replacePiecewise
  <2>5. replace(vars, Cat(Cat(front, sep), ending)) = Cat(Cat(x, sep), ending)
    BY <1>4, <2>1, <2>2, <2>3, <2>4, replacePiecewise
  <2>6. str = replace(vars, Cat(Cat(front, sep), ending))
    BY <1>1 DEF Cat, vars
  <2> QED
    BY <2>5, <2>6 DEF Cat
<1> HIDE DEF x
<1> DEFINE n == Len(x)
           m == Len(ending)
<1>7. n \in Nat /\ m \in Nat /\ m # 0
  BY <1>1, <1>5, EmptySeq, LenProperties
<1>8. /\ x \o sep \in Seq(Text) /\ Len(x \o sep) = n + 2
      /\ (x \o sep)[n + 1] = "\\" /\ (x \o sep)[n + 2] = "*"
  <2>0. /\ x \o sep \in Seq(Text) /\ Len(x \o sep) = n + Len(sep)
        /\ \A i \in 1 .. n + Len(sep) : (x \o sep)[i] = IF i <= n THEN x[i] ELSE sep[i - n]
    BY <1>s, <1>5, ConcatProperties
  <2>1. /\ x \o sep \in Seq(Text) /\ Len(x \o sep) = n + 2
        /\ \A i \in 1 .. n + 2 : (x \o sep)[i] = IF i <= n THEN x[i] ELSE sep[i - n]
    <3>1. Len(sep) = 2
      BY <1>1
    <3> HIDE DEF n
    <3> QED
      BY <2>0, <3>1
  <2> HIDE DEF n
  <2>2. /\ n + 1 \in 1 .. n + 2 /\ ~(n + 1 <= n) /\ (n + 1) - n = 1
        /\ n + 2 \in 1 .. n + 2 /\ ~(n + 2 <= n) /\ (n + 2) - n = 2
    BY <1>7
  <2> QED
    BY <1>1, <2>1, <2>2
<1>9. PICK xs \in Seq(Text) : xs = x \o sep
  BY <1>8
<1>10. /\ str \in Seq(Text) /\ Len(str) = n + 2 + m
       /\ \A i \in 1 .. n + 2 + m : str[i] = IF i <= n + 2 THEN xs[i] ELSE ending[i - (n + 2)]
  <2>1. /\ xs \o ending \in Seq(Text) /\ Len(xs \o ending) = Len(xs) + Len(ending)
        /\ \A i \in 1 .. Len(xs) + Len(ending) : (xs \o ending)[i] = IF i <= Len(xs) THEN xs[i] ELSE ending[i - Len(xs)]
    BY <1>s, ConcatProperties
  <2>2. Len(xs) = n + 2 /\ Len(ending) = m /\ xs \o ending = str
    BY <1>6, <1>8, <1>9
  <2> HIDE DEF n, m
  <2> QED
    BY <2>1, <2>2
<1> HIDE DEF n, m
<1>11. LastSlash(str) = n + 1
  <2>1. n + 1 \in 1 .. Len(str) /\ n + 1 <= n + 2
    BY <1>7, <1>10
  <2>2. str[n + 1] = "\\"
    BY <1>8, <1>9, <1>10, <2>1
  <2>3. ASSUME NEW j \in 1 .. Len(str), j > n + 1 PROVE str[j] # "\\"
    <3>1. CASE j = n + 2
      <4>1. str[n + 2] = xs[n + 2]
        BY <1>7, <1>10, <3>1
      <4> QED
        BY <1>8, <1>9, <3>1, <4>1
    <3>2. CASE j # n + 2
      <4>1. j - (n + 2) \in 1 .. m /\ ~(j <= n + 2)
        BY <1>7, <1>10, <2>3, <3>2
      <4>2. str[j] = ending[j - (n + 2)]
        BY <1>10, <4>1
      <4> QED
        BY <1>1, <4>1, <4>2 DEF m
    <3> QED
      BY <3>1, <3>2
  <2> QED
    BY <1>10, <2>1, <2>2, <2>3, LastSlashIs
<1>12. Dir(str) \in Seq(Text)
  BY <1>10, DirType DEF WellFormed
<1>13. Mask(str) = ending
  <2>1. SubSeq(xs \o ending, Len(xs) + 1, Len(xs \o ending)) = ending
    BY <1>s, PartsOfCat
  <2>2. xs \o ending = str /\ Len(xs) = n + 2
    BY <1>6, <1>8, <1>9
  <2>3. SubSeq(str, (n + 2) + 1, Len(str)) = ending
    BY <2>1, <2>2
  <2>4. (n + 1) + 2 = (n + 2) + 1 /\ n + 1 # 0
    BY <1>7
  <2> QED
    BY <1>11, <2>3, <2>4 DEF Mask
<1>14. /\ AfterStar(element.SourceFile) = ending
       /\ Last(element.SourceFile) = Last(ending)
  <2> DEFINE src == element.SourceFile
             W   == Text \cup SourceVariables
             l   == Len(front)
  <2>1. sep \in Seq(W) /\ ending \in Seq(W)
    BY <1>s, SeqMonotonic
  <2> HIDE DEF W
  <2>2. l \in Nat /\ front \in Seq(W)
    BY <1>s, LenProperties DEF W
  <2>3. /\ front \o sep \in Seq(W) /\ Len(front \o sep) = l + 2 /\ (front \o sep)[l + 2] = "*"
    <3>0. /\ front \o sep \in Seq(W) /\ Len(front \o sep) = l + Len(sep)
          /\ \A i \in 1 .. l + Len(sep) : (front \o sep)[i] = IF i <= l THEN front[i] ELSE sep[i - l]
      BY <2>1, <2>2, ConcatProperties
    <3>1. /\ front \o sep \in Seq(W) /\ Len(front \o sep) = l + 2
          /\ \A i \in 1 .. l + 2 : (front \o sep)[i] = IF i <= l THEN front[i] ELSE sep[i - l]
      <4>1. Len(sep) = 2
        BY <1>1
      <4> HIDE DEF l
      <4> QED
        BY <3>0, <4>1
    <3> HIDE DEF l
    <3>2. l + 2 \in 1 .. l + 2 /\ ~(l + 2 <= l) /\ (l + 2) - l = 2
      BY <2>2
    <3> QED
      BY <1>1, <3>1, <3>2
  <2>4. PICK fs \in Seq(W) : fs = front \o sep
    BY <2>3
  <2>5. src = fs \o ending /\ Len(fs) = l + 2 /\ fs[l + 2] = "*"
    BY <1>1, <2>3, <2>4
  <2>6. /\ src \in Seq(W) /\ Len(src) = l + 2 + m
        /\ \A i \in 1 .. l + 2 + m : src[i] = IF i <= l + 2 THEN fs[i] ELSE ending[i - (l + 2)]
    <3>1. /\ fs \o ending \in Seq(W) /\ Len(fs \o ending) = Len(fs) + Len(ending)
          /\ \A i \in 1 .. Len(fs) + Len(ending) : (fs \o ending)[i] = IF i <= Len(fs) THEN fs[i] ELSE ending[i - Len(fs)]
      BY <2>1, ConcatProperties
    <3> HIDE DEF l
    <3> QED
      BY <2>5, <3>1 DEF m
  <2> HIDE DEF l, src
  <2> DEFINE I == {i \in 1 .. Len(src) : src[i] = "*"}
  <2>7. l + 2 \in I
    BY <1>7, <2>2, <2>5, <2>6
  <2>8. ASSUME NEW j \in I PROVE j <= l + 2
    <3> SUFFICES ASSUME j > l + 2 PROVE FALSE
      BY <2>2
    <3>1. j - (l + 2) \in 1 .. m /\ ~(j <= l + 2) /\ j \in 1 .. l + 2 + m
      BY <1>7, <2>2, <2>6
    <3>2. src[j] = ending[j - (l + 2)]
      BY <2>6, <3>1
    <3> QED
      BY <1>1, <3>1, <3>2 DEF m
  <2>9. SelectLastInSeq(src, LAMBDA c : c = "*") = IF I # {} THEN Max(I) ELSE 0
    BY DEF SelectLastInSeq
  <2>10. Len(src) \in Nat /\ I \in SUBSET (1 .. Len(src))
    BY <2>6, LenProperties
  <2> HIDE DEF I
  <2>11. Max(I) = l + 2
    BY <2>7, <2>8, <2>10, MaxIs
  <2>12. AfterStar(src) = SubSeq(src, (l + 2) + 1, Len(src))
    BY <2>7, <2>9, <2>11 DEF AfterStar
  <2>13. SubSeq(src, (l + 2) + 1, Len(src)) = ending
    <3>1. SubSeq(fs \o ending, Len(fs) + 1, Len(fs \o ending)) = ending
      BY <2>1, PartsOfCat
    <3> QED
      BY <2>5, <3>1
  <2>14. src[l + 2 + m] = ending[m]
    <3>1. l + 2 + m \in 1 .. l + 2 + m /\ ~(l + 2 + m <= l + 2) /\ (l + 2 + m) - (l + 2) = m
      BY <1>7, <2>2
    <3> QED
      BY <2>6, <3>1
  <2>15. Last(src) = Last(ending)
    BY <2>6, <2>14 DEF Last, m
  <2> QED
    BY <2>12, <2>13, <2>15 DEF src
<1> QED
  BY <1>1, <1>12, <1>13, <1>14

\* The path of a file: what comes before its name ends with a separator.
EntryPrefix(Text, dir, prefix) ==
  /\ prefix \in Seq(Text)
  /\ \A file \in Seq(Text) : Entry(dir, file) = prefix \o file
  /\ prefix # <<>> => prefix[Len(prefix)] = "\\"

LEMMA EntryParts ==
  ASSUME NEW Text, {"\\", "."} \subseteq Text, NEW dir \in Seq(Text)
  PROVE  \E prefix : EntryPrefix(Text, dir, prefix)
<1>0. <<"\\">> \in Seq(Text)
  OBVIOUS
<1>1. PICK slash \in Seq(Text) : slash = <<"\\">>
  BY <1>0
<1>2. CASE Last(dir) = "\\"
  <2>1. \A file \in Seq(Text) : Entry(dir, file) = dir \o file
    BY <1>2 DEF Entry
  <2> QED
    BY <1>2, <2>1 DEF Last, EntryPrefix
<1>3. CASE Last(dir) # "\\"
  <2>1. /\ dir \o slash \in Seq(Text) /\ Len(dir \o slash) = Len(dir) + Len(slash)
        /\ \A i \in 1 .. Len(dir) + Len(slash) : (dir \o slash)[i] = IF i <= Len(dir) THEN dir[i] ELSE slash[i - Len(dir)]
    BY ConcatProperties
  <2>2. Len(slash) = 1 /\ slash[1] = "\\" /\ Len(dir) \in Nat
    BY <1>1, LenProperties
  <2>3. PICK prefix \in Seq(Text) : prefix = dir \o slash
    BY <2>1
  <2>4. prefix[Len(prefix)] = "\\"
    <3>1. Len(dir) + 1 \in 1 .. Len(dir) + 1 /\ ~(Len(dir) + 1 <= Len(dir)) /\ (Len(dir) + 1) - Len(dir) = 1
      BY <2>2
    <3> QED
      BY <2>1, <2>2, <2>3, <3>1
  <2>5. \A file \in Seq(Text) : Entry(dir, file) = prefix \o file
    BY <1>1, <1>3, <2>3 DEF Entry
  <2> QED
    BY <2>4, <2>5 DEF EntryPrefix
<1> QED
  BY <1>2, <1>3

-----------------------------------------------------------------------------
(***************************************************************************)
(* WildcardIsComplete.  A file that matches is in the table as often as    *)
(* the element is among the places loadConfig has passed.                  *)
(***************************************************************************)
FoundFiles(name, element) ==
  LET str == replace(ProjectVars(name), element.SourceFile)
  IN  {path \in Entries(Dir(str)) : IsSuffix(Mask(str), path)}

\* taskGenerator compares the end of the path with the mask: it finds every file
\* whose name ends as the wildcard does.
LEMMA MatchingIsFound ==
  ASSUME NEW Text, WellFormed(Text), StarThenEnding(Text), NEW name \in DOMAIN Path, NEW element,
         OfBuildSet(name, element), IsWildcard(element),
         ~Throws(element, ProjectVars(name))
  PROVE  MatchingFiles(name, element) \subseteq FoundFiles(name, element)
<1> DEFINE str == replace(ProjectVars(name), element.SourceFile)
           dir == Dir(str)
<1>1. /\ dir \in Seq(Text) /\ Mask(str) \in Seq(Text) /\ AfterStar(element.SourceFile) = Mask(str)
  BY PatternParts
<1>2. dir \in DOMAIN Directory
  BY DEF Throws
<1> SUFFICES ASSUME NEW path \in MatchingFiles(name, element)
             PROVE  path \in FoundFiles(name, element)
  OBVIOUS
<1>3. PICK file \in Directory[dir] : IsSuffix(AfterStar(element.SourceFile), file) /\ path = Entry(dir, file)
  BY DEF MatchingFiles
<1> HIDE DEF dir
<1>4. file \in Seq(Text) /\ {"\\", "."} \subseteq Text
  BY <1>2, <1>3 DEF WellFormed
<1>p. PICK prefix : EntryPrefix(Text, dir, prefix)
  BY <1>1, <1>4, EntryParts
<1>5. prefix \in Seq(Text) /\ Entry(dir, file) = prefix \o file
  BY <1>4, <1>p DEF EntryPrefix
<1>6. IsSuffix(Mask(str), prefix \o file)
  <2> HIDE DEF str
  <2> QED
    BY <1>1, <1>3, <1>4, <1>5, SuffixOfPath
<1>7. path \in Entries(dir) /\ IsSuffix(Mask(str), path)
  BY <1>3, <1>4, <1>5, <1>6 DEF Entries
<1> QED
  BY <1>7 DEF FoundFiles, dir

\* Every file that is found is a source file of one new task.
LEMMA FoundOnce ==
  ASSUME NEW name, NEW element, IsWildcard(element), ~Throws(element, ProjectVars(name)),
         NEW sources \in Sources(element, ProjectVars(name)), DOMAIN sources = 1 .. Len(sources),
         Len(sources) \in Nat, NEW file \in FoundFiles(name, element)
  PROVE  \E j \in 1 .. Len(sources) : \A k \in 1 .. Len(sources) : sources[k] = file <=> k = j
<1> DEFINE str   == replace(ProjectVars(name), element.SourceFile)
           paths == FoundFiles(name, element)
           n     == Cardinality(paths)
<1>1. Dir(str) \in DOMAIN Directory
  BY DEF Throws
<1>2. IsFiniteSet(Entries(Dir(str)))
  BY <1>1, EntriesFinite
<1>3. IsFiniteSet(paths)
  BY <1>2, FS_Subset DEF FoundFiles
<1>4. n \in Nat
  BY <1>3, FS_CardinalityType
<1>5. sources \in SetToSeqs(paths)
  BY DEF Sources, FoundFiles
<1> HIDE DEF paths
<1>6. sources \in [1 .. n -> paths] /\ \A i, j \in 1 .. n : i # j => sources[i] # sources[j]
  BY <1>5 DEF SetToSeqs
<1>7. IsFiniteSet(1 .. n) /\ Cardinality(1 .. n) = n
  <2> HIDE DEF n
  <2> QED
    BY <1>4, FS_Interval
<1> HIDE DEF n
<1>8. sources \in Injection(1 .. n, paths)
  BY <1>6 DEF Injection, IsInjective
<1>9. sources \in Surjection(1 .. n, paths)
  BY <1>3, <1>7, <1>8, FS_Injection DEF n
<1>10. PICK j \in 1 .. n : sources[j] = file
  BY <1>9 DEF Surjection, paths
<1>11. 1 .. n = 1 .. Len(sources)
  BY <1>6
<1> QED
  BY <1>6, <1>10, <1>11

PlacesBefore(name, element, p, k) ==
  {pl \in Places(name, element) : pl[1] < p \/ (pl[1] = p /\ pl[2] < k)}

Passed(name, element) == PlacesBefore(name, element, project, task)

Matching(name, element, file) ==
  {i \in 1 .. id : /\ tasks[i].message.project = name /\ tasks[i].element = element
                   /\ tasks[i].vars.SourceFile = file}

Counted(name, element, file) ==
  /\ IsFiniteSet(Passed(name, element))
  /\ Cardinality(Matching(name, element, file)) = Cardinality(Passed(name, element))

CountInv ==
  /\ pc = "true" => project > Len(buildSet)
  /\ \A name \in DOMAIN Path : \A element, file :
       /\ OfBuildSet(name, element) /\ IsWildcard(element)
       /\ file \in MatchingFiles(name, element)
       => Counted(name, element, file)

LEMMA PlacesMember ==
  ASSUME NEW name, NEW element, NEW pl
  PROVE  pl \in Places(name, element) <=>
           \E q \in DOMAIN buildSet : \E k \in DOMAIN buildSet[q].tasks :
             pl = <<q, k>> /\ buildSet[q].name = name /\ buildSet[q].tasks[k] = element
BY DEF Places

LEMMA BuildSetType ==
  ASSUME NEW Text, WellFormed(Text), OriginInv
  PROVE  /\ Len(buildSet) \in Nat /\ DOMAIN buildSet = 1 .. Len(buildSet)
         /\ \A q \in DOMAIN buildSet :
              /\ Len(buildSet[q].tasks) \in Nat
              /\ DOMAIN buildSet[q].tasks = 1 .. Len(buildSet[q].tasks)
<1> DEFINE P == [name : Text, tasks : Seq(Elements(Text))]
<1>1. buildSet \in Seq(P)
  BY DEF WellFormed, OriginInv
<1>2. DOMAIN buildSet = 1 .. Len(buildSet) /\ Len(buildSet) \in Nat
  <2> HIDE DEF P
  <2> QED
    BY <1>1, LenProperties
<1>3. ASSUME NEW q \in DOMAIN buildSet
      PROVE  /\ Len(buildSet[q].tasks) \in Nat
             /\ DOMAIN buildSet[q].tasks = 1 .. Len(buildSet[q].tasks)
  <2>1. buildSet[q] \in P
    <3> HIDE DEF P
    <3> QED
      BY <1>1, <1>2, ElementOfSeq
  <2>2. buildSet[q].tasks \in Seq(Elements(Text))
    BY <2>1
  <2> QED
    BY <2>2, LenProperties
<1> QED
  BY <1>2, <1>3

\* A place loadConfig has passed, by its numbers.
LEMMA PlacesBeforeMember ==
  ASSUME NEW name, NEW element, NEW pl, NEW p0, NEW k0
  PROVE  pl \in PlacesBefore(name, element, p0, k0) <=>
           \E q \in DOMAIN buildSet : \E k \in DOMAIN buildSet[q].tasks :
             /\ pl = <<q, k>> /\ buildSet[q].name = name /\ buildSet[q].tasks[k] = element
             /\ q < p0 \/ (q = p0 /\ k < k0)
<1>1. ASSUME NEW q, NEW k, pl = <<q, k>> PROVE pl[1] = q /\ pl[2] = k
  BY <1>1
<1>2. pl \in PlacesBefore(name, element, p0, k0) <=>
        pl \in Places(name, element) /\ (pl[1] < p0 \/ (pl[1] = p0 /\ pl[2] < k0))
  BY DEF PlacesBefore
<1> QED
  BY <1>1, <1>2, PlacesMember

LEMMA PassedMember ==
  ASSUME NEW name, NEW element, NEW pl
  PROVE  pl \in Passed(name, element) <=>
           \E q \in DOMAIN buildSet : \E k \in DOMAIN buildSet[q].tasks :
             /\ pl = <<q, k>> /\ buildSet[q].name = name /\ buildSet[q].tasks[k] = element
             /\ q < project \/ (q = project /\ k < task)
BY PlacesBeforeMember DEF Passed

LEMMA NextProjectCounts ==
  ASSUME NEW Text, WellFormed(Text), OriginInv, CountInv, NextProject
  PROVE  CountInv'
<1>1. /\ buildSet' = buildSet /\ pc' = pc /\ id' = id /\ tasks' = tasks
      /\ project' = project + 1 /\ task' = 1 /\ pc = "loading"
      /\ Known => task > Len(buildSet[project].tasks)
  BY DEF NextProject, AtProject
<1>2. /\ Len(buildSet) \in Nat /\ DOMAIN buildSet = 1 .. Len(buildSet)
      /\ \A q \in DOMAIN buildSet :
           /\ Len(buildSet[q].tasks) \in Nat
           /\ DOMAIN buildSet[q].tasks = 1 .. Len(buildSet[q].tasks)
  BY BuildSetType
<1>3. project \in Nat \ {0} /\ task \in Nat \ {0}
  BY DEF OriginInv
<1>4. ASSUME NEW name \in DOMAIN Path, NEW element PROVE Passed(name, element)' = Passed(name, element)
  <2> SUFFICES ASSUME NEW pl PROVE pl \in Passed(name, element)' <=> pl \in Passed(name, element)
    OBVIOUS
  <2> DEFINE Is(q, k) == pl = <<q, k>> /\ buildSet[q].name = name /\ buildSet[q].tasks[k] = element
  <2>1. pl \in Passed(name, element)' <=>
          \E q \in DOMAIN buildSet : \E k \in DOMAIN buildSet[q].tasks :
            Is(q, k) /\ (q < project + 1 \/ (q = project + 1 /\ k < 1))
    <3>1. Passed(name, element)' = PlacesBefore(name, element, project + 1, 1)
      BY <1>1 DEF Passed, PlacesBefore, Places
    <3> QED
      BY <3>1, PlacesBeforeMember
  <2>2. ASSUME NEW q \in DOMAIN buildSet, NEW k \in DOMAIN buildSet[q].tasks, Is(q, k)
        PROVE  (q < project + 1 \/ (q = project + 1 /\ k < 1)) <=> (q < project \/ (q = project /\ k < task))
    <3>1. q \in Nat /\ k \in Nat /\ k >= 1 /\ k <= Len(buildSet[q].tasks) /\ Len(buildSet[q].tasks) \in Nat
      BY <1>2
    <3>2. q = project => k < task
      BY <1>1, <1>3, <2>2, <3>1 DEF Known
    <3> QED
      BY <1>3, <3>1, <3>2
  <2>3. pl \in Passed(name, element) <=>
          \E q \in DOMAIN buildSet : \E k \in DOMAIN buildSet[q].tasks :
            Is(q, k) /\ (q < project \/ (q = project /\ k < task))
    BY PassedMember
  <2> HIDE DEF Is
  <2> QED
    BY <2>1, <2>2, <2>3
<1>5. \A name, element, file : Matching(name, element, file)' = Matching(name, element, file)
  BY <1>1 DEF Matching
<1>6. ASSUME NEW name \in DOMAIN Path, NEW element, NEW file, Counted(name, element, file)
      PROVE  Counted(name, element, file)'
  BY <1>4, <1>5, <1>6 DEF Counted
<1> QED
  BY <1>1, <1>6 DEF CountInv

LEMMA NextTaskCounts ==
  ASSUME NEW Text, WellFormed(Text), StarThenEnding(Text), TableInv, OriginInv, CountInv, NextTask
  PROVE  CountInv'
<1> DEFINE element0 == buildSet[project].tasks[task]
           name0    == buildSet[project].name
           vars0    == ProjectVars(name0)
<1>0. PICK e0, n0 : e0 = element0 /\ n0 = name0
  OBVIOUS
<1>1. buildSet' = buildSet /\ project' = project /\ id \in Nat /\ pc = "loading"
  BY DEF NextTask, TableInv, AtProject
<1>2. CASE Throws(e0, ProjectVars(n0))
  <2>1. UNCHANGED <<id, tasks, task>> /\ pc' = "exception"
    BY <1>0, <1>2 DEF NextTask
  <2>2. /\ \A name, element, file : Matching(name, element, file)' = Matching(name, element, file)
        /\ \A name, element : Passed(name, element)' = Passed(name, element)
    BY <1>1, <2>1 DEF Matching, Passed, PlacesBefore, Places
  <2>3. \A name, element, file : Counted(name, element, file) => Counted(name, element, file)'
    BY <2>2 DEF Counted
  <2> QED
    BY <2>1, <2>3 DEF CountInv
<1>3. CASE ~Throws(e0, ProjectVars(n0))
  <2>1. task' = task + 1 /\ pc' = pc
    BY <1>0, <1>3 DEF NextTask
  <2>2. PICK sources \in Sources(e0, ProjectVars(n0)) :
          /\ Len(sources) \in Nat /\ DOMAIN sources = 1 .. Len(sources) /\ id' = id + Len(sources)
          /\ \A i \in 1 .. id : tasks'[i] = tasks[i]
          /\ \A i \in 1 .. id' : i \notin 1 .. id =>
               /\ i - id \in 1 .. Len(sources)
               /\ tasks'[i] = TaskInfo(i, TaskVars(e0, ProjectVars(n0), sources[i - id]), e0)
    BY <1>0, <1>3, NextTaskAppends
  <2>3. /\ project \in DOMAIN buildSet /\ task \in DOMAIN buildSet[project].tasks
        /\ n0 \in DOMAIN Path /\ OfBuildSet(n0, e0)
    BY <1>0, AtElement
  <2>4. /\ Len(buildSet) \in Nat /\ DOMAIN buildSet = 1 .. Len(buildSet)
        /\ \A q \in DOMAIN buildSet :
             /\ Len(buildSet[q].tasks) \in Nat
             /\ DOMAIN buildSet[q].tasks = 1 .. Len(buildSet[q].tasks)
    BY BuildSetType
  <2>5. project \in Nat \ {0} /\ task \in Nat \ {0}
    BY DEF OriginInv
  <2>6. ASSUME NEW i \in 1 .. id', i \notin 1 .. id
        PROVE  /\ tasks'[i].message.project = n0 /\ tasks'[i].element = e0
               /\ IsWildcard(e0) => tasks'[i].vars.SourceFile = sources[i - id]
    <3>1. PICK s, v : s = sources[i - id] /\ v = TaskVars(e0, ProjectVars(n0), s)
      OBVIOUS
    <3>2. i - id \in 1 .. Len(sources) /\ tasks'[i] = TaskInfo(i, v, e0)
      BY <2>2, <2>6, <3>1
    <3>3. IsSource(e0, n0, s)
      BY <1>3, <2>2, <3>1, <3>2, SourcesAreSources
    <3>4. v.PName = <<n0>> /\ (IsWildcard(e0) => v.SourceFile = s)
      BY <2>3, <3>1, <3>3, TaskValues
    <3>5. tasks'[i].vars = v /\ tasks'[i].element = e0 /\ tasks'[i].message.project = v.PName[1]
      BY <3>2 DEF TaskInfo, Message
    <3> QED
      BY <3>1, <3>4, <3>5
  <2>7. ASSUME NEW name \in DOMAIN Path, NEW element, NEW file, OfBuildSet(name, element),
               IsWildcard(element), file \in MatchingFiles(name, element), Counted(name, element, file)
        PROVE  Counted(name, element, file)'
    <3> DEFINE Old == Matching(name, element, file)
               here == <<project, task>>
    <3>1. /\ Matching(name, element, file)' =
               Old \cup {i \in 1 .. id' : /\ i \notin 1 .. id /\ n0 = name /\ e0 = element
                                          /\ sources[i - id] = file}
          /\ IsFiniteSet(Old) /\ Old \subseteq 1 .. id
      <4>1. Old \subseteq 1 .. id
        BY DEF Matching
      <4>2. IsFiniteSet(Old)
        <5> HIDE DEF Old
        <5>1. IsFiniteSet(1 .. id)
          BY <1>1, FS_Interval
        <5> QED
          BY <4>1, <5>1, FS_Subset
      <4>3. ASSUME NEW i
            PROVE  i \in Matching(name, element, file)' <=>
                     \/ i \in Old
                     \/ i \in 1 .. id' /\ i \notin 1 .. id /\ n0 = name /\ e0 = element /\ sources[i - id] = file
        <5>1. i \in Matching(name, element, file)' <=>
                /\ i \in 1 .. id' /\ tasks'[i].message.project = name /\ tasks'[i].element = element
                /\ tasks'[i].vars.SourceFile = file
          BY DEF Matching
        <5>2. CASE i \in 1 .. id
          <6>1. i \in 1 .. id' /\ tasks'[i] = tasks[i]
            BY <1>1, <2>2, <5>2
          <6> QED
            BY <5>1, <5>2, <6>1 DEF Matching
        <5>3. CASE i \notin 1 .. id
          BY <2>6, <2>7, <4>1, <5>1, <5>3
        <5> QED
          BY <5>2, <5>3
      <4> HIDE DEF Old
      <4> QED
        BY <4>1, <4>2, <4>3
    <3>2. Passed(name, element)' =
            Passed(name, element) \cup (IF n0 = name /\ e0 = element THEN {here} ELSE {})
      <4> SUFFICES ASSUME NEW pl
                   PROVE  pl \in Passed(name, element)' <=>
                            pl \in Passed(name, element) \/ (pl = here /\ n0 = name /\ e0 = element)
        OBVIOUS
      <4> DEFINE Is(q, k) == pl = <<q, k>> /\ buildSet[q].name = name /\ buildSet[q].tasks[k] = element
      <4>1. pl \in Passed(name, element)' <=>
              \E q \in DOMAIN buildSet : \E k \in DOMAIN buildSet[q].tasks :
                Is(q, k) /\ (q < project \/ (q = project /\ k < task + 1))
        <5>1. Passed(name, element)' = PlacesBefore(name, element, project, task + 1)
          BY <1>1, <2>1 DEF Passed, PlacesBefore, Places
        <5> QED
          BY <5>1, PlacesBeforeMember
      <4>2. pl \in Passed(name, element) <=>
              \E q \in DOMAIN buildSet : \E k \in DOMAIN buildSet[q].tasks :
                Is(q, k) /\ (q < project \/ (q = project /\ k < task))
        BY PassedMember
      <4>3. \A q \in DOMAIN buildSet : \A k \in DOMAIN buildSet[q].tasks :
              (q < project \/ (q = project /\ k < task + 1))
                <=> (q < project \/ (q = project /\ k < task)) \/ (q = project /\ k = task)
        BY <2>4, <2>5
      <4>4. (pl = here /\ n0 = name /\ e0 = element) <=> Is(project, task)
        BY <1>0
      <4> HIDE DEF Is, here
      <4> QED
        BY <2>3, <4>1, <4>2, <4>3, <4>4
    <3>3. IsFiniteSet(Passed(name, element)) /\ Cardinality(Old) = Cardinality(Passed(name, element))
      BY <2>7 DEF Counted
    <3>4. CASE n0 = name /\ e0 = element
      <4>1. file \in FoundFiles(name, element)
        BY <1>3, <2>7, <3>4, MatchingIsFound
      <4>2. PICK j \in 1 .. Len(sources) : \A k \in 1 .. Len(sources) : sources[k] = file <=> k = j
        BY <1>3, <2>2, <2>7, <3>4, <4>1, FoundOnce
      <4>3. id + j \in 1 .. id' /\ id + j \notin 1 .. id /\ (id + j) - id = j
        BY <1>1, <2>2
      <4>4. ASSUME NEW i \in 1 .. id', i \notin 1 .. id PROVE sources[i - id] = file <=> i = id + j
        <5>1. i - id \in 1 .. Len(sources) /\ (i - id = j <=> i = id + j)
          BY <1>1, <2>2, <4>4
        <5> QED
          BY <4>2, <5>1
      <4>5. Matching(name, element, file)' = Old \cup {id + j}
        BY <3>1, <3>4, <4>3, <4>4
      <4>6. id + j \notin Old
        BY <3>1, <4>3
      <4>7. Passed(name, element)' = Passed(name, element) \cup {here}
        BY <3>2, <3>4
      <4>8. here \notin Passed(name, element)
        <5> SUFFICES ASSUME here \in Passed(name, element) PROVE FALSE
          OBVIOUS
        <5>1. PICK q \in DOMAIN buildSet : \E k \in DOMAIN buildSet[q].tasks :
                here = <<q, k>> /\ (q < project \/ (q = project /\ k < task))
          BY PassedMember
        <5>2. PICK k \in DOMAIN buildSet[q].tasks :
                here = <<q, k>> /\ (q < project \/ (q = project /\ k < task))
          BY <5>1
        <5>3. q = project /\ k = task
          BY <5>2
        <5> QED
          BY <2>5, <5>2, <5>3
      <4> HIDE DEF Old, here
      <4>9. Cardinality(Old \cup {id + j}) = Cardinality(Old) + 1
        BY <3>1, <4>6, FS_AddElement
      <4>10. /\ IsFiniteSet(Passed(name, element) \cup {here})
             /\ Cardinality(Passed(name, element) \cup {here}) = Cardinality(Passed(name, element)) + 1
        BY <3>3, <4>8, FS_AddElement
      <4> QED
        BY <3>3, <4>5, <4>7, <4>9, <4>10 DEF Counted
    <3>5. CASE ~(n0 = name /\ e0 = element)
      <4>1. Matching(name, element, file)' = Old
        BY <3>1, <3>5
      <4>2. Passed(name, element)' = Passed(name, element)
        BY <3>2, <3>5
      <4> QED
        BY <3>3, <4>1, <4>2 DEF Counted
    <3> QED
      BY <3>4, <3>5
  <2> QED
    BY <1>1, <2>1, <2>7 DEF CountInv
<1> QED
  BY <1>2, <1>3

\* For every build set whose strings are well formed and whose wildcards are a
\* directory, a star and an ending: when loadConfig returns true, each file that
\* matches a wildcard is a task as often as the wildcard is in the build set, in
\* whatever order the directory is listed.
THEOREM WildcardIsCompleteHolds ==
  ASSUME NEW Text, WellFormed(Text), StarThenEnding(Text)
  PROVE  BsSpec => []WildcardIsComplete
<1>1. BsInit => CountInv
  <2> SUFFICES ASSUME BsInit, NEW name, NEW element, NEW file PROVE Counted(name, element, file)
    BY DEF BsInit, CountInv
  <2>1. Matching(name, element, file) = {}
    BY DEF BsInit, Matching
  <2>2. Passed(name, element) = {}
    <3> SUFFICES ASSUME NEW pl \in Passed(name, element) PROVE FALSE
      OBVIOUS
    <3>1. PICK q \in DOMAIN buildSet : \E k \in DOMAIN buildSet[q].tasks :
            q < 1 \/ (q = 1 /\ k < 1)
      BY PassedMember DEF BsInit
    <3>2. DOMAIN buildSet = 1 .. Len(buildSet)
            /\ \A p \in DOMAIN buildSet : DOMAIN buildSet[p].tasks = 1 .. Len(buildSet[p].tasks)
      <4>1. OriginInv
        BY DEF BsInit, OriginInv
      <4> QED
        BY <4>1, BuildSetType
    <3> QED
      BY <3>1, <3>2
  <2> QED
    BY <2>1, <2>2, FS_EmptySet DEF Counted
<1>2. TableInv /\ OriginInv /\ CountInv /\ [BsNext]_bsVars => CountInv'
  <2> SUFFICES ASSUME TableInv, OriginInv, CountInv, [BsNext]_bsVars PROVE CountInv'
    OBVIOUS
  <2>1. CASE NextTask
    BY <2>1, NextTaskCounts
  <2>2. CASE NextProject
    BY <2>2, NextProjectCounts
  <2>3. CASE LoadFails \/ Loaded \/ UNCHANGED bsVars
    <3>1. UNCHANGED <<buildSet, project, task, id, tasks>>
      BY <2>3 DEF LoadFails, Loaded, bsVars
    <3>2. pc' = "true" => project' > Len(buildSet')
      BY <2>3, <3>1 DEF LoadFails, Loaded, bsVars, CountInv
    <3>3. \A name, element, file : Counted(name, element, file)' <=> Counted(name, element, file)
      BY <3>1 DEF Counted, Matching, Passed, PlacesBefore, Places
    <3> QED
      BY <3>2, <3>3 DEF CountInv
  <2> QED
    BY <2>1, <2>2, <2>3 DEF BsNext
<1>3. TableInv /\ OriginInv /\ CountInv => WildcardIsComplete
  <2> SUFFICES ASSUME TableInv, OriginInv, CountInv, pc = "true",
                      NEW p \in DOMAIN buildSet, buildSet[p].name \in DOMAIN Path,
                      NEW element \in Range(buildSet[p].tasks), IsWildcard(element),
                      NEW file \in MatchingFiles(buildSet[p].name, element)
               PROVE  LET name == buildSet[p].name
                      IN  Cardinality({i \in DOMAIN tasks :
                            /\ tasks[i].message.project = name /\ tasks[i].element = element
                            /\ tasks[i].vars.SourceFile = file})
                          = Cardinality(Places(name, element))
    BY DEF WildcardIsComplete
  <2> DEFINE name == buildSet[p].name
  <2>1. OfBuildSet(name, element)
    <3>1. PICK k \in DOMAIN buildSet[p].tasks : buildSet[p].tasks[k] = element
      BY DEF Range
    <3> QED
      BY <3>1 DEF OriginInv, OfBuildSet
  <2>2. Cardinality(Matching(name, element, file)) = Cardinality(Passed(name, element))
    BY <2>1 DEF CountInv, Counted
  <2>3. DOMAIN tasks = 1 .. id
    BY DEF TableInv
  <2>4. Passed(name, element) = Places(name, element)
    <3> SUFFICES ASSUME NEW pl PROVE pl \in Passed(name, element) <=> pl \in Places(name, element)
      OBVIOUS
    <3>1. DOMAIN buildSet = 1 .. Len(buildSet) /\ Len(buildSet) \in Nat
      BY BuildSetType
    <3>2. project \in Nat /\ project > Len(buildSet)
      BY DEF CountInv, OriginInv
    <3>3. \A q \in DOMAIN buildSet : q < project
      BY <3>1, <3>2
    <3> QED
      BY <3>3, PassedMember, PlacesMember
  <2> QED
    BY <2>2, <2>3, <2>4 DEF Matching
<1>4. BsSpec => []CountInv
  BY <1>1, <1>2, OriginInvariant, PTL DEF BsSpec
<1> QED
  BY <1>3, <1>4, OriginInvariant, PTL

-----------------------------------------------------------------------------
(***************************************************************************)
(* FilesStayApart.  Two sources of a wildcard differ in the name of the    *)
(* file, and this stays as it is when the project is moved.  Two outputs   *)
(* are made of one string; the raw names of the files, for one of its      *)
(* tokens, differ, and no other token can make up for it.  A source and an *)
(* output have different endings.                                          *)
(***************************************************************************)
LEMMA CatCancel ==
  ASSUME NEW T, NEW a \in Seq(T), NEW b \in Seq(T), NEW c \in Seq(T), NEW d \in Seq(T),
         Cat(a, b) = Cat(c, d), Len(a) = Len(c)
  PROVE  a = c /\ b = d
<1>1. SubSeq(a \o b, 1, Len(a)) = a /\ SubSeq(a \o b, Len(a) + 1, Len(a \o b)) = b
  BY PartsOfCat
<1>2. SubSeq(c \o d, 1, Len(c)) = c /\ SubSeq(c \o d, Len(c) + 1, Len(c \o d)) = d
  BY PartsOfCat
<1>3. PICK u, v : u = a \o b /\ v = c \o d
  OBVIOUS
<1>4. u = v
  BY <1>3 DEF Cat
<1> QED
  BY <1>1, <1>2, <1>3, <1>4

LEMMA CatLength ==
  ASSUME NEW T
  PROVE  \A a, b \in Seq(T) : Len(Cat(a, b)) = Len(a) + Len(b) /\ Len(a) \in Nat /\ Len(b) \in Nat
BY ConcatProperties, LenProperties DEF Cat

LEMMA LastOfCat ==
  ASSUME NEW T, NEW a \in Seq(T), NEW b \in Seq(T), b # <<>>
  PROVE  Last(Cat(a, b)) = Last(b)
<1>1. /\ Len(a \o b) = Len(a) + Len(b)
      /\ \A i \in 1 .. Len(a) + Len(b) : (a \o b)[i] = IF i <= Len(a) THEN a[i] ELSE b[i - Len(a)]
  BY ConcatProperties
<1>2. Len(a) \in Nat /\ Len(b) \in Nat \ {0}
  BY EmptySeq, LenProperties
<1>3. /\ Len(a) + Len(b) \in 1 .. Len(a) + Len(b) /\ ~(Len(a) + Len(b) <= Len(a))
      /\ (Len(a) + Len(b)) - Len(a) = Len(b)
  BY <1>2
<1>4. (a \o b)[Len(a \o b)] = b[Len(b)]
  BY <1>1, <1>3
<1> QED
  BY <1>4 DEF Cat, Last

\* The source file of a wildcard's task: a directory and a name that ends as the
\* wildcard does.
NameOf(Text, element, source, prefix, file) ==
  /\ file \in Seq(Text) /\ file # <<>>
  /\ source = prefix \o file
  /\ \A j \in 1 .. Len(file) : file[j] # "\\" /\ \A p \in DOMAIN Path : file[j] # Path[p]
  /\ Last(file) = Last(element.SourceFile)

LEMMA SourceName ==
  ASSUME NEW Text, WellFormed(Text), FileNames, StarThenEnding(Text),
         NEW name \in DOMAIN Path, NEW element, OfBuildSet(name, element), IsWildcard(element),
         NEW source, IsSource(element, name, source),
         NEW prefix, EntryPrefix(Text, Dir(replace(ProjectVars(name), element.SourceFile)), prefix)
  PROVE  \E file : NameOf(Text, element, source, prefix, file)
<1> DEFINE str  == replace(ProjectVars(name), element.SourceFile)
           dir  == Dir(str)
           mask == Mask(str)
<1>1. /\ dir \in Seq(Text) /\ mask \in Seq(Text) /\ mask # <<>>
      /\ \A j \in 1 .. Len(mask) : mask[j] # "\\"
      /\ Last(element.SourceFile) = Last(mask)
  BY PatternParts
<1>2. dir \in DOMAIN Directory /\ source \in Entries(dir) /\ IsSuffix(mask, source)
  BY DEF IsSource
<1> HIDE DEF mask, dir, str
<1>3. PICK file \in Directory[dir] : source = Entry(dir, file)
  BY <1>2 DEF Entries
<1>4. /\ file \in Seq(Text)
      /\ \A j \in 1 .. Len(file) : file[j] # "\\" /\ \A p \in DOMAIN Path : file[j] # Path[p]
  <2>1. file \in Seq(Text)
    BY <1>2, <1>3 DEF WellFormed
  <2>2. DOMAIN file = 1 .. Len(file)
    BY <2>1, LenProperties
  <2> QED
    BY <1>2, <1>3, <2>1, <2>2 DEF FileNames
<1>5. /\ prefix \in Seq(Text) /\ source = prefix \o file
      /\ prefix # <<>> => prefix[Len(prefix)] = "\\"
  BY <1>3, <1>4 DEF EntryPrefix, dir, str
<1>6. source \in Seq(Text)
  BY <1>4, <1>5, ConcatProperties
<1>7. Len(mask) \in Nat \ {0} /\ Len(source) \in Nat /\ Len(mask) <= Len(source)
  BY <1>1, <1>2, <1>6, EmptySeq, LenProperties, SuffixTokens
<1>8. Last(mask) = Last(source)
  <2>1. \A k \in 1 .. Len(mask) : mask[(Len(mask) - k) + 1] = source[(Len(source) - k) + 1]
    BY <1>1, <1>2, <1>6, SuffixTokens
  <2>2. 1 \in 1 .. Len(mask) /\ (Len(mask) - 1) + 1 = Len(mask) /\ (Len(source) - 1) + 1 = Len(source)
    BY <1>7
  <2>3. mask[(Len(mask) - 1) + 1] = source[(Len(source) - 1) + 1]
    BY <2>1, <2>2
  <2> QED
    BY <2>2, <2>3 DEF Last
<1>9. Last(mask) # "\\"
  BY <1>1, <1>7 DEF Last
<1>10. file # <<>>
  <2> SUFFICES ASSUME file = <<>> PROVE FALSE
    OBVIOUS
  <2>1. source = prefix
    BY <1>5, ConcatEmptySeq
  <2>2. prefix # <<>>
    BY <1>7, <2>1, EmptySeq
  <2> QED
    BY <1>5, <1>8, <1>9, <2>1, <2>2 DEF Last
<1>11. Last(source) = Last(file)
  BY <1>4, <1>5, <1>10, LastOfCat DEF Cat
<1> QED
  BY <1>1, <1>4, <1>5, <1>8, <1>10, <1>11 DEF NameOf

\* Its raw name is the name without the ending.
LEMMA RawNameOf ==
  ASSUME NEW Text, NEW element, NEW source, NEW prefix, NEW file, NEW dir,
         EntryPrefix(Text, dir, prefix), NameOf(Text, element, source, prefix, file)
  PROVE  /\ RawFilename(source) \in Seq(Text)
         /\ Len(RawFilename(source)) = Len(file) - 1
         /\ \A j \in 1 .. Len(file) - 1 : RawFilename(source)[j] = file[j]
<1> DEFINE l == Len(prefix)
           m == Len(file)
<1>1. /\ prefix \in Seq(Text) /\ (prefix # <<>> => prefix[l] = "\\")
      /\ file \in Seq(Text) /\ file # <<>> /\ source = prefix \o file
      /\ \A j \in 1 .. m : file[j] # "\\"
  BY DEF EntryPrefix, NameOf
<1>2. l \in Nat /\ m \in Nat \ {0} /\ (prefix # <<>> => l # 0) /\ (prefix = <<>> => l = 0)
  BY <1>1, EmptySeq, LenProperties
<1>3. /\ source \in Seq(Text) /\ Len(source) = l + m
      /\ \A i \in 1 .. l + m : source[i] = IF i <= l THEN prefix[i] ELSE file[i - l]
  <2>1. prefix \in Seq(Text) /\ file \in Seq(Text)
    BY <1>1
  <2>2. /\ prefix \o file \in Seq(Text) /\ Len(prefix \o file) = l + m
        /\ \A i \in 1 .. l + m : (prefix \o file)[i] = IF i <= l THEN prefix[i] ELSE file[i - l]
    BY <2>1, ConcatProperties
  <2>3. source = prefix \o file
    BY <1>1
  <2> QED
    BY <2>2, <2>3
<1> HIDE DEF l, m
<1>4. \A i \in 1 .. l + m : i > l => source[i] # "\\"
  <2> SUFFICES ASSUME NEW i \in 1 .. l + m, i > l PROVE source[i] # "\\"
    OBVIOUS
  <2>1. i - l \in 1 .. m /\ ~(i <= l)
    BY <1>2
  <2> QED
    BY <1>1, <1>3, <2>1
<1>5. LastSlash(source) = l
  <2>1. CASE prefix = <<>>
    <3>1. \A i \in 1 .. Len(source) : source[i] # "\\"
      BY <1>2, <1>3, <1>4, <2>1
    <3>2. LastSlash(source) = 0
      BY <1>3, <3>1, NoSlash
    <3> QED
      BY <1>2, <2>1, <3>2
  <2>2. CASE prefix # <<>>
    <3>1. l \in 1 .. Len(source) /\ source[l] = "\\"
      BY <1>1, <1>2, <1>3, <2>2
    <3>2. \A j \in 1 .. Len(source) : j > l => source[j] # "\\"
      BY <1>3, <1>4
    <3> QED
      BY <1>3, <3>1, <3>2, LastSlashIs
  <2> QED
    BY <2>1, <2>2
<1> DEFINE raw == SubSeq(source, l + 1, (l + m) - 1)
<1>6. RawFilename(source) = raw
  BY <1>3, <1>5 DEF RawFilename
<1>7. \A i \in l + 1 .. (l + m) - 1 : source[i] \in Text
  <2>1. \A i \in l + 1 .. (l + m) - 1 : i \in 1 .. l + m
    BY <1>2
  <2>2. \A i \in 1 .. l + m : source[i] \in Text
    BY <1>3, ElementOfSeq
  <2> QED
    BY <2>1, <2>2
<1>8. /\ raw \in Seq(Text)
      /\ Len(raw) = (IF l + 1 <= (l + m) - 1 THEN ((l + m) - 1) - (l + 1) + 1 ELSE 0)
      /\ \A j \in 1 .. ((l + m) - 1) - (l + 1) + 1 : raw[j] = source[(l + 1) + j - 1]
  <2>1. l + 1 \in Int /\ (l + m) - 1 \in Int
    BY <1>2
  <2> QED
    BY <1>7, <2>1, SubSeqProperties
<1> HIDE DEF raw
<1>9. Len(raw) = m - 1
  BY <1>2, <1>8
<1>10. ASSUME NEW j \in 1 .. m - 1 PROVE raw[j] = file[j]
  <2>1. /\ j \in 1 .. ((l + m) - 1) - (l + 1) + 1 /\ (l + 1) + j - 1 = l + j
        /\ l + j \in 1 .. l + m /\ ~(l + j <= l) /\ (l + j) - l = j
    BY <1>2
  <2>2. raw[j] = source[l + j]
    BY <1>8, <2>1
  <2>3. source[l + j] = file[j]
    BY <1>3, <2>1
  <2> QED
    BY <2>2, <2>3
<1> QED
  BY <1>6, <1>8, <1>9, <1>10 DEF m

\* A string of the build set as the daemon has it: substituted and moved.
MovedTo(vars, path, work, s) == String_replace(replace(vars, s), path, work)

LEMMA MovedToPiecewise ==
  ASSUME NEW T, NEW vars, HasValues(vars, T), NEW path, NEW work \in Seq(T), NEW s \in Seq(T), NEW t \in Seq(T)
  PROVE  /\ MovedTo(vars, path, work, s) \in Seq(T)
         /\ MovedTo(vars, path, work, Cat(s, t)) = Cat(MovedTo(vars, path, work, s), MovedTo(vars, path, work, t))
<1>1. /\ replace(vars, s) \in Seq(T) /\ replace(vars, t) \in Seq(T)
      /\ replace(vars, Cat(s, t)) = Cat(replace(vars, s), replace(vars, t))
  BY replacePiecewise
<1>2. Piecewise(T, path, work)
  BY ReplacePiecewise
<1> QED
  BY <1>1, <1>2 DEF MovedTo, Piecewise

LEMMA MovedToEmpty ==
  ASSUME NEW vars, NEW path, NEW work
  PROVE  MovedTo(vars, path, work, <<>>) = <<>>
BY replaceEmpty, ReplaceEmpty DEF MovedTo

\* Two strings that are made of one, token by token: if no token is longer in
\* the first and one token differs, the strings differ.
LEMMA OneTokenDiffers ==
  ASSUME NEW T, NEW W, W \subseteq T, NEW path, NEW work \in Seq(T),
         NEW va, HasValues(va, T), NEW vb, HasValues(vb, T), NEW d,
         \A c \in W : Len(MovedTo(va, path, work, <<c>>)) <= Len(MovedTo(vb, path, work, <<c>>)),
         MovedTo(va, path, work, <<d>>) # MovedTo(vb, path, work, <<d>>)
  PROVE  \A s \in Seq(W) : Contains(s, d) => MovedTo(va, path, work, s) # MovedTo(vb, path, work, s)
<1> DEFINE A(s) == MovedTo(va, path, work, s)
           B(s) == MovedTo(vb, path, work, s)
           S == {s \in Seq(W) : Len(A(s)) <= Len(B(s)) /\ (Contains(s, d) => A(s) # B(s))}
<1>1. <<>> \in S
  <2>1. A(<<>>) = <<>> /\ B(<<>>) = <<>>
    BY MovedToEmpty
  <2>2. ~Contains(<<>>, d)
    BY DEF Contains
  <2> QED
    BY <2>1, <2>2, EmptySeq
<1>2. ASSUME NEW s \in Seq(W), NEW c \in W, s \in S PROVE Append(s, c) \in S
  <2> DEFINE one == <<c>>
  <2>1. /\ Append(s, c) = Cat(s, one) /\ Append(s, c) \in Seq(W)
        /\ s \in Seq(T) /\ one \in Seq(T)
    BY CatLast, AppendProperties, SeqMonotonic
  <2>2. Len(A(s)) <= Len(B(s)) /\ (Contains(s, d) => A(s) # B(s))
    BY <1>2
  <2>3. Len(A(one)) <= Len(B(one)) /\ (c = d => A(one) # B(one))
    OBVIOUS
  <2>4. Contains(Append(s, c), d) => Contains(s, d) \/ c = d
    <3>1. /\ Len(Append(s, c)) = Len(s) + 1 /\ Append(s, c)[Len(s) + 1] = c
          /\ \A i \in 1 .. Len(s) : Append(s, c)[i] = s[i]
      BY AppendProperties
    <3>2. Len(s) \in Nat /\ \A i \in 1 .. Len(s) + 1 : i \in 1 .. Len(s) \/ i = Len(s) + 1
      BY LenProperties
    <3> QED
      BY <3>1, <3>2 DEF Contains
  <2> HIDE DEF one
  <2>5. A(s) \in Seq(T) /\ A(one) \in Seq(T) /\ A(Cat(s, one)) = Cat(A(s), A(one))
    <3>1. MovedTo(va, path, work, s) \in Seq(T)
      BY <2>1, MovedToPiecewise
    <3>2. MovedTo(va, path, work, one) \in Seq(T)
      BY <2>1, MovedToPiecewise
    <3>3. MovedTo(va, path, work, Cat(s, one)) = Cat(MovedTo(va, path, work, s), MovedTo(va, path, work, one))
      BY <2>1, MovedToPiecewise
    <3> QED
      BY <3>1, <3>2, <3>3
  <2>6. B(s) \in Seq(T) /\ B(one) \in Seq(T) /\ B(Cat(s, one)) = Cat(B(s), B(one))
    <3>1. MovedTo(vb, path, work, s) \in Seq(T)
      BY <2>1, MovedToPiecewise
    <3>2. MovedTo(vb, path, work, one) \in Seq(T)
      BY <2>1, MovedToPiecewise
    <3>3. MovedTo(vb, path, work, Cat(s, one)) = Cat(MovedTo(vb, path, work, s), MovedTo(vb, path, work, one))
      BY <2>1, MovedToPiecewise
    <3> QED
      BY <3>1, <3>2, <3>3
  <2> HIDE DEF A, B
  <2>7. /\ Len(Cat(A(s), A(one))) = Len(A(s)) + Len(A(one)) /\ Len(A(s)) \in Nat /\ Len(A(one)) \in Nat
        /\ Len(Cat(B(s), B(one))) = Len(B(s)) + Len(B(one)) /\ Len(B(s)) \in Nat /\ Len(B(one)) \in Nat
    BY <2>5, <2>6, CatLength
  <2>8. Len(A(Append(s, c))) <= Len(B(Append(s, c)))
    BY <2>1, <2>2, <2>3, <2>5, <2>6, <2>7
  <2>9. ASSUME Contains(Append(s, c), d), A(Append(s, c)) = B(Append(s, c)) PROVE FALSE
    <3>1. Cat(A(s), A(one)) = Cat(B(s), B(one))
      BY <2>1, <2>5, <2>6, <2>9
    <3>2. Len(A(s)) = Len(B(s))
      BY <2>2, <2>3, <2>7, <3>1
    <3>3. A(s) = B(s) /\ A(one) = B(one)
      BY <2>5, <2>6, <3>1, <3>2, CatCancel
    <3> QED
      BY <2>2, <2>3, <2>4, <2>9, <3>3
  <2> QED
    BY <2>1, <2>8, <2>9 DEF A, B
<1> HIDE DEF S
<1>3. \A s \in Seq(W) : s \in S
  BY <1>1, <1>2, SequenceInduction
<1> QED
  BY <1>3 DEF S

\* The output file of a task is made by step 2 from the variables of step 1,
\* which are those of the task but for the output file.
OutputVars(Text, element, vars, v) ==
  /\ vars.OutputFile = replace(v, element.OutputFile)
  /\ HasValues(v, Text \cup Variables)
  /\ \A c \in Text \cup OutputVariables : Value(v, c) = Value(vars, c) /\ Value(v, c) \in Seq(Text)

LEMMA OutputOfTask ==
  ASSUME NEW Text, WellFormed(Text), NEW name \in DOMAIN Path, NEW element, OfBuildSet(name, element),
         NEW source, IsSource(element, name, source),
         NEW vars, vars = TaskVars(element, ProjectVars(name), source)
  PROVE  \E v : OutputVars(Text, element, vars, v)
<1> DEFINE T == Text \cup Variables
<1>1. HasValues(vars, Text)
  BY TaskValues
<1>2. PICK v1 : v1 = NewVars(element, ProjectVars(name), source)
  OBVIOUS
<1>3. PICK v2 : v2 = WithSource(v1)
  OBVIOUS
<1>4. /\ v2.PName = <<name>> /\ v2.PDir = <<Path[name]>> /\ v2.SDir = Options.SDir
      /\ v2.WDir = Options.WDir /\ v2.SFile = Options.SFile /\ v2.OFile = Options.OFile
      /\ v2.SourceFile = replace(v1, source) /\ v2.SourceFileName = RawFilename(replace(v1, source))
      /\ v2.OutputFile = element.OutputFile
      /\ vars.PName = <<name>> /\ vars.PDir = <<Path[name]>> /\ vars.SDir = Options.SDir
      /\ vars.WDir = Options.WDir /\ vars.SFile = Options.SFile /\ vars.OFile = Options.OFile
      /\ vars.SourceFile = v2.SourceFile /\ vars.SourceFileName = v2.SourceFileName
      /\ vars.OutputFile = replace(v2, element.OutputFile)
  BY <1>2, <1>3, TaskVarsFields
<1>5. element.OutputFile \in Seq(T)
  <2>1. element.OutputFile \in Seq(Text \cup OutputVariables)
    BY ElementType
  <2>2. Text \cup OutputVariables \subseteq T
    BY DEF Variables
  <2> QED
    BY <2>1, <2>2, SeqMonotonic
<1>6. \A s \in Seq(Text) : s \in Seq(T)
  BY SeqMonotonic
<1>7. HasValues(v2, T)
  <2> HIDE DEF T
  <2> QED
    BY <1>1, <1>4, <1>5, <1>6 DEF HasValues
<1>8. ASSUME NEW c \in Text \cup OutputVariables
      PROVE  Value(v2, c) = Value(vars, c) /\ Value(v2, c) \in Seq(Text)
  <2>1. c # "$(outputfile)"
    BY DEF WellFormed, Variables, OutputVariables, SourceVariables
  <2>2. Value(v2, c) = Value(vars, c)
    BY <1>4, <2>1 DEF Value
  <2>3. Value(vars, c) \in Seq(Text)
    BY <1>1, ValueType DEF Variables
  <2> QED
    BY <2>2, <2>3
<1> QED
  BY <1>4, <1>7, <1>8 DEF OutputVars

\* What is substituted for a token of an output file, moved.
LEMMA OutputToken ==
  ASSUME NEW Text, WellFormed(Text), NEW v, HasValues(v, Text \cup Variables),
         NEW path, NEW work, NEW c \in Text \cup OutputVariables, Value(v, c) \in Seq(Text)
  PROVE  MovedTo(v, path, work, <<c>>) = String_replace(Value(v, c), path, work)
<1> DEFINE T == Text \cup Variables
<1>1. Text \subseteq T /\ Variables \subseteq T /\ Text \cap Variables = {} /\ c \in Text \cup Variables
  BY DEF WellFormed, Variables
<1> HIDE DEF T
<1>2. HasValues(v, T)
  BY DEF T
<1>3. replace(v, <<c>>) = Value(v, c)
  BY <1>1, <1>2, replaceToken
<1> QED
  BY <1>3 DEF MovedTo

\* A file name has no path of a project in it, so it does not change when the
\* project is moved.
LEMMA NameStays ==
  ASSUME NEW Text, NEW name \in DOMAIN Path, NEW work \in Seq(Text), NEW file \in Seq(Text),
         \A j \in 1 .. Len(file) : file[j] # Path[name]
  PROVE  String_replace(file, Path[name], work) = file
<1> DEFINE T == Text \ {Path[name]}
<1>1. Len(file) \in Nat /\ file \in [1 .. Len(file) -> T]
  BY LenProperties, ElementOfSeq
<1>2. Path[name] \notin T
  OBVIOUS
<1> HIDE DEF T
<1>3. file \in Seq(T)
  BY <1>1
<1> QED
  BY <1>2, <1>3, ReplaceAbsent

Move(name, s) == String_replace(s, Path[name], WorkPath[name])

\* A task of a wildcard: its source is file in the directory prefix.
WildcardTask(Text, name, element, source, prefix, file, vars) ==
  /\ name \in DOMAIN Path /\ OfBuildSet(name, element) /\ IsWildcard(element)
  /\ IsSource(element, name, source)
  /\ vars = TaskVars(element, ProjectVars(name), source)
  /\ EntryPrefix(Text, Dir(replace(ProjectVars(name), element.SourceFile)), prefix)
  /\ NameOf(Text, element, source, prefix, file)

\* The source at the daemon: the directory has moved, the name is the same.
LEMMA MovedSource ==
  ASSUME NEW Text, WellFormed(Text), NEW name, NEW element, NEW source, NEW prefix, NEW file, NEW vars,
         WildcardTask(Text, name, element, source, prefix, file, vars)
  PROVE  /\ vars.SourceFile = source
         /\ Move(name, source) = Cat(Move(name, prefix), file)
         /\ Move(name, prefix) \in Seq(Text) /\ file \in Seq(Text) /\ file # <<>>
         /\ Last(file) = Last(element.SourceFile)
<1>1. /\ name \in DOMAIN Path /\ OfBuildSet(name, element) /\ IsWildcard(element)
      /\ IsSource(element, name, source) /\ vars = TaskVars(element, ProjectVars(name), source)
  BY DEF WildcardTask
<1>2. /\ prefix \in Seq(Text) /\ file \in Seq(Text) /\ file # <<>> /\ source = Cat(prefix, file)
      /\ Last(file) = Last(element.SourceFile)
      /\ \A j \in 1 .. Len(file) : file[j] # Path[name]
  BY <1>1 DEF WildcardTask, EntryPrefix, NameOf, Cat
<1>3. vars.SourceFile = source
  BY <1>1, TaskValues
<1>4. Path[name] \in Text /\ WorkPath[name] \in Seq(Text)
  BY <1>1 DEF WellFormed
<1>5. Piecewise(Text, Path[name], WorkPath[name])
  BY <1>4, ReplacePiecewise
<1>6. /\ Move(name, prefix) \in Seq(Text)
      /\ Move(name, Cat(prefix, file)) = Cat(Move(name, prefix), Move(name, file))
  BY <1>2, <1>5 DEF Piecewise, Move
<1>7. Move(name, file) = file
  BY <1>1, <1>2, <1>4, NameStays DEF Move
<1> QED
  BY <1>2, <1>3, <1>6, <1>7

\* What stands at the daemon for a token of the output file: the source, the raw
\* name of the source, or something all tasks of the element share.
LEMMA TokensOfOutput ==
  ASSUME NEW Text, WellFormed(Text), NEW name, NEW element, NEW source, NEW prefix, NEW file, NEW vars,
         WildcardTask(Text, name, element, source, prefix, file, vars)
  PROVE  /\ Move(name, Value(vars, "$(sourcefile)")) = Cat(Move(name, prefix), file)
         /\ Move(name, Value(vars, "$(sourcefilename)")) = RawFilename(source)
         /\ \A c \in (Text \cup OutputVariables) \ {"$(sourcefile)", "$(sourcefilename)"} :
              Value(vars, c) = Value(ProjectVars(name), c)
<1>1. /\ name \in DOMAIN Path /\ OfBuildSet(name, element) /\ IsWildcard(element)
      /\ IsSource(element, name, source) /\ vars = TaskVars(element, ProjectVars(name), source)
      /\ NameOf(Text, element, source, prefix, file)
  BY DEF WildcardTask
<1>2. PICK dir : EntryPrefix(Text, dir, prefix)
  BY DEF WildcardTask
<1>3. vars.SourceFile = source /\ Move(name, source) = Cat(Move(name, prefix), file)
  BY MovedSource
<1>4. /\ vars.PName = <<name>> /\ vars.PDir = <<Path[name]>> /\ vars.SDir = Options.SDir
      /\ vars.WDir = Options.WDir /\ vars.SFile = Options.SFile /\ vars.OFile = Options.OFile
      /\ vars.SourceFileName = RawFilename(vars.SourceFile)
  <2>1. PICK v1 : v1 = NewVars(element, ProjectVars(name), source)
    OBVIOUS
  <2>2. PICK v2 : v2 = WithSource(v1)
    OBVIOUS
  <2>3. /\ vars.PName = <<name>> /\ vars.PDir = <<Path[name]>> /\ vars.SDir = Options.SDir
        /\ vars.WDir = Options.WDir /\ vars.SFile = Options.SFile /\ vars.OFile = Options.OFile
        /\ vars.SourceFile = v2.SourceFile /\ vars.SourceFileName = v2.SourceFileName
        /\ v2.SourceFile = replace(v1, source) /\ v2.SourceFileName = RawFilename(replace(v1, source))
    BY <1>1, <2>1, <2>2, TaskVarsFields
  <2> QED
    BY <2>3
<1>5. Value(vars, "$(sourcefile)") = source
  BY <1>3 DEF Value
<1>6. Value(vars, "$(sourcefilename)") = RawFilename(source)
  BY <1>3, <1>4 DEF Value
<1>7. Move(name, RawFilename(source)) = RawFilename(source)
  <2> DEFINE raw == RawFilename(source)
  <2>1. raw \in Seq(Text)
    BY <1>1, <1>2, RawNameOf
  <2>2. Len(raw) = Len(file) - 1
    BY <1>1, <1>2, RawNameOf
  <2>3. \A j \in 1 .. Len(file) - 1 : raw[j] = file[j]
    BY <1>1, <1>2, RawNameOf
  <2>4. Len(file) \in Nat /\ \A j \in 1 .. Len(file) : file[j] # Path[name]
    BY <1>1, LenProperties DEF NameOf
  <2> HIDE DEF raw
  <2>5. \A j \in 1 .. Len(raw) : raw[j] # Path[name]
    BY <2>2, <2>3, <2>4
  <2>6. WorkPath[name] \in Seq(Text)
    BY <1>1 DEF WellFormed
  <2>7. Move(name, raw) = raw
    BY <1>1, <2>1, <2>5, <2>6, NameStays DEF Move
  <2> QED
    BY <2>7 DEF raw
<1>8. ASSUME NEW c \in (Text \cup OutputVariables) \ {"$(sourcefile)", "$(sourcefilename)"}
      PROVE  Value(vars, c) = Value(ProjectVars(name), c)
  <2>1. c # "$(outputfile)"
    BY DEF WellFormed, Variables, OutputVariables, SourceVariables
  <2>2. PICK pv : pv = ProjectVars(name)
    OBVIOUS
  <2>3. /\ pv.PName = <<name>> /\ pv.PDir = <<Path[name]>> /\ pv.SDir = Options.SDir
        /\ pv.WDir = Options.WDir /\ pv.SFile = Options.SFile /\ pv.OFile = Options.OFile
    BY <2>2 DEF ProjectVars
  <2>4. Value(vars, c) = Value(pv, c)
    BY <1>4, <2>1, <2>3 DEF Value
  <2> QED
    BY <2>2, <2>4
<1> QED
  BY <1>3, <1>5, <1>6, <1>7, <1>8

\* Two tasks of a wildcard have different output files at the daemon.
LEMMA OutputsApart ==
  ASSUME NEW Text, WellFormed(Text), NEW name, NEW element, NEW prefix,
         NEW sa, NEW fa, NEW va, WildcardTask(Text, name, element, sa, prefix, fa, va),
         NEW sb, NEW fb, NEW vb, WildcardTask(Text, name, element, sb, prefix, fb, vb),
         fa # fb, Len(fa) <= Len(fb), Contains(element.OutputFile, "$(sourcefilename)")
  PROVE  Move(name, va.OutputFile) # Move(name, vb.OutputFile)
<1> DEFINE W == Text \cup OutputVariables
           T == Text \cup Variables
<1>1. /\ name \in DOMAIN Path /\ OfBuildSet(name, element)
      /\ IsSource(element, name, sa) /\ va = TaskVars(element, ProjectVars(name), sa)
      /\ IsSource(element, name, sb) /\ vb = TaskVars(element, ProjectVars(name), sb)
      /\ NameOf(Text, element, sa, prefix, fa) /\ NameOf(Text, element, sb, prefix, fb)
  BY DEF WildcardTask
<1>2. PICK dir : EntryPrefix(Text, dir, prefix)
  BY DEF WildcardTask
<1>3. PICK a : OutputVars(Text, element, va, a)
  BY <1>1, OutputOfTask
<1>4. PICK b : OutputVars(Text, element, vb, b)
  BY <1>1, OutputOfTask
<1>5. PICK path, work : path = Path[name] /\ work = WorkPath[name]
  OBVIOUS
<1>6. work \in Seq(T) /\ W \subseteq T
  BY <1>1, <1>5, SeqMonotonic DEF WellFormed, Variables
<1>7. ASSUME NEW c \in W PROVE MovedTo(a, path, work, <<c>>) = Move(name, Value(va, c))
  <2>1. HasValues(a, Text \cup Variables)
    BY <1>3 DEF OutputVars
  <2>2. Value(a, c) = Value(va, c) /\ Value(a, c) \in Seq(Text)
    BY <1>3 DEF OutputVars
  <2>3. MovedTo(a, path, work, <<c>>) = String_replace(Value(a, c), path, work)
    BY <2>1, <2>2, OutputToken
  <2> QED
    BY <1>5, <2>2, <2>3 DEF Move
<1>8. ASSUME NEW c \in W PROVE MovedTo(b, path, work, <<c>>) = Move(name, Value(vb, c))
  <2>1. HasValues(b, Text \cup Variables)
    BY <1>4 DEF OutputVars
  <2>2. Value(b, c) = Value(vb, c) /\ Value(b, c) \in Seq(Text)
    BY <1>4 DEF OutputVars
  <2>3. MovedTo(b, path, work, <<c>>) = String_replace(Value(b, c), path, work)
    BY <2>1, <2>2, OutputToken
  <2> QED
    BY <1>5, <2>2, <2>3 DEF Move
<1>9. /\ Move(name, Value(va, "$(sourcefile)")) = Cat(Move(name, prefix), fa)
      /\ Move(name, Value(va, "$(sourcefilename)")) = RawFilename(sa)
      /\ \A c \in W \ {"$(sourcefile)", "$(sourcefilename)"} : Value(va, c) = Value(ProjectVars(name), c)
  BY TokensOfOutput
<1>10. /\ Move(name, Value(vb, "$(sourcefile)")) = Cat(Move(name, prefix), fb)
       /\ Move(name, Value(vb, "$(sourcefilename)")) = RawFilename(sb)
       /\ \A c \in W \ {"$(sourcefile)", "$(sourcefilename)"} : Value(vb, c) = Value(ProjectVars(name), c)
  BY TokensOfOutput
<1>11. /\ fa \in Seq(Text) /\ fb \in Seq(Text) /\ fa # <<>> /\ fb # <<>>
       /\ Last(fa) = Last(element.SourceFile) /\ Last(fb) = Last(element.SourceFile)
  BY <1>1 DEF NameOf
<1>12. Len(fa) \in Nat \ {0} /\ Len(fb) \in Nat \ {0}
  BY <1>11, EmptySeq, LenProperties
<1>13. /\ Len(RawFilename(sa)) = Len(fa) - 1
       /\ \A j \in 1 .. Len(fa) - 1 : RawFilename(sa)[j] = fa[j]
  BY <1>1, <1>2, RawNameOf
<1>14. /\ Len(RawFilename(sb)) = Len(fb) - 1
       /\ \A j \in 1 .. Len(fb) - 1 : RawFilename(sb)[j] = fb[j]
  BY <1>1, <1>2, RawNameOf
<1>15. RawFilename(sa) # RawFilename(sb)
  <2> SUFFICES ASSUME RawFilename(sa) = RawFilename(sb) PROVE FALSE
    OBVIOUS
  <2>1. Len(fa) = Len(fb)
    BY <1>12, <1>13, <1>14
  <2>2. \A j \in 1 .. Len(fa) - 1 : fa[j] = fb[j]
    BY <1>13, <1>14, <2>1
  <2>3. fa[Len(fa)] = fb[Len(fa)]
    BY <1>11, <2>1 DEF Last
  <2>4. \A j \in 1 .. Len(fa) : j \in 1 .. Len(fa) - 1 \/ j = Len(fa)
    BY <1>12
  <2>5. \A j \in 1 .. Len(fa) : fa[j] = fb[j]
    BY <2>2, <2>3, <2>4
  <2> QED
    BY <1>11, <2>1, <2>5, SeqEqual
<1>16. Len(Cat(Move(name, prefix), fa)) <= Len(Cat(Move(name, prefix), fb))
  <2>1. Move(name, prefix) \in Seq(Text)
    BY MovedSource
  <2> QED
    BY <1>11, <1>12, <2>1, CatLength
<1>17. ASSUME NEW c \in W PROVE Len(MovedTo(a, path, work, <<c>>)) <= Len(MovedTo(b, path, work, <<c>>))
  <2>1. Len(Move(name, Value(va, c))) <= Len(Move(name, Value(vb, c)))
    <3>1. CASE c = "$(sourcefile)"
      BY <1>9, <1>10, <1>16, <3>1
    <3>2. CASE c = "$(sourcefilename)"
      BY <1>9, <1>10, <1>12, <1>13, <1>14, <3>2
    <3>3. CASE c \notin {"$(sourcefile)", "$(sourcefilename)"}
      <4>1. Move(name, Value(va, c)) = Move(name, Value(vb, c))
        BY <1>9, <1>10, <3>3
      <4>2. Len(Move(name, Value(va, c))) \in Nat
        <5>1. Value(va, c) \in Seq(Text) /\ WorkPath[name] \in Seq(Text)
          BY <1>1, <1>3 DEF OutputVars, WellFormed
        <5>2. Piecewise(Text, Path[name], WorkPath[name])
          BY <5>1, ReplacePiecewise
        <5>3. Move(name, Value(va, c)) \in Seq(Text)
          BY <5>1, <5>2 DEF Piecewise, Move
        <5> QED
          BY <5>3, LenProperties
      <4> QED
        BY <4>1, <4>2
    <3> QED
      BY <3>1, <3>2, <3>3
  <2> QED
    BY <1>7, <1>8, <2>1
<1>18. MovedTo(a, path, work, <<"$(sourcefilename)">>) # MovedTo(b, path, work, <<"$(sourcefilename)">>)
  <2>1. "$(sourcefilename)" \in W
    BY DEF OutputVariables
  <2> QED
    BY <1>7, <1>8, <1>9, <1>10, <1>15, <2>1
<1>19. element.OutputFile \in Seq(W)
  BY <1>1, ElementType
<1>20. HasValues(a, T) /\ HasValues(b, T)
  BY <1>3, <1>4 DEF OutputVars
<1> HIDE DEF W, T
<1>21. MovedTo(a, path, work, element.OutputFile) # MovedTo(b, path, work, element.OutputFile)
  BY <1>6, <1>17, <1>18, <1>19, <1>20, OneTokenDiffers
<1> QED
  BY <1>3, <1>4, <1>5, <1>21 DEF MovedTo, Move, OutputVars

\* An output file ends otherwise than the sources, also at the daemon.
LEMMA OutputEnding ==
  ASSUME NEW Text, WellFormed(Text), OtherEnding(Text), NEW name, NEW element,
         NEW source, NEW prefix, NEW file, NEW vars,
         WildcardTask(Text, name, element, source, prefix, file, vars)
  PROVE  Last(Move(name, vars.OutputFile)) = Last(element.OutputFile)
<1> DEFINE T == Text \cup Variables
           c == Last(element.OutputFile)
           one == <<c>>
<1>1. /\ name \in DOMAIN Path /\ OfBuildSet(name, element) /\ IsWildcard(element)
      /\ IsSource(element, name, source) /\ vars = TaskVars(element, ProjectVars(name), source)
  BY DEF WildcardTask
<1>2. PICK v : OutputVars(Text, element, vars, v)
  BY <1>1, OutputOfTask
<1>3. PICK path, work : path = Path[name] /\ work = WorkPath[name]
  OBVIOUS
<1>4. element.OutputFile \in Seq(Text \cup OutputVariables) /\ element \in Wildcards
  BY <1>1, ElementType DEF Wildcards
<1>5. element.OutputFile # <<>> /\ c \in Text /\ c # path
  BY <1>1, <1>3, <1>4 DEF OtherEnding
<1>6. element.OutputFile \in Seq(T) /\ work \in Seq(T) /\ work \in Seq(Text)
  <2>1. Text \cup OutputVariables \subseteq T /\ Text \subseteq T
    BY DEF Variables
  <2>2. work \in Seq(Text)
    BY <1>1, <1>3 DEF WellFormed
  <2> QED
    BY <1>4, <2>1, <2>2, SeqMonotonic
<1>7. HasValues(v, T) /\ Value(v, c) \in Seq(Text)
  BY <1>2, <1>5 DEF OutputVars
<1> HIDE DEF T, c
<1>8. PICK front \in Seq(T) : element.OutputFile = Append(front, c)
  <2>1. PICK front \in Seq(T), last \in T : element.OutputFile = Append(front, last)
    BY <1>5, <1>6, SequenceEmptyOrAppend
  <2>2. Len(Append(front, last)) = Len(front) + 1 /\ Append(front, last)[Len(front) + 1] = last
    BY AppendProperties
  <2>3. last = c
    BY <2>1, <2>2 DEF c, Last
  <2> QED
    BY <2>1, <2>3
<1>9. c \in T /\ one \in Seq(T) /\ one \in Seq(Text) /\ element.OutputFile = Cat(front, one)
  <2>1. c \in T
    BY <1>5 DEF T
  <2> QED
    BY <1>5, <1>8, <2>1, CatLast
<1>10. MovedTo(v, path, work, one) = one
  <2>1. c \in Text \cup OutputVariables /\ HasValues(v, Text \cup Variables)
    BY <1>5, <1>7 DEF T
  <2>2. MovedTo(v, path, work, <<c>>) = String_replace(Value(v, c), path, work)
    BY <1>7, <2>1, OutputToken
  <2>3. Value(v, c) = <<c>>
    <3>1. c \notin Variables
      BY <1>5 DEF WellFormed
    <3> QED
      BY <3>1 DEF Value, Variables, OutputVariables, SourceVariables
  <2> DEFINE D == {c}
  <2>4. one \in Seq(D) /\ path \notin D
    BY <1>5
  <2> HIDE DEF D, one
  <2>5. String_replace(one, path, work) = one
    BY <1>6, <2>4, ReplaceAbsent
  <2> QED
    BY <2>2, <2>3, <2>5 DEF one
<1>11. one # <<>> /\ Last(one) = c
  BY DEF Last
<1> HIDE DEF one
<1>12. MovedTo(v, path, work, front) \in Seq(T)
  BY <1>6, <1>7, <1>9, MovedToPiecewise
<1>13. MovedTo(v, path, work, Cat(front, one)) = Cat(MovedTo(v, path, work, front), MovedTo(v, path, work, one))
  BY <1>6, <1>7, <1>9, MovedToPiecewise
<1>14. Last(Cat(MovedTo(v, path, work, front), one)) = c
  BY <1>9, <1>11, <1>12, LastOfCat
<1>15. Move(name, vars.OutputFile) = MovedTo(v, path, work, element.OutputFile)
  BY <1>2, <1>3 DEF OutputVars, Move, MovedTo
<1> QED
  BY <1>9, <1>10, <1>13, <1>14, <1>15 DEF c

\* A task of the table that comes from a wildcard.
LEMMA MadeOfWildcard ==
  ASSUME NEW Text, WellFormed(Text), FileNames, StarThenEnding(Text), NEW i, NEW name, NEW element, NEW source,
         MadeOf(i, name, element, source), IsWildcard(element), NEW prefix,
         EntryPrefix(Text, Dir(replace(ProjectVars(name), element.SourceFile)), prefix)
  PROVE  \E file : WildcardTask(Text, name, element, source, prefix, file, tasks[i].vars)
<1>1. /\ name \in DOMAIN Path /\ OfBuildSet(name, element) /\ IsSource(element, name, source)
      /\ tasks[i].vars = TaskVars(element, ProjectVars(name), source)
  BY DEF MadeOf, TaskInfo
<1>2. PICK file : NameOf(Text, element, source, prefix, file)
  BY <1>1, SourceName
<1> QED
  BY <1>1, <1>2 DEF WildcardTask

\* Two tasks of one element and one project with different sources.
LEMMA WildcardFilesApart ==
  ASSUME NEW Text, WellFormed(Text), OtherEnding(Text), NEW name, NEW element, NEW prefix,
         NEW sa, NEW fa, NEW va, WildcardTask(Text, name, element, sa, prefix, fa, va),
         NEW sb, NEW fb, NEW vb, WildcardTask(Text, name, element, sb, prefix, fb, vb),
         va.SourceFile # vb.SourceFile, Contains(element.OutputFile, "$(sourcefilename)")
  PROVE  /\ Move(name, va.SourceFile) # Move(name, vb.SourceFile)
         /\ Move(name, va.SourceFile) # Move(name, vb.OutputFile)
         /\ Move(name, va.OutputFile) # Move(name, vb.SourceFile)
         /\ Move(name, va.OutputFile) # Move(name, vb.OutputFile)
<1>1. PICK m : m = Move(name, prefix)
  OBVIOUS
<1>2. /\ va.SourceFile = sa /\ Move(name, sa) = Cat(m, fa)
      /\ m \in Seq(Text) /\ fa \in Seq(Text) /\ fa # <<>> /\ Last(fa) = Last(element.SourceFile)
  BY <1>1, MovedSource
<1>3. /\ vb.SourceFile = sb /\ Move(name, sb) = Cat(m, fb)
      /\ fb \in Seq(Text) /\ fb # <<>> /\ Last(fb) = Last(element.SourceFile)
  BY <1>1, MovedSource
<1>4. fa # fb
  BY <1>2, <1>3 DEF WildcardTask, NameOf
<1>5. Cat(m, fa) # Cat(m, fb)
  BY <1>2, <1>3, <1>4, CatCancel
<1>6. Last(Cat(m, fa)) = Last(element.SourceFile) /\ Last(Cat(m, fb)) = Last(element.SourceFile)
  BY <1>2, <1>3, LastOfCat
<1>7. /\ Last(Move(name, va.OutputFile)) = Last(element.OutputFile)
      /\ Last(Move(name, vb.OutputFile)) = Last(element.OutputFile)
  BY OutputEnding
<1>8. Last(element.OutputFile) # Last(element.SourceFile)
  <2>1. element \in Wildcards
    BY ElementType DEF Wildcards, WildcardTask
  <2> QED
    BY <2>1 DEF OtherEnding
<1>9. Move(name, va.OutputFile) # Move(name, vb.OutputFile)
  <2>1. Len(fa) \in Nat /\ Len(fb) \in Nat
    BY <1>2, <1>3, LenProperties
  <2>2. CASE Len(fa) <= Len(fb)
    BY <1>4, <2>2, OutputsApart
  <2>3. CASE Len(fb) <= Len(fa)
    BY <1>4, <2>3, OutputsApart
  <2> QED
    BY <2>1, <2>2, <2>3
<1> QED
  BY <1>2, <1>3, <1>5, <1>6, <1>7, <1>8, <1>9

\* For every build set whose strings are well formed and whose wildcards are a
\* directory, a star and an ending that their outputs do not have: the tasks
\* taskGenerator makes for the files of a wildcard share no file on the disk of a
\* daemon, where runTaskProcess has put them into the work path of the project,
\* when their output is named by $(sourcefilename).
THEOREM FilesStayApartHolds ==
  ASSUME NEW Text, WellFormed(Text), FileNames, StarThenEnding(Text), OtherEnding(Text)
  PROVE  BsSpec => []FilesStayApart
<1>1. TableInv /\ OriginInv => FilesStayApart
  <2> SUFFICES ASSUME TableInv, OriginInv, NEW i \in DOMAIN tasks, NEW j \in DOMAIN tasks,
                      tasks[i].message.project = tasks[j].message.project,
                      tasks[i].element = tasks[j].element,
                      tasks[i].vars.SourceFile # tasks[j].vars.SourceFile,
                      Contains(tasks[i].element.OutputFile, "$(sourcefilename)")
               PROVE  DaemonFiles(tasks[i]) \cap DaemonFiles(tasks[j]) = {}
    BY DEF FilesStayApart
  <2>1. i \in 1 .. id /\ j \in 1 .. id
    BY DEF TableInv
  <2>2. PICK name, element, sa : MadeOf(i, name, element, sa)
    BY <2>1 DEF OriginInv
  <2>3. PICK nb, eb, sb : MadeOf(j, nb, eb, sb)
    BY <2>1 DEF OriginInv
  <2>4. /\ tasks[i].element = element /\ tasks[i].message.project = name
        /\ tasks[i].vars = TaskVars(element, ProjectVars(name), sa)
        /\ AtDaemon(tasks[i].message).sourcefile = Move(name, tasks[i].vars.SourceFile)
        /\ AtDaemon(tasks[i].message).outputfile = Move(name, tasks[i].vars.OutputFile)
    BY <2>2, MovedFiles DEF Move
  <2>5. /\ tasks[j].element = eb /\ tasks[j].message.project = nb
        /\ tasks[j].vars = TaskVars(eb, ProjectVars(nb), sb)
        /\ AtDaemon(tasks[j].message).sourcefile = Move(nb, tasks[j].vars.SourceFile)
        /\ AtDaemon(tasks[j].message).outputfile = Move(nb, tasks[j].vars.OutputFile)
    BY <2>3, MovedFiles DEF Move
  <2>6. nb = name /\ eb = element
    BY <2>4, <2>5
  <2>7. MadeOf(j, name, element, sb)
    BY <2>3, <2>6
  <2>8. IsWildcard(element)
    <3> SUFFICES ASSUME ~IsWildcard(element) PROVE FALSE
      OBVIOUS
    <3>1. sa = element.SourceFile /\ sb = element.SourceFile
      BY <2>2, <2>7 DEF MadeOf, IsSource
    <3> QED
      BY <2>4, <2>5, <2>6, <3>1
  <2>9. PICK prefix : EntryPrefix(Text, Dir(replace(ProjectVars(name), element.SourceFile)), prefix)
    <3>1. name \in DOMAIN Path /\ OfBuildSet(name, element)
      BY <2>2 DEF MadeOf
    <3>2. Dir(replace(ProjectVars(name), element.SourceFile)) \in Seq(Text)
      BY <2>8, <3>1, PatternParts
    <3> QED
      BY <3>2, EntryParts DEF WellFormed
  <2>10. PICK fa : WildcardTask(Text, name, element, sa, prefix, fa, tasks[i].vars)
    BY <2>2, <2>8, <2>9, MadeOfWildcard
  <2>11. PICK fb : WildcardTask(Text, name, element, sb, prefix, fb, tasks[j].vars)
    BY <2>7, <2>8, <2>9, MadeOfWildcard
  <2>12. PICK va, vb : va = tasks[i].vars /\ vb = tasks[j].vars
    OBVIOUS
  <2>13. /\ WildcardTask(Text, name, element, sa, prefix, fa, va)
         /\ WildcardTask(Text, name, element, sb, prefix, fb, vb)
         /\ va.SourceFile # vb.SourceFile /\ Contains(element.OutputFile, "$(sourcefilename)")
    BY <2>4, <2>10, <2>11, <2>12
  <2>14. /\ Move(name, va.SourceFile) # Move(name, vb.SourceFile)
         /\ Move(name, va.SourceFile) # Move(name, vb.OutputFile)
         /\ Move(name, va.OutputFile) # Move(name, vb.SourceFile)
         /\ Move(name, va.OutputFile) # Move(name, vb.OutputFile)
    BY <2>13, WildcardFilesApart
  <2> QED
    BY <2>4, <2>5, <2>6, <2>12, <2>14 DEF DaemonFiles
<1> QED
  BY <1>1, OriginInvariant, PTL
=============================================================================
