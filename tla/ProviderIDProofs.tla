-------------------------- MODULE ProviderIDProofs --------------------------
(***************************************************************************)
(* What is formatted into a provider ID is parsed out of it again, for     *)
(* strings of any length.                                                  *)
(***************************************************************************)
EXTENDS ProviderID, FiniteSetTheorems, SequenceTheorems, WellFoundedInduction, TLAPS

-----------------------------------------------------------------------------
(* The first and the last place of a token in a string.                    *)

LEMMA LeastNatural ==
    ASSUME NEW S \in SUBSET Nat, S # {}
    PROVE  \E n \in S : \A m \in S : n <= m
  <1>1. PICK n \in S : \A m \in S : ~(<<m, n>> \in OpToRel(<, Nat))
    BY WFMin, NatLessThanWellFounded
  <1>2. \A m \in S : ~(m < n)
    BY <1>1 DEF OpToRel
  <1>3. QED
    BY <1>2

LEMMA MinIs ==
    ASSUME NEW S \in SUBSET Nat, NEW n \in S, \A i \in S : n <= i
    PROVE  Min(S) = n
  <1>1. Min(S) \in S /\ \A i \in S : Min(S) =< i
    BY DEF Min
  <1>2. Min(S) \in Nat /\ n \in Nat /\ Min(S) <= n /\ n <= Min(S)
    BY <1>1
  <1>3. QED
    BY <1>2

LEMMA MaxIs ==
    ASSUME NEW S \in SUBSET Nat, NEW n \in S, \A i \in S : i <= n
    PROVE  Max(S) = n
  <1>1. Max(S) \in S /\ \A i \in S : Max(S) >= i
    BY DEF Max
  <1>2. Max(S) \in Nat /\ n \in Nat /\ Max(S) <= n /\ n <= Max(S)
    BY <1>1
  <1>3. QED
    BY <1>2

\* Where a token occurs it occurs for the first and for the last time.
LEMMA FirstPlace ==
    ASSUME NEW s, IsString(s), NEW c, Contains(s, c)
    PROVE  \E n \in 1 .. Len(s) : s[n] = c /\ \A i \in 1 .. n - 1 : s[i] # c
  <1> DEFINE S == {i \in 1 .. Len(s) : s[i] = c}
  <1>1. Len(s) \in Nat
    BY DEF IsString
  <1>2. S \in SUBSET Nat /\ S # {}
    BY <1>1 DEF Contains
  <1>3. PICK n \in S : \A m \in S : n <= m
    BY <1>2, LeastNatural
  <1>4. QED
    BY <1>1, <1>3

LEMMA LastPlace ==
    ASSUME NEW s, IsString(s), NEW c, Contains(s, c)
    PROVE  \E n \in 1 .. Len(s) : s[n] = c /\ \A i \in n + 1 .. Len(s) : s[i] # c
  <1> DEFINE S == {k \in Nat : \E i \in 1 .. Len(s) : s[i] = c /\ k = Len(s) - i}
  <1>1. Len(s) \in Nat
    BY DEF IsString
  <1>2. S \in SUBSET Nat /\ S # {}
    <2>1. PICK i \in 1 .. Len(s) : s[i] = c
      BY DEF Contains
    <2>2. Len(s) - i \in S
      BY <1>1, <2>1
    <2>3. QED
      BY <2>2
  <1>3. PICK k \in S : \A m \in S : k <= m
    BY <1>2, LeastNatural
  <1>4. PICK n \in 1 .. Len(s) : s[n] = c /\ k = Len(s) - n
    BY <1>3
  <1>5. ASSUME NEW i \in n + 1 .. Len(s), s[i] = c PROVE FALSE
    <2>1. i \in 1 .. Len(s) /\ Len(s) - i \in Nat
      BY <1>1
    <2>2. k <= Len(s) - i
      BY <1>3, <1>5, <2>1
    <2>3. QED
      BY <1>1, <1>4, <2>2
  <1>6. QED
    BY <1>4, <1>5

LEMMA BeforeAll ==
    ASSUME NEW s, NEW c, ~Contains(s, c)
    PROVE  Before(s, c) = s
  BY DEF Before, SelectInSeq, Contains

LEMMA BeforeFirst ==
    ASSUME NEW s, IsString(s), NEW c,
           NEW n \in 1 .. Len(s), s[n] = c, \A i \in 1 .. n - 1 : s[i] # c
    PROVE  Before(s, c) = SubSeq(s, 1, n - 1)
  <1> DEFINE S == {i \in 1 .. Len(s) : s[i] = c}
  <1>1. Len(s) \in Nat
    BY DEF IsString
  <1>2. S \in SUBSET Nat /\ n \in S /\ \A i \in S : n <= i
    BY <1>1
  <1>3. Min(S) = n /\ n # 0
    BY <1>2, MinIs
  <1>4. SelectInSeq(s, LAMBDA x : x = c) = n
    BY <1>2, <1>3 DEF SelectInSeq
  <1>5. QED
    BY <1>3, <1>4 DEF Before

LEMMA AfterLastPlace ==
    ASSUME NEW s, IsString(s), NEW c,
           NEW n \in 1 .. Len(s), s[n] = c, \A i \in n + 1 .. Len(s) : s[i] # c
    PROVE  AfterLast(s, c) = SubSeq(s, n + 1, Len(s))
  <1> DEFINE S == {i \in 1 .. Len(s) : s[i] = c}
  <1>1. Len(s) \in Nat
    BY DEF IsString
  <1>2. S \in SUBSET Nat /\ n \in S /\ \A i \in S : i <= n
    BY <1>1
  <1>3. Max(S) = n
    BY <1>2, MaxIs
  <1>4. SelectLastInSeq(s, LAMBDA x : x = c) = n
    BY <1>2, <1>3 DEF SelectLastInSeq
  <1>5. QED
    BY <1>4 DEF AfterLast

LEMMA LongNotEmpty ==
    ASSUME NEW s, Len(s) > 0
    PROVE  s # <<>>
  <1>1. Len(<<>>) = 0
    OBVIOUS
  <1>2. QED
    BY <1>1

\* The three tokens after the provider, one by one.
LEMMA Separator ==
    ASSUME NEW s, IsString(s), NEW i \in Nat, i + 3 <= Len(s)
    PROVE  SubSeq(s, i + 1, i + 3) = <<":", "/", "/">> <=>
              s[i + 1] = ":" /\ s[i + 2] = "/" /\ s[i + 3] = "/"
  <1> DEFINE t == SubSeq(s, i + 1, i + 3)
             u == <<":", "/", "/">>
  <1>1. t \in Seq(Range(s)) /\ Len(t) = 3
    BY DEF IsString
  <1>2. t[1] = s[i + 1] /\ t[2] = s[i + 2] /\ t[3] = s[i + 3]
    BY DEF IsString
  <1>3. u \in Seq({":", "/"}) /\ Len(u) = 3 /\ u[1] = ":" /\ u[2] = "/" /\ u[3] = "/"
    OBVIOUS
  <1> HIDE DEF t, u
  <1>4. t = u <=> t[1] = u[1] /\ t[2] = u[2] /\ t[3] = u[3]
    <2>1. t \in Seq(Range(s) \cup {":", "/"}) /\ u \in Seq(Range(s) \cup {":", "/"})
      BY <1>1, <1>3
    <2>2. ASSUME t[1] = u[1], t[2] = u[2], t[3] = u[3] PROVE t = u
      <3>1. \A k \in 1 .. Len(t) : t[k] = u[k]
        BY <1>1, <2>2
      <3>2. QED
        BY <1>1, <1>3, <2>1, <3>1, SeqEqual
    <2>3. QED
      BY <2>2
  <1>5. QED
    BY <1>2, <1>3, <1>4 DEF t, u

-----------------------------------------------------------------------------
(* NewProviderID.                                                          *)

\* The provider ends before place i + 1, the id begins at place j.
Form(s, i, j) ==
    /\ i \in 1 .. Len(s) /\ j \in 1 .. Len(s) /\ i + 4 <= j
    /\ \A k \in 1 .. i : s[k] # ":"
    /\ s[i + 1] = ":" /\ s[i + 2] = "/" /\ s[i + 3] = "/"
    /\ j = i + 4 \/ s[j - 1] = "/"
    /\ \A k \in j .. Len(s) : s[k] # "/"

\* providerIDRegex of a string whose first colon is at place i + 1.
LEMMA RegexAt ==
    ASSUME NEW s, IsString(s), NEW i \in Nat, i + 1 <= Len(s),
           s[i + 1] = ":", \A k \in 1 .. i : s[k] # ":"
    PROVE  /\ Before(s, ":") = SubSeq(s, 1, i)
           /\ providerIDRegex(s) <=>
                 /\ i > 0 /\ i + 3 < Len(s) /\ s[i + 2] = "/" /\ s[i + 3] = "/"
                 /\ s[Len(s)] # "/"
  <1>1. Len(s) \in Nat /\ s \in Seq(Range(s))
    BY DEF IsString
  <1>2. Before(s, ":") = SubSeq(s, 1, i)
    <2>1. i + 1 \in 1 .. Len(s) /\ (i + 1) - 1 = i
      BY <1>1
    <2>2. QED
      BY <2>1, BeforeFirst
  <1> DEFINE provider == SubSeq(s, 1, i)
             rest == SubSeq(s, i + 1, Len(s))
  <1>3. provider \in Seq(Range(s)) /\ Len(provider) = i /\ (provider # <<>> <=> i > 0)
    BY <1>1
  <1>4. rest \in Seq(Range(s)) /\ Len(rest) = Len(s) - i
    BY <1>1
  <1>5. ASSUME i + 3 < Len(s)
        PROVE  SubSeq(rest, 1, 3) = <<":", "/", "/">> <=> s[i + 2] = "/" /\ s[i + 3] = "/"
    <2>1. SubSeq(rest, 1, 3) = SubSeq(s, i + 1, i + 3)
      <3>1. /\ SubSeq(rest, 1, 3) \in Seq(Range(s)) /\ Len(SubSeq(rest, 1, 3)) = 3
            /\ SubSeq(s, i + 1, i + 3) \in Seq(Range(s))
            /\ Len(SubSeq(s, i + 1, i + 3)) = 3
        BY <1>1, <1>4, <1>5
      <3>2. \A k \in 1 .. 3 : SubSeq(rest, 1, 3)[k] = SubSeq(s, i + 1, i + 3)[k]
        BY <1>1, <1>4, <1>5
      <3>3. QED
        BY <3>1, <3>2, SeqEqual
    <2>2. i + 3 <= Len(s)
      BY <1>1, <1>5
    <2>3. SubSeq(s, i + 1, i + 3) = <<":", "/", "/">> <=>
             s[i + 1] = ":" /\ s[i + 2] = "/" /\ s[i + 3] = "/"
      BY <2>2, Separator
    <2>4. QED
      BY <2>1, <2>3
  <1>6. providerIDRegex(s) <=> /\ provider # <<>>
                               /\ Len(rest) > 3 /\ SubSeq(rest, 1, 3) = <<":", "/", "/">>
                               /\ Last(s) # "/"
    BY <1>2, <1>3 DEF providerIDRegex
  <1>7. QED
    BY <1>1, <1>2, <1>3, <1>4, <1>5, <1>6 DEF Last

\* A string of that form is accepted and its id returned.
LEMMA FormParsed ==
    ASSUME NEW s, IsString(s), NEW i, NEW j, Form(s, i, j)
    PROVE  GetInstanceID(s) = SubSeq(s, j, Len(s)) /\ SubSeq(s, j, Len(s)) # <<>>
  <1>1. Len(s) \in Nat /\ s \in Seq(Range(s)) /\ i \in Nat /\ i > 0 /\ j \in Nat /\ j <= Len(s)
    BY DEF IsString, Form
  <1>2. providerIDRegex(s) /\ Before(s, ":") # <<>>
    <2>1. s[Len(s)] # "/" /\ i + 1 <= Len(s) /\ i + 3 < Len(s)
      BY <1>1 DEF Form
    <2>2. Before(s, ":") = SubSeq(s, 1, i) /\ providerIDRegex(s)
      BY <1>1, <2>1, RegexAt DEF Form
    <2>3. QED
      BY <1>1, <2>1, <2>2
  <1>3. ID(s) = SubSeq(s, j, Len(s))
    <2>1. j - 1 \in 1 .. Len(s) /\ s[j - 1] = "/" /\ (j - 1) + 1 = j
      BY <1>1 DEF Form
    <2>2. \A k \in (j - 1) + 1 .. Len(s) : s[k] # "/"
      BY <2>1 DEF Form
    <2>3. QED
      BY <2>1, <2>2, AfterLastPlace DEF ID
  <1>4. SubSeq(s, j, Len(s)) # <<>>
    <2>1. Len(SubSeq(s, j, Len(s))) = Len(s) - j + 1 /\ Len(s) - j + 1 > 0
      BY <1>1 DEF Form
    <2>2. QED
      BY <2>1, LongNotEmpty
  <1>5. QED
    BY <1>2, <1>3, <1>4 DEF GetInstanceID

\* A string from which an id is returned is of that form.
LEMMA ParsedForm ==
    ASSUME NEW s, IsString(s), GetInstanceID(s) # <<>>
    PROVE  \E i, j : Form(s, i, j)
  <1>1. Len(s) \in Nat /\ s \in Seq(Range(s)) /\ providerIDRegex(s)
    BY DEF IsString, GetInstanceID
  <1>2. Contains(s, ":")
    <2>1. SUFFICES ASSUME ~Contains(s, ":") PROVE FALSE
      OBVIOUS
    <2>2. Len(SubSeq(s, Len(s) + 1, Len(s))) > 3
      BY <1>1, <2>1, BeforeAll DEF providerIDRegex
    <2>3. QED
      BY <1>1, <2>2
  <1>3. PICK n \in 1 .. Len(s) : s[n] = ":" /\ \A k \in 1 .. n - 1 : s[k] # ":"
    BY <1>2, FirstPlace
  <1>4. PICK i \in Nat : i + 1 = n /\ i = n - 1
    BY <1>1
  <1>5. i > 0 /\ i + 3 < Len(s) /\ s[i + 2] = "/" /\ s[i + 3] = "/" /\ s[Len(s)] # "/"
    <2>1. i + 1 <= Len(s) /\ s[i + 1] = ":" /\ \A k \in 1 .. i : s[k] # ":"
      BY <1>1, <1>3, <1>4
    <2>2. QED
      BY <1>1, <2>1, RegexAt
  <1>6. Contains(s, "/")
    BY <1>1, <1>5 DEF Contains
  <1>7. PICK q \in 1 .. Len(s) : s[q] = "/" /\ \A k \in q + 1 .. Len(s) : s[k] # "/"
    BY <1>6, LastPlace
  <1>8. q < Len(s) /\ i + 3 <= q
    BY <1>1, <1>5, <1>7
  <1>9. Form(s, i, q + 1)
    BY <1>1, <1>3, <1>4, <1>5, <1>7, <1>8 DEF Form
  <1>10. QED
    BY <1>9

-----------------------------------------------------------------------------
(* ParsedByForm is about what Form says.                                   *)

LEMMA ParsedByFormOf ==
    ASSUME IsString(providerID)
    PROVE  ParsedByForm
  <1> DEFINE s == providerID
             n == Len(s)
             form(i, j) ==
                 /\ \A k \in 1 .. i : s[k] # ":"
                 /\ SubSeq(s, i + 1, i + 3) = <<":", "/", "/">>
                 /\ j = i + 4 \/ s[j - 1] = "/"
                 /\ \A k \in j .. n : s[k] # "/"
             forms == {p \in (1 .. n) \X (1 .. n) : p[1] + 4 <= p[2] /\ form(p[1], p[2])}
  <1>1. n \in Nat
    BY DEF IsString
  <1>2. ASSUME NEW i \in 1 .. n, NEW j \in 1 .. n, i + 4 <= j
        PROVE  form(i, j) <=> Form(s, i, j)
    <2>1. i \in Nat /\ i + 3 <= Len(s)
      BY <1>1, <1>2
    <2>2. SubSeq(s, i + 1, i + 3) = <<":", "/", "/">> <=>
             s[i + 1] = ":" /\ s[i + 2] = "/" /\ s[i + 3] = "/"
      BY <2>1, Separator
    <2>3. QED
      BY <1>2, <2>2 DEF Form
  <1> HIDE DEF form
  <1>3. \A p \in forms : Form(s, p[1], p[2])
    BY <1>2
  <1>4. \A i, j : Form(s, i, j) => <<i, j>> \in forms
    <2>1. SUFFICES ASSUME NEW i, NEW j, Form(s, i, j) PROVE <<i, j>> \in forms
      OBVIOUS
    <2>2. i \in 1 .. n /\ j \in 1 .. n /\ i + 4 <= j
      BY <2>1 DEF Form
    <2>3. form(i, j)
      BY <1>2, <2>1, <2>2
    <2>4. QED
      BY <2>2, <2>3
  <1> HIDE DEF forms
  <1>5. GetInstanceID(s) # <<>> <=> forms # {}
    <2>1. ASSUME GetInstanceID(s) # <<>> PROVE forms # {}
      BY <1>4, <2>1, ParsedForm
    <2>2. ASSUME NEW p \in forms PROVE GetInstanceID(s) # <<>>
      BY <1>3, FormParsed
    <2>3. QED
      BY <2>1, <2>2
  <1>6. \A p \in forms : GetInstanceID(s) = SubSeq(s, p[2], n)
    BY <1>3, FormParsed
  <1>7. QED
    BY <1>5, <1>6 DEF ParsedByForm, forms, form

-----------------------------------------------------------------------------
(* Strings put together.                                                   *)

LEMMA Joined ==
    ASSUME NEW s, NEW t, IsString(s), IsString(t)
    PROVE  /\ IsString(s \o t)
           /\ Len(s \o t) = Len(s) + Len(t) /\ Len(s) \in Nat /\ Len(t) \in Nat
           /\ \A i \in 1 .. Len(s) : (s \o t)[i] = s[i]
           /\ \A i \in Len(s) + 1 .. Len(s) + Len(t) : (s \o t)[i] = t[i - Len(s)]
  <1> DEFINE R == Range(s) \cup Range(t)
             st == s \o t
  <1>1. s \in Seq(R) /\ t \in Seq(R)
    BY DEF IsString
  <1>2. st \in Seq(R) /\ Len(st) = Len(s) + Len(t)
    BY <1>1
  <1> HIDE DEF st
  <1>3. st \in Seq(Range(st))
    <2>1. Len(st) \in Nat /\ DOMAIN st = 1 .. Len(st) /\ st = [i \in 1 .. Len(st) |-> st[i]]
      BY <1>2
    <2>2. \A i \in 1 .. Len(st) : st[i] \in Range(st)
      BY <2>1 DEF Range
    <2>3. QED
      BY <2>1, <2>2
  <1>4. QED
    BY <1>1, <1>2, <1>3 DEF IsString, st

\* A function on an initial segment of the numbers is a string.
LEMMA Tabulated ==
    ASSUME NEW n \in Nat, NEW f, f = [k \in 1 .. n |-> f[k]]
    PROVE  IsString(f) /\ Len(f) = n
  <1>1. DOMAIN f = 1 .. n /\ \A k \in 1 .. n : f[k] \in Range(f)
    BY DEF Range
  <1>2. f \in Seq(Range(f))
    BY <1>1, SeqDef
  <1>3. QED
    BY <1>1, <1>2 DEF IsString

LEMMA BeforeHasNone ==
    ASSUME NEW s, IsString(s), NEW c
    PROVE  IsString(Before(s, c)) /\ ~Contains(Before(s, c), c)
  <1>1. CASE ~Contains(s, c)
    BY <1>1, BeforeAll
  <1>2. CASE Contains(s, c)
    <2>1. PICK n \in 1 .. Len(s) : s[n] = c /\ \A i \in 1 .. n - 1 : s[i] # c
      BY <1>2, FirstPlace
    <2>2. Before(s, c) = SubSeq(s, 1, n - 1)
      BY <2>1, BeforeFirst
    <2>3. /\ n - 1 \in Nat
          /\ SubSeq(s, 1, n - 1) = [k \in 1 .. n - 1 |-> s[k]]
      BY DEF IsString
    <2>4. SubSeq(s, 1, n - 1) = [k \in 1 .. n - 1 |-> SubSeq(s, 1, n - 1)[k]]
      BY <2>3
    <2>5. IsString(SubSeq(s, 1, n - 1)) /\ Len(SubSeq(s, 1, n - 1)) = n - 1
      BY <2>3, <2>4, Tabulated
    <2>6. QED
      BY <2>1, <2>2, <2>3, <2>5 DEF Contains
  <1>3. QED
    BY <1>1, <1>2

LEMMA EqualStrings ==
    ASSUME NEW s, NEW t, IsString(s), IsString(t),
           Len(s) = Len(t), \A k \in 1 .. Len(s) : s[k] = t[k]
    PROVE  s = t
  <1> DEFINE R == Range(s) \cup Range(t)
  <1>1. s \in Seq(R) /\ t \in Seq(R)
    BY DEF IsString
  <1>2. QED
    BY <1>1, SeqEqual

LEMMA PartOf ==
    ASSUME NEW s, IsString(s), NEW i \in 1 .. Len(s) + 1, NEW j \in i - 1 .. Len(s)
    PROVE  /\ IsString(SubSeq(s, i, j)) /\ Len(SubSeq(s, i, j)) = j - i + 1
           /\ \A k \in 1 .. j - i + 1 : SubSeq(s, i, j)[k] = s[i + k - 1]
  <1> DEFINE t == SubSeq(s, i, j)
  <1>1. /\ j - i + 1 \in Nat
        /\ t = [k \in 1 .. j - i + 1 |-> t[k]]
        /\ \A k \in 1 .. j - i + 1 : t[k] = s[i + k - 1]
    BY DEF IsString
  <1> HIDE DEF t
  <1>2. IsString(t) /\ Len(t) = j - i + 1
    BY <1>1, Tabulated
  <1>3. QED
    BY <1>1, <1>2 DEF t

LEMMA PrefixTokens ==
    /\ IsString(ProviderPrefix) /\ Len(ProviderPrefix) = 4
    /\ ProviderPrefix[1] = "microvm" /\ ProviderPrefix[2] = ":"
    /\ ProviderPrefix[3] = "/" /\ ProviderPrefix[4] = "/"
  <1> DEFINE p == <<"microvm", ":", "/", "/">>
  <1>1. Len(p) = 4 /\ p[1] = "microvm" /\ p[2] = ":" /\ p[3] = "/" /\ p[4] = "/"
    OBVIOUS
  <1>2. 4 \in Nat /\ p = [k \in 1 .. 4 |-> p[k]]
    OBVIOUS
  <1> HIDE DEF p
  <1>3. IsString(p)
    BY <1>2, Tabulated
  <1>4. QED
    BY <1>1, <1>3 DEF p, ProviderPrefix

LEMMA SlashTokens ==
    IsString(<<"/">>) /\ Len(<<"/">>) = 1 /\ <<"/">>[1] = "/"
  <1> DEFINE p == <<"/">>
  <1>1. Len(p) = 1 /\ p[1] = "/"
    OBVIOUS
  <1>2. 1 \in Nat /\ p = [k \in 1 .. 1 |-> p[k]]
    OBVIOUS
  <1> HIDE DEF p
  <1>3. IsString(p)
    BY <1>2, Tabulated
  <1>4. QED
    BY <1>1, <1>3 DEF p

\* The tokens of a formatted provider ID.
LEMMA Formatted ==
    ASSUME NEW fd, NEW u, IsString(fd), IsString(u)
    PROVE  LET s == SetProviderID(fd, u)
               m == Len(fd)
           IN  /\ IsString(s) /\ Len(s) = m + Len(u) + 5 /\ m \in Nat /\ Len(u) \in Nat
               /\ s[1] = "microvm" /\ s[2] = ":" /\ s[3] = "/" /\ s[4] = "/"
               /\ \A k \in 1 .. m : s[k + 4] = fd[k]
               /\ s[m + 5] = "/"
               /\ \A k \in 1 .. Len(u) : s[k + m + 5] = u[k]
  <1> DEFINE a == ProviderPrefix \o fd
             b == a \o <<"/">>
             s == b \o u
             m == Len(fd)
  <1>1. /\ IsString(a) /\ Len(a) = m + 4 /\ m \in Nat
        /\ a[1] = "microvm" /\ a[2] = ":" /\ a[3] = "/" /\ a[4] = "/"
        /\ \A k \in 1 .. m : a[k + 4] = fd[k]
    <2> DEFINE l == Len(ProviderPrefix)
    <2>1. /\ IsString(a) /\ Len(a) = l + m /\ m \in Nat
          /\ \A i \in 1 .. l : a[i] = ProviderPrefix[i]
          /\ \A i \in l + 1 .. l + m : a[i] = fd[i - l]
      BY PrefixTokens, Joined, Zenon
    <2>2. l = 4
      BY PrefixTokens
    <2> HIDE DEF a, l, m
    <2>3. QED
      BY <2>1, <2>2, PrefixTokens
  <1> HIDE DEF a
  <1>2. /\ IsString(b) /\ Len(b) = m + 5
        /\ \A i \in 1 .. m + 4 : b[i] = a[i]
        /\ b[m + 5] = "/"
    <2>1. /\ IsString(b) /\ Len(b) = (m + 4) + 1
          /\ \A i \in 1 .. m + 4 : b[i] = a[i]
          /\ \A i \in (m + 4) + 1 .. (m + 4) + 1 : b[i] = <<"/">>[i - (m + 4)]
      BY <1>1, SlashTokens, Joined
    <2> HIDE DEF b
    <2>2. m + 5 \in (m + 4) + 1 .. (m + 4) + 1 /\ (m + 5) - (m + 4) = 1
      BY <1>1
    <2>3. b[m + 5] = <<"/">>[1]
      BY <2>1, <2>2
    <2>4. QED
      BY <1>1, <2>1, <2>3, SlashTokens
  <1> HIDE DEF b
  <1>3. /\ IsString(s) /\ Len(s) = m + Len(u) + 5 /\ Len(u) \in Nat
        /\ \A i \in 1 .. m + 5 : s[i] = b[i]
        /\ \A i \in m + 5 + 1 .. m + 5 + Len(u) : s[i] = u[i - (m + 5)]
    <2> DEFINE l == Len(b)
    <2>1. /\ IsString(s) /\ Len(s) = l + Len(u) /\ Len(u) \in Nat
          /\ \A i \in 1 .. l : s[i] = b[i]
          /\ \A i \in l + 1 .. l + Len(u) : s[i] = u[i - l]
      BY <1>2, Joined, Zenon
    <2>2. l = m + 5 /\ m \in Nat
      BY <1>1, <1>2
    <2> HIDE DEF s, l, m
    <2>3. QED
      BY <2>1, <2>2
  <1> HIDE DEF s
  <1>4. \A k \in 1 .. Len(u) : s[k + m + 5] = u[k]
    BY <1>1, <1>3
  <1>5. \A i \in 1 .. m + 4 : s[i] = a[i]
    BY <1>1, <1>2, <1>3
  <1>6. \A k \in 1 .. m : s[k + 4] = fd[k]
    BY <1>1, <1>5
  <1>7. s[m + 5] = "/" /\ s[1] = a[1] /\ s[2] = a[2] /\ s[3] = a[3] /\ s[4] = a[4]
    BY <1>1, <1>2, <1>3, <1>5
  <1>8. QED
    BY <1>1, <1>3, <1>4, <1>6, <1>7 DEF SetProviderID, a, b, s

-----------------------------------------------------------------------------
(* Taking the prefix away.                                                 *)

\* Whatever is left of a string without its prefixes is a string.
LEMMA WithoutPrefixString ==
    ASSUME NEW s, IsString(s)
    PROVE  IsString(WithoutPrefix(s))
  <1> DEFINE n == Len(ProviderPrefix)
             starts == {i \in 1 .. Len(s) - n + 1 : SubSeq(s, i, i + n - 1) = ProviderPrefix}
             kept == {i \in 1 .. Len(s) : \A j \in starts : i \notin j .. j + n - 1}
             nth(k) == CHOOSE i \in kept : Cardinality({j \in kept : j <= i}) = k
             f == [k \in 1 .. Cardinality(kept) |-> s[nth(k)]]
  <1>1. Cardinality(kept) \in Nat
    <2>1. 1 \in Int /\ Len(s) \in Int
      BY DEF IsString
    <2>2. IsFiniteSet(1 .. Len(s)) /\ kept \subseteq 1 .. Len(s)
      BY <2>1, FS_Interval
    <2> HIDE DEF kept
    <2>3. IsFiniteSet(kept)
      BY <2>2, FS_Subset
    <2>4. QED
      BY <2>3, FS_CardinalityType
  <1>2. f = [k \in 1 .. Cardinality(kept) |-> f[k]]
    <2> HIDE DEF kept, nth
    <2>1. QED
      OBVIOUS
  <1> HIDE DEF f
  <1>3. IsString(f)
    BY <1>1, <1>2, Tabulated
  <1>4. WithoutPrefix(s) = f
    BY DEF WithoutPrefix, f
  <1>5. QED
    BY <1>3, <1>4

LEMMA IntervalSize ==
    ASSUME NEW a \in Int, NEW b \in Int, a <= b,
           NEW S, \A j : j \in S <=> j \in Int /\ a <= j /\ j <= b
    PROVE  Cardinality(S) = b - a + 1
  <1>1. S = a .. b
    <2> DEFINE T == a .. b
    <2>1. \A j : j \in S <=> j \in T
      OBVIOUS
    <2> HIDE DEF T
    <2>2. S = T
      BY <2>1, Zenon
    <2>3. QED
      BY <2>2 DEF T
  <1>2. Cardinality(a .. b) = b - a + 1
    BY FS_Interval
  <1>3. QED
    BY <1>1, <1>2

\* A formatted provider ID loses its first four tokens and no other.
LEMMA PrefixTaken ==
    ASSUME NEW fd, NEW u, IsString(fd), IsString(u), ~Contains(fd, "/"), ~Contains(u, "/")
    PROVE  LET w == WithoutPrefix(SetProviderID(fd, u))
           IN  /\ IsString(w) /\ Len(w) = Len(fd) + Len(u) + 1
               /\ \A k \in 1 .. Len(fd) : w[k] = fd[k]
               /\ w[Len(fd) + 1] = "/"
  <1> DEFINE s == SetProviderID(fd, u)
             m == Len(fd)
             l == Len(u)
             n == Len(ProviderPrefix)
             starts == {i \in 1 .. Len(s) - n + 1 : SubSeq(s, i, i + n - 1) = ProviderPrefix}
             kept == {i \in 1 .. Len(s) : \A j \in starts : i \notin j .. j + n - 1}
             nth(k) == CHOOSE i \in kept : Cardinality({j \in kept : j <= i}) = k
             f == [k \in 1 .. Cardinality(kept) |-> s[nth(k)]]
  <1>1. /\ IsString(s) /\ Len(s) = m + l + 5 /\ m \in Nat /\ l \in Nat
        /\ s[1] = "microvm" /\ s[2] = ":" /\ s[3] = "/" /\ s[4] = "/"
        /\ \A k \in 1 .. m : s[k + 4] = fd[k]
        /\ s[m + 5] = "/"
        /\ \A k \in 1 .. l : s[k + m + 5] = u[k]
    BY Formatted
  <1>2. n = 4
    BY PrefixTokens
  <1>3. /\ \A k \in 1 .. m : fd[k] # "/"
        /\ \A k \in 1 .. l : u[k] # "/"
    BY DEF Contains
  <1>4. WithoutPrefix(s) = f
    BY DEF WithoutPrefix
  <1> HIDE DEF s, m, l, n
  <1>5. \A i \in 1 .. Len(s) : s[i] = "/" => i \in {3, 4, m + 5}
    <2>1. SUFFICES ASSUME NEW i \in 1 .. Len(s), i \notin {1, 2, 3, 4, m + 5}
                   PROVE  s[i] # "/"
      BY <1>1
    <2>2. CASE i <= m + 4
      <3>1. i - 4 \in 1 .. m /\ (i - 4) + 4 = i
        BY <1>1, <2>1, <2>2
      <3>2. QED
        BY <1>1, <1>3, <3>1
    <2>3. CASE i > m + 4
      <3>1. i - m - 5 \in 1 .. l /\ (i - m - 5) + m + 5 = i
        BY <1>1, <2>1, <2>3
      <3>2. QED
        BY <1>1, <1>3, <3>1
    <2>4. QED
      BY <1>1, <2>2, <2>3
  <1>6. starts = {1}
    <2>1. ASSUME NEW i \in 1 .. Len(s) - 3
          PROVE  /\ IsString(SubSeq(s, i, i + 3)) /\ Len(SubSeq(s, i, i + 3)) = 4
                 /\ \A k \in 1 .. 4 : SubSeq(s, i, i + 3)[k] = s[i + k - 1]
      <3> DEFINE j == i + 3
      <3>1. IsString(s) /\ i \in 1 .. Len(s) + 1
        BY <1>1
      <3>2. j \in i - 1 .. Len(s) /\ j - i + 1 = 4
        BY <1>1
      <3> HIDE DEF j
      <3>3. /\ IsString(SubSeq(s, i, j)) /\ Len(SubSeq(s, i, j)) = j - i + 1
            /\ \A k \in 1 .. j - i + 1 : SubSeq(s, i, j)[k] = s[i + k - 1]
        BY <3>1, <3>2, PartOf
      <3>4. QED
        BY <3>2, <3>3 DEF j
    <2>2. SubSeq(s, 1, 1 + 3) = ProviderPrefix /\ 1 \in 1 .. Len(s) - 3
      <3>1. 1 \in 1 .. Len(s) - 3 /\ 1 + 3 = 4
        BY <1>1
      <3> DEFINE t == SubSeq(s, 1, 1 + 3)
      <3>2. /\ IsString(t) /\ Len(t) = 4
            /\ \A k \in 1 .. 4 : t[k] = s[1 + k - 1]
        BY <2>1, <3>1
      <3> HIDE DEF t
      <3>3. \A k \in 1 .. 4 : t[k] = s[k]
        BY <3>2
      <3>4. \A k \in 1 .. Len(t) : t[k] = ProviderPrefix[k]
        BY <1>1, <3>2, <3>3, PrefixTokens
      <3>5. t = ProviderPrefix
        BY <3>2, <3>4, PrefixTokens, EqualStrings
      <3>6. QED
        BY <3>1, <3>5 DEF t
    <2>3. ASSUME NEW i \in 1 .. Len(s) - 3, SubSeq(s, i, i + 3) = ProviderPrefix
          PROVE  i = 1
      <3>1. s[i + 1 - 1] = "microvm" /\ s[i + 3 - 1] = "/" /\ s[i + 4 - 1] = "/"
        BY <2>1, <2>3, PrefixTokens
      <3>2. s[i] = "microvm" /\ s[i + 2] = "/" /\ s[i + 3] = "/"
        BY <3>1
      <3>3. i + 2 \in {3, 4, m + 5} /\ i + 3 \in {3, 4, m + 5}
        BY <1>1, <1>5, <3>2
      <3>4. i # 2
        BY <1>1, <3>2
      <3>5. QED
        BY <1>1, <3>3, <3>4
    <2>4. Len(s) - n + 1 = Len(s) - 3 /\ \A i \in 1 .. Len(s) - 3 : i + n - 1 = i + 3
      BY <1>1, <1>2
    <2>5. 1 \in starts
      BY <2>2, <2>4, Zenon
    <2>6. ASSUME NEW i \in starts PROVE i = 1
      <3>1. i \in 1 .. Len(s) - 3
        BY <2>4
      <3>2. SubSeq(s, i, i + 3) = ProviderPrefix
        BY <2>4, <3>1
      <3>3. QED
        BY <2>3, <3>1, <3>2
    <2> HIDE DEF starts
    <2>7. QED
      BY <2>5, <2>6
  <1> HIDE DEF starts
  <1>7. kept = 5 .. Len(s)
    BY <1>1, <1>2, <1>6
  <1> HIDE DEF kept
  <1>8. \A i \in kept : Cardinality({j \in kept : j <= i}) = i - 4
    <2>1. SUFFICES ASSUME NEW i \in kept PROVE Cardinality({j \in kept : j <= i}) = i - 4
      OBVIOUS
    <2> DEFINE S == {j \in kept : j <= i}
    <2>2. 5 \in Int /\ i \in Int /\ 5 <= i /\ \A j : j \in S <=> j \in Int /\ 5 <= j /\ j <= i
      BY <1>1, <1>7
    <2> HIDE DEF S
    <2>3. Cardinality(S) = i - 5 + 1
      BY <2>2, IntervalSize
    <2>4. QED
      BY <2>2, <2>3 DEF S
  <1>9. Cardinality(kept) = m + l + 1
    <2>1. Len(s) \in kept
      BY <1>1, <1>7
    <2>2. {j \in kept : j <= Len(s)} = kept
      BY <1>1, <1>7
    <2>3. QED
      BY <1>1, <1>8, <2>1, <2>2
  <1>10. \A k \in 1 .. m + l + 1 : nth(k) = k + 4
    <2>1. SUFFICES ASSUME NEW k \in 1 .. m + l + 1 PROVE nth(k) = k + 4
      OBVIOUS
    <2>2. k + 4 \in kept /\ (k + 4) - 4 = k
      BY <1>1, <1>7
    <2>3. Cardinality({j \in kept : j <= k + 4}) = k
      BY <1>8, <2>2
    <2>4. nth(k) \in kept /\ Cardinality({j \in kept : j <= nth(k)}) = k
      BY <2>2, <2>3
    <2> HIDE DEF nth
    <2>5. nth(k) \in Int /\ nth(k) - 4 = k
      BY <1>1, <1>7, <1>8, <2>4
    <2>6. QED
      BY <1>1, <2>5
  <1> HIDE DEF nth
  <1>11. m + l + 1 \in Nat /\ f = [k \in 1 .. m + l + 1 |-> s[k + 4]]
    BY <1>1, <1>9, <1>10
  <1> HIDE DEF f
  <1>12. IsString(f) /\ Len(f) = m + l + 1
    <2>1. f = [k \in 1 .. m + l + 1 |-> f[k]]
      BY <1>11
    <2>2. QED
      BY <1>11, <2>1, Tabulated
  <1>13. (\A k \in 1 .. m : f[k] = fd[k]) /\ f[m + 1] = "/"
    BY <1>1, <1>11
  <1>14. QED
    BY <1>4, <1>12, <1>13 DEF s, m, l

\* What is formatted is parsed again: the endpoint and the UID come back.
LEMMA RoundTrip ==
    ASSUME NEW fd, NEW u, IsString(fd), IsString(u),
           ~Contains(fd, "/"), ~Contains(u, "/"), u # <<>>
    PROVE  /\ getFailureDomainFromProviderID(SetProviderID(fd, u)) = fd
           /\ GetInstanceID(SetProviderID(fd, u)) = u
  <1> DEFINE s == SetProviderID(fd, u)
             w == WithoutPrefix(s)
             m == Len(fd)
             l == Len(u)
  <1>1. /\ IsString(s) /\ Len(s) = m + l + 5 /\ m \in Nat /\ l \in Nat
        /\ s[1] = "microvm" /\ s[2] = ":" /\ s[3] = "/" /\ s[4] = "/"
        /\ \A k \in 1 .. m : s[k + 4] = fd[k]
        /\ s[m + 5] = "/"
        /\ \A k \in 1 .. l : s[k + m + 5] = u[k]
    BY Formatted
  <1>2. /\ IsString(w) /\ Len(w) = m + l + 1
        /\ \A k \in 1 .. m : w[k] = fd[k]
        /\ w[m + 1] = "/"
    BY PrefixTaken, Zenon
  <1>3. /\ \A k \in 1 .. m : fd[k] # "/"
        /\ \A k \in 1 .. l : u[k] # "/"
    BY DEF Contains
  <1>4. l > 0
    BY <1>1 DEF IsString
  <1>5. getFailureDomainFromProviderID(s) = Before(w, "/")
    BY DEF getFailureDomainFromProviderID
  <1> HIDE DEF s, w, m
  <1>6. Before(w, "/") = fd
    <2> DEFINE q == m + 1
    <2>1. q \in 1 .. Len(w) /\ q - 1 = m /\ w[q] = "/" /\ \A i \in 1 .. q - 1 : w[i] # "/"
      BY <1>1, <1>2, <1>3
    <2> HIDE DEF q
    <2>2. Before(w, "/") = SubSeq(w, 1, q - 1)
      BY <1>2, <2>1, BeforeFirst
    <2>3. 1 \in 1 .. Len(w) + 1 /\ m \in 1 - 1 .. Len(w) /\ m - 1 + 1 = m
      BY <1>1, <1>2
    <2> DEFINE t == SubSeq(w, 1, m)
    <2>4. /\ IsString(t) /\ Len(t) = m - 1 + 1
          /\ \A k \in 1 .. m - 1 + 1 : t[k] = w[1 + k - 1]
      BY <1>2, <2>3, PartOf
    <2>5. t = fd
      <3>1. Len(t) = Len(fd) /\ \A k \in 1 .. Len(t) : t[k] = fd[k]
        <4> HIDE DEF t
        <4>1. QED
          BY <1>1, <1>2, <2>4 DEF m
      <3> HIDE DEF t
      <3>2. QED
        BY <2>4, <3>1, EqualStrings
    <2>6. QED
      BY <2>1, <2>2, <2>5
  <1>7. GetInstanceID(s) = u
    <2> DEFINE j == m + 6
    <2>1. Form(s, 1, j)
      <3>1. \A k \in j .. Len(s) : s[k] # "/"
        <4>1. SUFFICES ASSUME NEW k \in j .. Len(s) PROVE s[k] # "/"
          OBVIOUS
        <4>2. k - m - 5 \in 1 .. l /\ (k - m - 5) + m + 5 = k
          BY <1>1
        <4>3. QED
          BY <1>1, <1>3, <4>2
      <3>2. s[j - 1] = "/" /\ 1 + 4 <= j /\ 1 \in 1 .. Len(s) /\ j \in 1 .. Len(s)
        BY <1>1, <1>4
      <3>3. s[1 + 1] = ":" /\ s[1 + 2] = "/" /\ s[1 + 3] = "/" /\ \A k \in 1 .. 1 : s[k] # ":"
        BY <1>1
      <3> HIDE DEF j
      <3>4. QED
        BY <3>1, <3>2, <3>3 DEF Form
    <2>2. j \in 1 .. Len(s) + 1 /\ Len(s) \in j - 1 .. Len(s) /\ Len(s) - j + 1 = l
      BY <1>1, <1>4
    <2>3. \A k \in 1 .. l : s[j + k - 1] = u[k]
      <3>1. \A k \in 1 .. l : j + k - 1 = k + m + 5
        BY <1>1
      <3>2. QED
        BY <1>1, <3>1
    <2> HIDE DEF j
    <2> DEFINE t == SubSeq(s, j, Len(s))
    <2>4. GetInstanceID(s) = t
      BY <1>1, <2>1, FormParsed
    <2>5. /\ IsString(t) /\ Len(t) = Len(s) - j + 1
          /\ \A k \in 1 .. Len(s) - j + 1 : t[k] = s[j + k - 1]
      BY <1>1, <2>2, PartOf
    <2> HIDE DEF t
    <2>6. Len(t) = Len(u) /\ \A k \in 1 .. Len(t) : t[k] = u[k]
      BY <2>2, <2>3, <2>5
    <2>7. t = u
      BY <2>5, <2>6, EqualStrings
    <2>8. QED
      BY <2>4, <2>7
  <1>8. QED
    BY <1>5, <1>6, <1>7 DEF s

-----------------------------------------------------------------------------
(* The reconciles.                                                         *)

\* What a provider ID was formatted from, and which token was sent with it.
IDInv ==
    /\ address \in Addresses /\ secret \subseteq Addresses
    /\ IsString(providerID)
    /\ uid # <<>> => /\ uid \in UIDs
                     /\ IsString(dialled) /\ ~Contains(dialled, "/")
                     /\ providerID = SetProviderID(dialled, uid)
    /\ dialled = <<>> \/ token = GetBasicAuthToken(dialled)

\* An endpoint as a microvm is placed on it.
LEMMA Endpoint ==
    ASSUME NEW a \in Addresses
    PROVE  IsString(a \o Port) /\ ~Contains(a \o Port, "/") /\ a \o Port # <<>>
  <1> DEFINE e == a \o Port
  <1>1. IsString(a) /\ IsString(Port) /\ a # <<>>
    BY StringsAssumption
  <1>2. /\ \A i \in 1 .. Len(a) : a[i] # "/"
        /\ \A i \in 1 .. Len(Port) : Port[i] # "/"
    BY StringsAssumption DEF Contains
  <1>3. /\ IsString(e)
        /\ Len(e) = Len(a) + Len(Port) /\ Len(a) \in Nat /\ Len(Port) \in Nat
        /\ \A i \in 1 .. Len(a) : e[i] = a[i]
        /\ \A i \in Len(a) + 1 .. Len(a) + Len(Port) : e[i] = Port[i - Len(a)]
    BY <1>1, Joined
  <1> HIDE DEF e
  <1>4. Len(e) > 0
    <2>1. Len(a) > 0
      BY <1>1 DEF IsString
    <2>2. QED
      BY <1>3, <2>1
  <1>5. \A i \in 1 .. Len(e) : e[i] # "/"
    <2>1. SUFFICES ASSUME NEW i \in 1 .. Len(e) PROVE e[i] # "/"
      OBVIOUS
    <2>2. CASE i <= Len(a)
      BY <1>2, <1>3, <2>2
    <2>3. CASE i > Len(a)
      <3>1. i \in Len(a) + 1 .. Len(a) + Len(Port) /\ i - Len(a) \in 1 .. Len(Port)
        BY <1>3, <2>3
      <3>2. QED
        BY <1>2, <1>3, <3>1
    <2>4. QED
      BY <1>3, <2>2, <2>3
  <1>6. QED
    BY <1>3, <1>4, <1>5, LongNotEmpty DEF Contains, e

\* The key of an endpoint is that of its address.
LEMMA EndpointKey ==
    ASSUME NEW a \in Addresses
    PROVE  TokenKey(a \o Port) = Before(a, ":")
  <1> DEFINE e == a \o Port
             l == Len(a)
  <1>1. IsString(a) /\ IsString(Port) /\ Port # <<>> /\ Port[1] = ":"
    BY StringsAssumption
  <1>2. /\ IsString(e)
        /\ Len(e) = l + Len(Port) /\ l \in Nat /\ Len(Port) \in Nat
        /\ \A i \in 1 .. l : e[i] = a[i]
        /\ \A i \in l + 1 .. l + Len(Port) : e[i] = Port[i - l]
    BY <1>1, Joined
  <1>3. Len(Port) > 0
    BY <1>1 DEF IsString
  <1> HIDE DEF e
  <1>4. ASSUME NEW n \in 1 .. l + 1, e[n] = ":", \A i \in 1 .. n - 1 : e[i] # ":"
        PROVE  /\ Before(e, ":") = SubSeq(e, 1, n - 1)
               /\ SubSeq(e, 1, n - 1) = SubSeq(a, 1, n - 1)
    <2>1. n \in 1 .. Len(e)
      BY <1>2, <1>3
    <2>2. Before(e, ":") = SubSeq(e, 1, n - 1)
      BY <1>2, <1>4, <2>1, BeforeFirst
    <2> DEFINE j == n - 1
    <2>3. /\ 1 \in 1 .. Len(e) + 1 /\ j \in 1 - 1 .. Len(e)
          /\ 1 \in 1 .. Len(a) + 1 /\ j \in 1 - 1 .. Len(a)
          /\ j - 1 + 1 = j
      BY <1>2, <1>3
    <2> HIDE DEF j
    <2> DEFINE s == SubSeq(e, 1, j)
               t == SubSeq(a, 1, j)
    <2>4. /\ IsString(s) /\ Len(s) = j - 1 + 1
          /\ \A k \in 1 .. j - 1 + 1 : s[k] = e[1 + k - 1]
      BY <1>2, <2>3, PartOf
    <2>5. /\ IsString(t) /\ Len(t) = j - 1 + 1
          /\ \A k \in 1 .. j - 1 + 1 : t[k] = a[1 + k - 1]
      BY <1>1, <2>3, PartOf
    <2> HIDE DEF s, t
    <2>6. Len(s) = Len(t) /\ \A k \in 1 .. Len(s) : s[k] = t[k]
      BY <1>2, <2>3, <2>4, <2>5
    <2>7. s = t
      BY <2>4, <2>5, <2>6, EqualStrings
    <2>8. QED
      BY <2>2, <2>7 DEF j, s, t
  <1>5. CASE Contains(a, ":")
    <2>1. PICK n \in 1 .. Len(a) : a[n] = ":" /\ \A i \in 1 .. n - 1 : a[i] # ":"
      BY <1>1, <1>5, FirstPlace
    <2>2. n \in 1 .. l + 1 /\ e[n] = ":" /\ \A i \in 1 .. n - 1 : e[i] # ":"
      BY <1>2, <2>1
    <2>3. Before(a, ":") = SubSeq(a, 1, n - 1)
      BY <1>1, <2>1, BeforeFirst
    <2>4. Before(e, ":") = SubSeq(a, 1, n - 1)
      BY <1>4, <2>2
    <2>5. QED
      BY <2>3, <2>4 DEF TokenKey, e
  <1>6. CASE ~Contains(a, ":")
    <2> DEFINE n == l + 1
    <2>1. n \in 1 .. l + 1 /\ e[n] = ":" /\ (\A i \in 1 .. n - 1 : e[i] # ":") /\ n - 1 = l
      BY <1>1, <1>2, <1>3, <1>6 DEF Contains
    <2> HIDE DEF n
    <2>2. Before(e, ":") = SubSeq(a, 1, l)
      BY <1>4, <2>1
    <2>3. SubSeq(a, 1, l) = a
      BY <1>1 DEF IsString
    <2>4. QED
      BY <1>6, <2>2, <2>3, BeforeAll DEF TokenKey, e
  <1>7. QED
    BY <1>5, <1>6

LEMMA InitID == Init => IDInv
  <1> SUFFICES ASSUME Init PROVE IDInv
    OBVIOUS
  <1>1. address \in Addresses /\ secret \subseteq Addresses /\ uid = <<>> /\ dialled = <<>>
    BY DEF Init
  <1>2. IsString(providerID)
    <2>1. CASE providerID = <<>>
      <3>1. <<>> \in Seq(Range(<<>>))
        OBVIOUS
      <3>2. QED
        BY <2>1, <3>1 DEF IsString
    <2>2. CASE providerID \in Written
      BY <2>2, StringsAssumption
    <2>3. QED
      BY <2>1, <2>2 DEF Init
  <1>3. QED
    BY <1>1, <1>2 DEF IDInv

\* What one reconcile dials and records.
LEMMA ReconcileStep ==
    ASSUME IDInv, Reconcile
    PROVE  /\ IsString(dialled') /\ ~Contains(dialled', "/")
           /\ uid' \in UIDs /\ IsString(uid') /\ uid' # <<>> /\ ~Contains(uid', "/")
           /\ providerID' = SetProviderID(dialled', uid')
           /\ token' = GetBasicAuthToken(dialled')
           /\ address' = address /\ secret' = secret
           /\ uid # <<>> => dialled' = dialled /\ asked' = uid /\ uid' = uid
  <1> DEFINE fd == IF providerID = <<>> THEN address \o Port
                   ELSE getFailureDomainFromProviderID(providerID)
  <1>1. /\ dialled' = fd /\ asked' = GetInstanceID(providerID) /\ token' = GetBasicAuthToken(fd)
        /\ address' = address /\ secret' = secret
    BY DEF Reconcile
  <1>2. /\ uid' \in UIDs /\ providerID' = SetProviderID(fd, uid')
        /\ asked' = uid /\ uid # <<>> => uid' = uid
    BY DEF Reconcile
  <1>3. IsString(fd) /\ ~Contains(fd, "/")
    <2>1. CASE providerID = <<>>
      <3>1. fd = address \o Port /\ address \in Addresses
        BY <2>1 DEF IDInv
      <3>2. QED
        BY <3>1, Endpoint
    <2>2. CASE providerID # <<>>
      <3>1. fd = Before(WithoutPrefix(providerID), "/") /\ IsString(providerID)
        BY <2>2 DEF IDInv, getFailureDomainFromProviderID
      <3>2. IsString(WithoutPrefix(providerID))
        BY <3>1, WithoutPrefixString
      <3> HIDE DEF fd
      <3>3. QED
        BY <3>1, <3>2, BeforeHasNone
    <2>3. QED
      BY <2>1, <2>2
  <1>4. ASSUME uid # <<>> PROVE fd = dialled /\ asked' = uid
    <2>1. /\ uid \in UIDs /\ IsString(dialled) /\ ~Contains(dialled, "/")
          /\ providerID = SetProviderID(dialled, uid)
      BY <1>4 DEF IDInv
    <2>2. IsString(uid) /\ ~Contains(uid, "/")
      BY <2>1, StringsAssumption
    <2>3. /\ getFailureDomainFromProviderID(providerID) = dialled
          /\ GetInstanceID(providerID) = uid
      BY <1>4, <2>1, <2>2, RoundTrip
    <2>4. providerID # <<>>
      <3> DEFINE s == SetProviderID(dialled, uid)
      <3>1. Len(s) = Len(dialled) + Len(uid) + 5 /\ Len(dialled) \in Nat /\ Len(uid) \in Nat
        BY <2>1, <2>2, Formatted
      <3> HIDE DEF s
      <3>2. Len(s) > 0
        BY <3>1
      <3>3. QED
        BY <2>1, <3>2, LongNotEmpty DEF s
    <2>5. QED
      BY <1>1, <2>3, <2>4
  <1>5. IsString(uid') /\ uid' # <<>> /\ ~Contains(uid', "/")
    BY <1>2, StringsAssumption
  <1> HIDE DEF fd
  <1>6. QED
    BY <1>1, <1>2, <1>3, <1>4, <1>5

LEMMA NextID == IDInv /\ [Next]_vars => IDInv'
  <1> SUFFICES ASSUME IDInv, [Next]_vars PROVE IDInv'
    OBVIOUS
  <1>1. CASE Reconcile
    <2>1. /\ IsString(dialled') /\ ~Contains(dialled', "/")
          /\ uid' \in UIDs /\ IsString(uid')
          /\ providerID' = SetProviderID(dialled', uid')
          /\ token' = GetBasicAuthToken(dialled')
          /\ address' = address /\ secret' = secret
      BY <1>1, ReconcileStep
    <2>2. IsString(providerID')
      <3>1. IsString(SetProviderID(dialled', uid'))
        BY <2>1, Formatted
      <3>2. QED
        BY <2>1, <3>1
    <2>3. GetBasicAuthToken(dialled)' = GetBasicAuthToken(dialled')
      BY <2>1 DEF GetBasicAuthToken
    <2>4. QED
      BY <2>1, <2>2, <2>3 DEF IDInv
  <1>2. CASE UNCHANGED vars
    BY <1>2 DEF IDInv, vars, GetBasicAuthToken
  <1>3. QED
    BY <1>1, <1>2 DEF Next

\* Whatever a provider ID holds, formatted by a reconcile or written by a user,
\* NewProviderID accepts it exactly if it has the form <provider>://<path>/<id>,
\* and returns that id: for IDs of any length.
THEOREM ParsedTheorem == Spec => []ParsedByForm
  <1>1. IDInv => ParsedByForm
    BY ParsedByFormOf DEF IDInv
  <1>2. QED
    BY <1>1, InitID, NextID, PTL DEF Spec

\* Parsing and formatting a provider ID anew never moves a machine to another
\* endpoint or another microVM, whatever hosts and UIDs there are and whatever
\* ID a user wrote before the first reconcile.
THEOREM AddressTheorem == Spec => AddressKept
  <1>1. IDInv /\ [Next]_vars =>
           [uid # <<>> => /\ dialled' = dialled
                          /\ asked' = uid
                          /\ providerID' = providerID]_vars
    <2> SUFFICES ASSUME IDInv, Reconcile, uid # <<>>
                 PROVE  dialled' = dialled /\ asked' = uid /\ providerID' = providerID
      BY DEF Next
    <2>1. dialled' = dialled /\ asked' = uid /\ uid' = uid
      BY ReconcileStep
    <2>2. providerID' = SetProviderID(dialled', uid')
      BY ReconcileStep
    <2>3. QED
      BY <2>1, <2>2 DEF IDInv
  <1>2. QED
    BY <1>1, InitID, NextID, PTL DEF Spec, AddressKept

\* GetBasicAuthToken never hands a machine the token of another host, and hands
\* it its own host's whenever the secret has one and the address has no colon.
THEOREM TokenTheorem == Spec => []OwnToken
  <1>1. IDInv => OwnToken
    <2> SUFFICES ASSUME IDInv, dialled = address \o Port
                 PROVE  /\ token \in {address, <<>>}
                        /\ address \in secret /\ ~Contains(address, ":") => token = address
      BY DEF OwnToken
    <2>1. address \in Addresses /\ secret \subseteq Addresses
      BY DEF IDInv
    <2>2. dialled # <<>>
      BY <2>1, Endpoint
    <2>3. TokenKey(dialled) = Before(address, ":")
      BY <2>1, EndpointKey
    <2>4. token = IF Before(address, ":") \in secret THEN Before(address, ":") ELSE <<>>
      BY <2>2, <2>3 DEF IDInv, GetBasicAuthToken
    <2>5. Before(address, ":") \in secret => Before(address, ":") = address
      BY <2>1, HostsAssumption
    <2>6. ~Contains(address, ":") => Before(address, ":") = address
      BY BeforeAll
    <2>7. QED
      BY <2>4, <2>5, <2>6
  <1>2. QED
    BY <1>1, InitID, NextID, PTL DEF Spec
=============================================================================
