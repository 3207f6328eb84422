------------------------------ MODULE PagesProofs ------------------------------
(***************************************************************************)
(* The pages of Website tell what the database says, once all is done: the *)
(* theorem and its proof.                                                  *)
(***************************************************************************)
EXTENDS RemovalProofs

-----------------------------------------------------------------------------
(* A statement that changes what a page tells is followed by the request    *)
(* for that page, or, in MrChase, by an error that tells the operator.      *)

\* One of the statements asks for a page of p, or pays for it otherwise.
Paid(q, p, K) == \E j \in 1..Len(q) : q[j].do \in K /\ q[j].key[1] = p
PaidAfter(q, i, p, K) ==
  \E j \in 1..Len(q) : i < j /\ q[j].do \in K /\ q[j].key[1] = p

Stops == {"ERROR", "expect"}
Excuses(c) == IF c = "chase" THEN Stops ELSE {}
Questions == {"addpkg", "addver", "exists", "binary"}
Replies == {"DONE"} \cup Stops

\* What is to follow a statement of c: any rewrite, or that of the simple page.
\* MrChase marks a version as yanked only before it has any file.
Touching(c) == {"skip", "failed"} \cup IF c = "chase" THEN {"yank"} ELSE {}
Offering(c) == {"unyank", "logged"} \cup IF c = "chase" THEN {} ELSE {"yank"}

Follows(q, i, c) ==
  /\ q[i].do \in Touching(c) => PaidAfter(q, i, q[i].key[1], Rewrites \cup Excuses(c))
  /\ q[i].do \in Offering(c) => PaidAfter(q, i, q[i].key[1], {"BOTH"} \cup Excuses(c))

\* MrChase replies at the end, and asks a question at the end.
Ends(q, i) ==
  /\ q[i].do \in Replies \cup Questions => i = Len(q)
  /\ q[i].do = "logged" => i + 1 = Len(q) /\ q[i + 1].do = "expect" /\ q[i + 1].key = q[i].key

Tidy(B, c) ==
  {q \in Seq(B) : \A i \in 1..Len(q) : Follows(q, i, c) /\ (c = "chase" => Ends(q, i))}

\* A package or a version that is added gets its page; MrChase marks only a
\* version that it has just added.
Branches(s, c) ==
  /\ s.do \notin Questions => s.yes = <<>>
  /\ s.do = "addpkg" => Paid(s.yes, s.key[1], {"BOTH"})
  /\ s.do = "addver" => Paid(s.yes, s.key[1], Rewrites)
  /\ c = "chase" =>
       /\ \A i \in 1..Len(s.yes) : s.yes[i].do = "yank" => s.do = "addver" /\ s.yes[i].key = s.key
       /\ \A i \in 1..Len(s.no) : s.no[i].do # "yank"

Ordered(B, c) ==
  {s \in [do : Calls, key : Keys, arg : Args, yes : Tidy(B, c), no : Tidy(B, c)] :
     Branches(s, c)}
Order0(c) == Ordered({}, c)
Order1(c) == Ordered(Order0(c), c)
Order2(c) == Ordered(Order1(c), c)

LEMMA TidyMonotone ==
  ASSUME NEW A, NEW B, A \subseteq B, NEW c PROVE Tidy(A, c) \subseteq Tidy(B, c)
  <1>1. Seq(A) \subseteq Seq(B)
    BY SeqMonotone
  <1> QED BY <1>1 DEF Tidy

LEMMA OrderedMonotone ==
  ASSUME NEW A, NEW B, A \subseteq B, NEW c PROVE Ordered(A, c) \subseteq Ordered(B, c)
  <1>1. Tidy(A, c) \subseteq Tidy(B, c)
    BY TidyMonotone
  <1> QED BY <1>1 DEF Ordered

LEMMA Orders ==
  ASSUME NEW c
  PROVE  /\ Order0(c) \subseteq Order1(c) /\ Order1(c) \subseteq Order2(c)
         /\ Tidy(Order0(c), c) \subseteq Tidy(Order1(c), c)
         /\ Tidy(Order1(c), c) \subseteq Tidy(Order2(c), c)
  <1>1. Order0(c) \subseteq Order1(c)
    BY OrderedMonotone DEF Order0, Order1
  <1>2. Order1(c) \subseteq Order2(c)
    BY <1>1, OrderedMonotone DEF Order1, Order2
  <1> QED BY <1>1, <1>2, TidyMonotone

LEMMA TidyEmpty == ASSUME NEW B, NEW c PROVE <<>> \in Tidy(B, c)
  <1>1. <<>> \in Seq(B) /\ Len(<<>>) = 0
    BY EmptyInSeq
  <1> QED BY <1>1 DEF Tidy

LEMMA PaidTail ==
  ASSUME NEW S, NEW q \in Seq(S), q # <<>>, NEW p, NEW K
  PROVE  /\ PaidAfter(q, 1, p, K) => Paid(Tail(q), p, K)
         /\ Paid(q, p, K) => (Head(q).do \in K /\ Head(q).key[1] = p) \/ Paid(Tail(q), p, K)
  <1>1. /\ Len(Tail(q)) = Len(q) - 1 /\ Len(q) \in Nat /\ Head(q) = q[1]
        /\ \A j \in 1..Len(Tail(q)) : Tail(q)[j] = q[j + 1]
    OBVIOUS
  <1>2. ASSUME NEW j \in 1..Len(q), 1 < j, q[j].do \in K, q[j].key[1] = p
        PROVE  Paid(Tail(q), p, K)
    <2>1. j - 1 \in 1..Len(Tail(q)) /\ Tail(q)[j - 1] = q[j]
      BY <1>1, <1>2
    <2> QED BY <1>2, <2>1 DEF Paid
  <1>3. \A j \in 1..Len(q) : 1 < j \/ j = 1
    BY <1>1
  <1> QED BY <1>1, <1>2, <1>3 DEF Paid, PaidAfter

LEMMA PaidConcat ==
  ASSUME NEW S, NEW a \in Seq(S), NEW b \in Seq(S), NEW p, NEW K,
         Paid(a, p, K) \/ Paid(b, p, K)
  PROVE  Paid(a \o b, p, K)
  <1> DEFINE q == a \o b
  <1>1. /\ Len(q) = Len(a) + Len(b) /\ Len(a) \in Nat /\ Len(b) \in Nat
        /\ \A j \in 1..Len(a) : q[j] = a[j]
        /\ \A j \in 1..Len(b) : q[j + Len(a)] = b[j]
    <2>1. /\ Len(q) = Len(a) + Len(b) /\ Len(a) \in Nat /\ Len(b) \in Nat
          /\ \A j \in 1..Len(a) + Len(b) : q[j] = IF j <= Len(a) THEN a[j] ELSE b[j - Len(a)]
      BY ConcatProperties
    <2> HIDE DEF q
    <2> QED BY <2>1
  <1> HIDE DEF q
  <1>2. ASSUME NEW j \in 1..Len(a), a[j].do \in K, a[j].key[1] = p PROVE Paid(q, p, K)
    BY <1>1, <1>2 DEF Paid
  <1>3. ASSUME NEW j \in 1..Len(b), b[j].do \in K, b[j].key[1] = p PROVE Paid(q, p, K)
    <2>1. j + Len(a) \in 1..Len(q)
      BY <1>1
    <2> QED BY <1>1, <1>3, <2>1 DEF Paid
  <1>4. Paid(q, p, K)
    BY <1>2, <1>3 DEF Paid
  <1> QED BY <1>4 DEF q

LEMMA TidyTail ==
  ASSUME NEW B, NEW c, NEW q \in Tidy(B, c), q # <<>>
  PROVE  /\ Head(q) \in B /\ Head(q) = q[1] /\ Tail(q) \in Tidy(B, c)
         /\ Head(q).do \in Touching(c) => Paid(Tail(q), Head(q).key[1], Rewrites \cup Excuses(c))
         /\ Head(q).do \in Offering(c) => Paid(Tail(q), Head(q).key[1], {"BOTH"} \cup Excuses(c))
         /\ c = "chase" /\ Head(q).do \in Replies \cup Questions => Tail(q) = <<>>
         /\ c = "chase" /\ Head(q).do = "logged" =>
              Len(q) = 2 /\ q[2].do = "expect" /\ q[2].key = Head(q).key
  <1> DEFINE t == Tail(q)
  <1>1. q \in Seq(B) /\ \A i \in 1..Len(q) : Follows(q, i, c) /\ (c = "chase" => Ends(q, i))
    BY DEF Tidy
  <1>2. /\ t \in Seq(B) /\ Len(t) = Len(q) - 1 /\ Len(q) \in Nat /\ Head(q) = q[1]
        /\ \A j \in 1..Len(t) : t[j] = q[j + 1]
        /\ Head(q) \in B /\ 1 \in 1..Len(q)
    BY <1>1
  <1>3. Follows(q, 1, c) /\ (c = "chase" => Ends(q, 1))
    BY <1>1, <1>2
  <1> HIDE DEF t
  <1>4. ASSUME NEW i \in 1..Len(t) PROVE Follows(t, i, c) /\ (c = "chase" => Ends(t, i))
    <2>1. /\ i + 1 \in 1..Len(q) /\ t[i] = q[i + 1] /\ (i + 1 = Len(q) => i = Len(t))
          /\ i + 1 # 1
      BY <1>2
    <2>2. Follows(q, i + 1, c) /\ (c = "chase" => Ends(q, i + 1))
      BY <1>1, <2>1
    <2>3. ASSUME NEW p, NEW K, PaidAfter(q, i + 1, p, K) PROVE PaidAfter(t, i, p, K)
      <3>1. PICK j \in 1..Len(q) : i + 1 < j /\ q[j].do \in K /\ q[j].key[1] = p
        BY <2>3 DEF PaidAfter
      <3>2. j - 1 \in 1..Len(t) /\ i < j - 1 /\ t[j - 1] = q[j]
        BY <1>2, <3>1
      <3> QED BY <3>1, <3>2 DEF PaidAfter
    <2>4. Follows(t, i, c)
      BY <2>1, <2>2, <2>3 DEF Follows
    <2>5. c = "chase" => Ends(t, i)
      <3>1. i + 1 + 1 = Len(q) => i + 1 = Len(t) /\ t[i + 1] = q[i + 1 + 1]
        BY <1>2
      <3> QED BY <2>1, <2>2, <3>1 DEF Ends
    <2> QED BY <2>4, <2>5
  <1>5. t \in Tidy(B, c)
    BY <1>2, <1>4 DEF Tidy
  <1>6. \A p, K : PaidAfter(q, 1, p, K) => Paid(t, p, K)
    BY <1>1, PaidTail DEF t
  <1>7. /\ Head(q).do \in Touching(c) => Paid(t, Head(q).key[1], Rewrites \cup Excuses(c))
        /\ Head(q).do \in Offering(c) => Paid(t, Head(q).key[1], {"BOTH"} \cup Excuses(c))
    BY <1>2, <1>3, <1>6 DEF Follows
  <1>8. c = "chase" /\ Head(q).do \in Replies \cup Questions => t = <<>>
    <2>1. Len(t) = 0 => t = <<>>
      BY <1>2
    <2> QED BY <1>2, <1>3, <2>1 DEF Ends
  <1>9. c = "chase" /\ Head(q).do = "logged" =>
              Len(q) = 2 /\ q[2].do = "expect" /\ q[2].key = Head(q).key
    BY <1>2, <1>3 DEF Ends
  <1> QED BY <1>2, <1>5, <1>7, <1>8, <1>9 DEF t

\* A script one statement longer.
\* MrChase expects the importer's file once it has logged the build.
LEMMA TidyLogged ==
  ASSUME NEW B, NEW q \in Tidy(B, "chase"), q # <<>>, Head(q).do = "logged"
  PROVE  Head(q) = q[1] /\ Len(q) = 2 /\ q[2].do = "expect" /\ q[2].key = Head(q).key
  <1>1. q \in Seq(B) /\ 1 \in 1..Len(q) /\ Head(q) = q[1]
    BY DEF Tidy
  <1>2. Ends(q, 1)
    BY <1>1 DEF Tidy
  <1> QED BY <1>1, <1>2 DEF Ends

LEMMA TidyCons ==
  ASSUME NEW B, NEW c, NEW s \in B, NEW q \in Tidy(B, c),
         s.do \in Touching(c) => Paid(q, s.key[1], Rewrites \cup Excuses(c)),
         s.do \in Offering(c) => Paid(q, s.key[1], {"BOTH"} \cup Excuses(c)),
         c = "chase" => s.do # "logged" /\ (s.do \in Replies \cup Questions => q = <<>>)
  PROVE  <<s>> \o q \in Tidy(B, c)
  <1> DEFINE r == <<s>> \o q
  <1>1. q \in Seq(B) /\ <<s>> \in Seq(B) /\ Len(<<s>>) = 1 /\ <<s>>[1] = s
        /\ \A i \in 1..Len(q) : Follows(q, i, c) /\ (c = "chase" => Ends(q, i))
    BY OneInSeq DEF Tidy
  <1>2. /\ r \in Seq(B) /\ Len(r) = Len(q) + 1 /\ Len(q) \in Nat /\ r[1] = s
        /\ \A j \in 1..Len(q) : r[j + 1] = q[j]
    <2>1. /\ r \in Seq(B) /\ Len(r) = Len(<<s>>) + Len(q) /\ Len(q) \in Nat
          /\ \A j \in 1..Len(<<s>>) + Len(q) :
               r[j] = IF j <= Len(<<s>>) THEN <<s>>[j] ELSE q[j - Len(<<s>>)]
      BY <1>1, ConcatProperties, ConcatInSeq
    <2> HIDE DEF r
    <2> QED BY <1>1, <2>1
  <1> HIDE DEF r
  <1>3. ASSUME NEW p, NEW K, Paid(q, p, K) PROVE PaidAfter(r, 1, p, K)
    <2>1. PICK j \in 1..Len(q) : q[j].do \in K /\ q[j].key[1] = p
      BY <1>3 DEF Paid
    <2>2. j + 1 \in 1..Len(r) /\ 1 < j + 1 /\ r[j + 1] = q[j]
      BY <1>2
    <2> QED BY <2>1, <2>2 DEF PaidAfter
  <1>4. Follows(r, 1, c)
    BY <1>2, <1>3 DEF Follows
  <1>5. c = "chase" => Ends(r, 1)
    <2>1. q = <<>> => Len(q) = 0
      OBVIOUS
    <2>2. c = "chase" => s.do # "logged" /\ (s.do \in Replies \cup Questions => Len(r) = 1)
      BY <1>2, <2>1
    <2> QED BY <1>2, <2>2 DEF Ends
  <1>6. ASSUME NEW i \in 1..Len(r), i # 1
        PROVE  Follows(r, i, c) /\ (c = "chase" => Ends(r, i))
    <2>1. i - 1 \in 1..Len(q) /\ r[i] = q[i - 1] /\ (i - 1 = Len(q) => i = Len(r))
      <3>1. i - 1 \in 1..Len(q)
        BY <1>2, <1>6
      <3>2. r[i - 1 + 1] = q[i - 1]
        BY <1>2, <3>1
      <3> QED BY <1>2, <3>1, <3>2
    <2>2. Follows(q, i - 1, c) /\ (c = "chase" => Ends(q, i - 1))
      BY <1>1, <2>1
    <2>3. ASSUME NEW p, NEW K, PaidAfter(q, i - 1, p, K) PROVE PaidAfter(r, i, p, K)
      <3>1. PICK j \in 1..Len(q) : i - 1 < j /\ q[j].do \in K /\ q[j].key[1] = p
        BY <2>3 DEF PaidAfter
      <3>2. j + 1 \in 1..Len(r) /\ i < j + 1 /\ r[j + 1] = q[j]
        BY <1>2, <3>1
      <3> QED BY <3>1, <3>2 DEF PaidAfter
    <2>4. Follows(r, i, c)
      BY <2>1, <2>2, <2>3 DEF Follows
    <2>5. c = "chase" => Ends(r, i)
      <3>1. i - 1 + 1 = Len(q) => i + 1 = Len(r) /\ r[i + 1] = q[i - 1 + 1]
        <4>1. ASSUME i - 1 + 1 = Len(q) PROVE i \in 1..Len(q) /\ i - 1 + 1 = i
          BY <1>2, <2>1, <4>1
        <4> QED BY <1>2, <4>1
      <3> QED BY <2>1, <2>2, <3>1 DEF Ends
    <2> QED BY <2>4, <2>5
  <1>7. r \in Tidy(B, c)
    BY <1>2, <1>4, <1>5, <1>6 DEF Tidy
  <1> QED BY <1>7 DEF r

\* One script after another: MrChase has no answer in the first.
LEMMA TidyConcat ==
  ASSUME NEW B, NEW c, NEW a \in Tidy(B, c), NEW b \in Tidy(B, c),
         c = "chase" => \A i \in 1..Len(a) : a[i].do \notin Replies \cup Questions \cup {"logged"}
  PROVE  a \o b \in Tidy(B, c)
  <1> DEFINE r == a \o b
  <1>1. /\ a \in Seq(B) /\ b \in Seq(B)
        /\ \A i \in 1..Len(a) : Follows(a, i, c)
        /\ \A i \in 1..Len(b) : Follows(b, i, c) /\ (c = "chase" => Ends(b, i))
    BY DEF Tidy
  <1>2. /\ r \in Seq(B) /\ Len(r) = Len(a) + Len(b) /\ Len(a) \in Nat /\ Len(b) \in Nat
        /\ \A j \in 1..Len(a) : r[j] = a[j]
        /\ \A j \in 1..Len(b) : r[j + Len(a)] = b[j]
    <2>1. /\ r \in Seq(B) /\ Len(r) = Len(a) + Len(b) /\ Len(a) \in Nat /\ Len(b) \in Nat
          /\ \A j \in 1..Len(a) + Len(b) : r[j] = IF j <= Len(a) THEN a[j] ELSE b[j - Len(a)]
      BY <1>1, ConcatProperties, ConcatInSeq
    <2> HIDE DEF r
    <2> QED BY <2>1
  <1> HIDE DEF r
  <1>3. ASSUME NEW i \in 1..Len(a)
        PROVE  i \in 1..Len(r) /\ r[i] = a[i] /\ Follows(r, i, c) /\ (c = "chase" => Ends(r, i))
    <2>1. i \in 1..Len(r) /\ r[i] = a[i] /\ Follows(a, i, c)
      BY <1>1, <1>2
    <2>2. ASSUME NEW p, NEW K, PaidAfter(a, i, p, K) PROVE PaidAfter(r, i, p, K)
      <3>1. PICK j \in 1..Len(a) : i < j /\ a[j].do \in K /\ a[j].key[1] = p
        BY <2>2 DEF PaidAfter
      <3>2. j \in 1..Len(r) /\ r[j] = a[j]
        BY <1>2
      <3> QED BY <3>1, <3>2 DEF PaidAfter
    <2>3. Follows(r, i, c)
      BY <2>1, <2>2 DEF Follows
    <2>4. c = "chase" => Ends(r, i)
      BY <2>1 DEF Ends
    <2> QED BY <2>1, <2>3, <2>4
  <1>4. ASSUME NEW i \in 1..Len(b)
        PROVE  Follows(r, i + Len(a), c) /\ (c = "chase" => Ends(r, i + Len(a)))
    <2> DEFINE n == i + Len(a)
    <2>1. n \in 1..Len(r) /\ r[n] = b[i] /\ Follows(b, i, c) /\ (c = "chase" => Ends(b, i))
      BY <1>1, <1>2
    <2>a. n = i + Len(a)
      OBVIOUS
    <2> HIDE DEF n
    <2>2. ASSUME NEW p, NEW K, PaidAfter(b, i, p, K) PROVE PaidAfter(r, n, p, K)
      <3>1. PICK j \in 1..Len(b) : i < j /\ b[j].do \in K /\ b[j].key[1] = p
        BY <2>2 DEF PaidAfter
      <3>2. j + Len(a) \in 1..Len(r) /\ r[j + Len(a)] = b[j] /\ n < j + Len(a)
        BY <1>2, <2>a, <3>1
      <3> QED BY <3>1, <3>2 DEF PaidAfter
    <2>3. Follows(r, n, c)
      BY <2>1, <2>2 DEF Follows
    <2>4. c = "chase" => Ends(r, n)
      <3>1. i = Len(b) => n = Len(r)
        BY <1>2, <2>a
      <3>2. i + 1 = Len(b) => n + 1 = Len(r) /\ r[n + 1] = b[i + 1]
        <4>1. ASSUME i + 1 = Len(b) PROVE i + 1 \in 1..Len(b) /\ i + 1 + Len(a) = n + 1
          BY <1>2, <2>a, <4>1
        <4> QED BY <1>2, <4>1, SMTT(30)
      <3> QED BY <2>1, <3>1, <3>2 DEF Ends
    <2> QED BY <2>3, <2>4 DEF n
  <1>5. ASSUME NEW i \in 1..Len(r)
        PROVE  Follows(r, i, c) /\ (c = "chase" => Ends(r, i))
    <2>1. CASE i <= Len(a)
      <3>1. i \in 1..Len(a)
        BY <1>2, <2>1
      <3> QED BY <1>3, <3>1
    <2>2. CASE ~(i <= Len(a))
      <3>1. i - Len(a) \in 1..Len(b) /\ i - Len(a) + Len(a) = i
        BY <1>2, <2>2
      <3> QED BY <1>4, <3>1
    <2> QED BY <2>1, <2>2
  <1>6. r \in Tidy(B, c)
    BY <1>2, <1>5 DEF Tidy
  <1> QED BY <1>6 DEF r

-----------------------------------------------------------------------------
(* The scripts are like that.                                               *)

LEMMA PlainIsOrdered ==
  ASSUME NEW c, NEW do \in Calls \ Questions, NEW k \in Keys, NEW arg \in Args
  PROVE  /\ Test(do, k, arg, <<>>, <<>>) \in Order0(c)
         /\ Test(do, k, arg, <<>>, <<>>) \in Order1(c)
         /\ Test(do, k, arg, <<>>, <<>>) \in Order2(c)
  <1>1. <<>> \in Tidy({}, c)
    BY TidyEmpty
  <1>2. Test(do, k, arg, <<>>, <<>>) \in
          [do : Calls, key : Keys, arg : Args, yes : Tidy({}, c), no : Tidy({}, c)]
    BY <1>1 DEF Test
  <1>3. Branches(Test(do, k, arg, <<>>, <<>>), c)
    BY DEF Test, Branches, Questions
  <1> QED BY <1>2, <1>3, Orders DEF Order0, Ordered

LEMMA OneTidy ==
  ASSUME NEW B, NEW c, NEW s \in B, s.do \notin Touching(c) \cup Offering(c)
  PROVE  <<s>> \in Tidy(B, c) /\ Paid(<<s>>, s.key[1], {s.do})
  <1>1. <<>> \in Tidy(B, c) /\ s.do # "logged"
    BY TidyEmpty DEF Offering
  <1>2. <<s>> \o <<>> \in Tidy(B, c)
    BY <1>1, TidyCons
  <1>3. <<s>> \o <<>> = <<s>>
    BY OneInSeq, ConcatEmptySeq
  <1>4. Len(<<s>>) = 1 /\ <<s>>[1] = s
    OBVIOUS
  <1> QED BY <1>2, <1>3, <1>4 DEF Paid

LEMMA PaidMore ==
  ASSUME NEW q, NEW p, NEW J, NEW K, J \subseteq K, Paid(q, p, J) PROVE Paid(q, p, K)
  BY DEF Paid

\* The statements that stand alone.
LEMMA RewriteTidy ==
  ASSUME NEW c, NEW cmd \in Rewrites, NEW k \in Keys
  PROVE  /\ Rewrite(cmd, k) \in Tidy(Order0(c), c)
         /\ Paid(Rewrite(cmd, k), k[1], {cmd})
         /\ Len(Rewrite(cmd, k)) = 1 /\ Rewrite(cmd, k)[1].do = cmd
  <1> DEFINE s == Do(cmd, Package(k[1]))
  <1>1. s \in Order0(c)
    <2>1. cmd \in Calls \ Questions /\ "" \in Args /\ Package(k[1]) \in Keys
      BY KeyFacts DEF Calls, Commands, Rewrites, Questions, Args, SkipReasons
    <2> QED BY <2>1, PlainIsOrdered DEF Do
  <1>2. s.do = cmd /\ s.key[1] = k[1]
    BY DoFields DEF Package
  <1> HIDE DEF s
  <1>3. s.do \notin Touching(c) \cup Offering(c)
    BY <1>2 DEF Touching, Offering, Rewrites
  <1>4. <<s>> \in Tidy(Order0(c), c) /\ Paid(<<s>>, s.key[1], {s.do})
    BY <1>1, <1>3, OneTidy
  <1>5. Len(<<s>>) = 1 /\ <<s>>[1] = s
    OBVIOUS
  <1> QED BY <1>2, <1>4, <1>5 DEF Rewrite, s

LEMMA NameTidy ==
  ASSUME NEW c, NEW p \in Pkgs
  PROVE  /\ <<AddPackageName(p)>> \in Tidy(Order0(c), c)
         /\ AddPackageName(p).do = "name"
  <1> DEFINE s == AddPackageName(p)
  <1>1. s \in Order0(c)
    <2>1. "name" \in Calls \ Questions /\ "" \in Args /\ Package(p) \in Keys
      BY KeyFacts DEF Calls, Questions, Args, SkipReasons
    <2> QED BY <2>1, PlainIsOrdered DEF Do, AddPackageName
  <1>2. s.do = "name"
    BY DoFields DEF AddPackageName
  <1> HIDE DEF s
  <1>3. s.do \notin Touching(c) \cup Offering(c)
    BY <1>2 DEF Touching, Offering
  <1> QED BY <1>1, <1>2, <1>3, OneTidy DEF s

LEMMA QuestionIsOrdered ==
  ASSUME NEW c, NEW B, NEW do \in Questions, NEW k \in Keys, NEW arg \in Args,
         NEW yes \in Tidy(B, c), NEW no \in Tidy(B, c),
         do = "addpkg" => Paid(yes, k[1], {"BOTH"}),
         do = "addver" => Paid(yes, k[1], Rewrites),
         c = "chase" =>
           /\ \A i \in 1..Len(yes) : yes[i].do = "yank" => do = "addver" /\ yes[i].key = k
           /\ \A i \in 1..Len(no) : no[i].do # "yank"
  PROVE  <<Test(do, k, arg, yes, no)>> \in Tidy(Ordered(B, c), c)
  <1> DEFINE s == Test(do, k, arg, yes, no)
  <1>1. /\ s.do = do /\ s.key = k /\ s.arg = arg /\ s.yes = yes /\ s.no = no
        /\ s = [do |-> do, key |-> k, arg |-> arg, yes |-> yes, no |-> no]
    BY DEF Test
  <1>2. do \in Calls
    BY DEF Questions, Calls
  <1>3. s \in [do : Calls, key : Keys, arg : Args, yes : Tidy(B, c), no : Tidy(B, c)]
    BY <1>1, <1>2
  <1> HIDE DEF s
  <1>4. Branches(s, c)
    BY <1>1 DEF Branches
  <1>5. s \in Ordered(B, c)
    BY <1>3, <1>4 DEF Ordered
  <1>6. s.do \notin Touching(c) \cup Offering(c)
    BY <1>1 DEF Touching, Offering, Questions
  <1>7. <<s>> \in Tidy(Ordered(B, c), c)
    BY <1>5, <1>6, OneTidy
  <1> QED BY <1>7 DEF s

LEMMA SkipsTidy ==
  ASSUME NEW c, NEW k \in Keys, NEW reason \in SkipReasons, NEW q \in Tidy(Order0(c), c),
         Paid(q, k[1], Rewrites \cup Excuses(c))
  PROVE  <<Test("skip", k, reason, <<>>, <<>>)>> \o q \in Tidy(Order0(c), c)
  <1> DEFINE s == Test("skip", k, reason, <<>>, <<>>)
  <1>1. s \in Order0(c)
    <2>1. "skip" \in Calls \ Questions /\ reason \in Args
      BY DEF Calls, Questions, Args
    <2> QED BY <2>1, PlainIsOrdered
  <1>2. s.do = "skip" /\ s.key = k
    BY DoFields
  <1> HIDE DEF s
  <1>3. s.do \notin Offering(c) \cup Replies \cup Questions \cup {"logged"}
    BY <1>2 DEF Offering, Replies, Stops, Questions
  <1>4. <<s>> \o q \in Tidy(Order0(c), c)
    BY <1>1, <1>2, <1>3, TidyCons
  <1> QED BY <1>4 DEF s

LEMMA MarksTidy ==
  ASSUME NEW c, NEW k \in Keys, NEW do \in {"yank", "unyank"}, NEW q \in Tidy(Order0(c), c),
         Paid(q, k[1], {"BOTH"} \cup Excuses(c)) \/
           (do = "yank" /\ c = "chase" /\ Paid(q, k[1], Rewrites))
  PROVE  <<Do(do, k)>> \o q \in Tidy(Order0(c), c)
  <1> DEFINE s == Do(do, k)
  <1>1. s \in Order0(c)
    <2>1. do \in Calls \ Questions /\ "" \in Args
      BY DEF Calls, Questions, Args, SkipReasons
    <2> QED BY <2>1, PlainIsOrdered DEF Do
  <1>2. s.do = do /\ s.key = k
    BY DoFields
  <1> HIDE DEF s
  <1>3. s.do \notin Replies \cup Questions \cup {"logged"}
    BY <1>2 DEF Replies, Stops, Questions
  <1>4. s.do \in Touching(c) => Paid(q, k[1], Rewrites \cup Excuses(c))
    <2>1. {"BOTH"} \cup Excuses(c) \subseteq Rewrites \cup Excuses(c)
      BY DEF Rewrites
    <2>2. Rewrites \subseteq Rewrites \cup Excuses(c)
      OBVIOUS
    <2> QED BY <2>1, <2>2, PaidMore
  <1>5. s.do \in Offering(c) => Paid(q, k[1], {"BOTH"} \cup Excuses(c))
    BY <1>2 DEF Offering
  <1>6. <<s>> \o q \in Tidy(Order0(c), c)
    BY <1>1, <1>2, <1>3, <1>4, <1>5, TidyCons
  <1> QED BY <1>6 DEF s

LEMMA VersionScriptTidy ==
  ASSUME NEW e \in PyPIEvents, e.key[2] # NoVer, e.action # "remove"
  PROVE  VersionScript(e) \in Tidy(Order2("gazer"), "gazer")
  <1> DEFINE k == e.key
             O == Order0("gazer")
             both == Rewrite("BOTH", k)
             news == Rewrite("PROJECT", k)
  <1>1. k \in Keys /\ "" \in Args /\ "binary only" \in Args
    BY EventKeys DEF Args, SkipReasons
  <1>2. /\ both \in Tidy(O, "gazer") /\ Paid(both, k[1], {"BOTH"})
        /\ news \in Tidy(O, "gazer") /\ Paid(news, k[1], {"PROJECT"})
    BY <1>1, RewriteTidy DEF Rewrites
  <1> HIDE DEF both, news
  <1>3. /\ Paid(both, k[1], {"BOTH"} \cup Excuses("gazer")) /\ Paid(both, k[1], Rewrites)
        /\ Paid(news, k[1], Rewrites \cup Excuses("gazer"))
    <2>1. /\ {"BOTH"} \subseteq {"BOTH"} \cup Excuses("gazer") /\ {"BOTH"} \subseteq Rewrites
          /\ {"PROJECT"} \subseteq Rewrites \cup Excuses("gazer")
      BY DEF Rewrites
    <2> QED BY <1>2, <2>1, PaidMore
  <1>4. CASE e.action \in {"yank", "unyank"}
    <2>1. \A do \in {"yank", "unyank"} : <<Do(do, k)>> \o both \in Tidy(O, "gazer")
      BY <1>1, <1>2, <1>3, MarksTidy
    <2>2. <<Mark(e)>> \o both \in Tidy(O, "gazer")
      BY <2>1 DEF Mark, YankVersion, UnyankVersion
    <2>3. <<Mark(e)>> \o both \in Tidy(Order2("gazer"), "gazer")
      BY <2>2, Orders
    <2> QED BY <1>4, <2>3 DEF VersionScript, both
  <1>5. both \in Tidy(Order1("gazer"), "gazer")
    BY <1>2, Orders
  <1>6. CASE e.action = "source"
    <2> DEFINE on == <<SkipPackageVersion(k, "")>> \o news
               asks == <<IfBinaryOnly(k, on, both)>>
    <2>1. on \in Tidy(O, "gazer")
      <3>1. "" \in SkipReasons
        BY DEF SkipReasons
      <3> QED BY <1>1, <1>2, <1>3, <3>1, SkipsTidy DEF SkipPackageVersion
    <2> HIDE DEF on
    <2>2. asks \in Tidy(Order1("gazer"), "gazer")
      <3>1. "binary" \in Questions
        BY DEF Questions
      <3> QED BY <1>1, <1>2, <2>1, <3>1, QuestionIsOrdered DEF IfBinaryOnly, Order1
    <2> HIDE DEF asks
    <2>3. <<AddNewPackageVersion(k, "", both, asks)>> \in Tidy(Order2("gazer"), "gazer")
      <3>1. "addver" \in Questions
        BY DEF Questions
      <3> QED BY <1>1, <1>3, <1>5, <2>2, <3>1, QuestionIsOrdered DEF AddNewPackageVersion, Order2
    <2> QED BY <1>6, <2>3 DEF VersionScript, both, news, asks, on
  <1>7. CASE e.action \notin {"yank", "unyank", "source"}
    <2>1. <<AddNewPackageVersion(k, "binary only", both, both)>> \in Tidy(Order2("gazer"), "gazer")
      <3>1. "addver" \in Questions
        BY DEF Questions
      <3> QED BY <1>1, <1>3, <1>5, <3>1, QuestionIsOrdered DEF AddNewPackageVersion, Order2
    <2> QED BY <1>7, <2>1 DEF VersionScript, both
  <1> QED BY <1>4, <1>6, <1>7

LEMMA EventScriptTidy ==
  ASSUME NEW e \in PyPIEvents, NEW known, e.action # "remove"
  PROVE  EventScript(e, known) \in Tidy(Order2("gazer"), "gazer")
  <1> DEFINE k == e.key
             p == Package(k[1])
             name == <<AddPackageName(k[1])>>
             yes == name \o Rewrite("BOTH", p)
             new == <<AddNewPackage(p, "", yes, <<>>)>>
             first == IF k[1] \in known THEN <<>> ELSE new
             last == IF k[2] = NoVer THEN <<>> ELSE VersionScript(e)
  <1>1. k \in Keys /\ p \in Keys /\ p[1] = k[1] /\ k[1] \in Pkgs /\ "" \in Args /\ "gazer" # "chase"
    BY EventKeys, KeyFacts DEF Package, Args, SkipReasons
  <1>2. name \in Tidy(Order0("gazer"), "gazer") /\ name \in Tidy(Order2("gazer"), "gazer")
    BY <1>1, NameTidy, Orders
  <1>3. new \in Tidy(Order2("gazer"), "gazer")
    <2>1. /\ Rewrite("BOTH", p) \in Tidy(Order0("gazer"), "gazer")
          /\ Paid(Rewrite("BOTH", p), p[1], {"BOTH"})
      BY <1>1, RewriteTidy DEF Rewrites
    <2>2. yes \in Tidy(Order0("gazer"), "gazer")
      BY <1>1, <1>2, <2>1, TidyConcat
    <2>3. Paid(yes, p[1], {"BOTH"})
      BY <1>2, <2>1, PaidConcat DEF Tidy
    <2> HIDE DEF yes
    <2>4. new \in Tidy(Order1("gazer"), "gazer")
      <3>1. "addpkg" \in Questions /\ <<>> \in Tidy(Order0("gazer"), "gazer")
        BY TidyEmpty DEF Questions
      <3> QED BY <1>1, <2>2, <2>3, <3>1, QuestionIsOrdered DEF AddNewPackage, Order1
    <2> QED BY <2>4, Orders
  <1>4. first \in Tidy(Order2("gazer"), "gazer")
    BY <1>3, TidyEmpty
  <1>5. last \in Tidy(Order2("gazer"), "gazer")
    BY VersionScriptTidy, TidyEmpty
  <1> HIDE DEF first, name, last
  <1>6. first \o name \in Tidy(Order2("gazer"), "gazer")
    BY <1>1, <1>2, <1>4, TidyConcat
  <1>7. first \o name \o last \in Tidy(Order2("gazer"), "gazer")
    BY <1>1, <1>5, <1>6, TidyConcat
  <1> QED BY <1>7 DEF EventScript, first, name, last, new, yes

-----------------------------------------------------------------------------
(* MrChase's, without piw-remove.                                           *)

\* Only k is marked as yanked, or nothing at all.
Marks(q, k) == \A i \in 1..Len(q) : q[i].do = "yank" => q[i].key = k
MarksNone(q) == \A i \in 1..Len(q) : q[i].do # "yank"

LEMMA ConcatElements ==
  ASSUME NEW S, NEW a \in Seq(S), NEW b \in Seq(S), NEW i \in 1..Len(a \o b)
  PROVE  \/ \E j \in 1..Len(a) : (a \o b)[i] = a[j]
         \/ \E j \in 1..Len(b) : (a \o b)[i] = b[j]
  <1> DEFINE r == a \o b
  <1>1. /\ Len(r) = Len(a) + Len(b) /\ Len(a) \in Nat /\ Len(b) \in Nat
        /\ \A j \in 1..Len(a) + Len(b) : r[j] = IF j <= Len(a) THEN a[j] ELSE b[j - Len(a)]
    BY ConcatProperties
  <1>2. i \in 1..Len(r)
    OBVIOUS
  <1> HIDE DEF r
  <1>3. CASE i <= Len(a)
    <2>1. i \in 1..Len(a) /\ r[i] = a[i]
      BY <1>1, <1>2, <1>3
    <2> QED BY <2>1 DEF r
  <1>4. CASE ~(i <= Len(a))
    <2>1. i - Len(a) \in 1..Len(b) /\ r[i] = b[i - Len(a)]
      BY <1>1, <1>2, <1>4
    <2> QED BY <2>1 DEF r
  <1> QED BY <1>3, <1>4

LEMMA MarksConcat ==
  ASSUME NEW S, NEW a \in Seq(S), NEW b \in Seq(S), NEW k
  PROVE  /\ MarksNone(a) /\ MarksNone(b) => MarksNone(a \o b)
         /\ Marks(a, k) /\ MarksNone(b) => Marks(a \o b, k)
  <1> DEFINE r == a \o b
  <1>1. ASSUME NEW i \in 1..Len(r)
        PROVE  \/ \E j \in 1..Len(a) : r[i] = a[j]
               \/ \E j \in 1..Len(b) : r[i] = b[j]
    BY ConcatElements
  <1> HIDE DEF r
  <1>2. /\ MarksNone(a) /\ MarksNone(b) => MarksNone(r)
        /\ Marks(a, k) /\ MarksNone(b) => Marks(r, k)
    BY <1>1 DEF MarksNone, Marks
  <1> QED BY <1>2 DEF r

LEMMA ReplyTidy ==
  ASSUME NEW m \in Replies, NEW code \in Args, NEW k \in Keys
  PROVE  /\ <<Test(m, k, code, <<>>, <<>>)>> \in Tidy(Order0("chase"), "chase")
         /\ Paid(<<Test(m, k, code, <<>>, <<>>)>>, k[1], {m})
         /\ MarksNone(<<Test(m, k, code, <<>>, <<>>)>>)
  <1> DEFINE s == Test(m, k, code, <<>>, <<>>)
  <1>1. s \in Order0("chase")
    <2>1. m \in Calls \ Questions
      BY DEF Replies, Stops, Calls, OwnOps, Questions
    <2> QED BY <2>1, PlainIsOrdered
  <1>2. s.do = m /\ s.key = k
    BY DoFields
  <1> HIDE DEF s
  <1>3. s.do \notin Touching("chase") \cup Offering("chase") /\ s.do # "yank"
    BY <1>2 DEF Touching, Offering, Replies, Stops
  <1>4. <<s>> \in Tidy(Order0("chase"), "chase") /\ Paid(<<s>>, k[1], {m})
    BY <1>1, <1>2, <1>3, OneTidy
  <1>5. MarksNone(<<s>>)
    BY <1>3 DEF MarksNone
  <1> QED BY <1>4, <1>5 DEF s

\* A request that ends well: the name, the page and the reply.
LEMMA AnswerTidy ==
  ASSUME NEW k \in Keys, NEW cmd \in Rewrites, NEW code \in Args,
         NEW q, q = <<AddPackageName(k[1])>> \o Rewrite(cmd, k) \o Done(code, k)
  PROVE  /\ q \in Tidy(Order0("chase"), "chase")
         /\ Paid(q, k[1], {cmd})
         /\ MarksNone(q)
  <1> DEFINE n == <<AddPackageName(k[1])>>
             w == Rewrite(cmd, k)
             d == Done(code, k)
             O == Order0("chase")
  <1>1. k[1] \in Pkgs
    BY KeyFacts
  <1>2. n \in Tidy(O, "chase") /\ Len(n) = 1 /\ n[1].do = "name"
    BY <1>1, NameTidy
  <1>3. w \in Tidy(O, "chase") /\ Paid(w, k[1], {cmd}) /\ Len(w) = 1 /\ w[1].do = cmd
    BY RewriteTidy
  <1>4. d \in Tidy(O, "chase") /\ MarksNone(d)
    BY ReplyTidy DEF Done, Replies
  <1> HIDE DEF n, w, d, O
  <1>5. n \in Seq(O) /\ w \in Seq(O) /\ d \in Seq(O)
    BY <1>2, <1>3, <1>4 DEF Tidy
  <1>6. w \o d \in Tidy(O, "chase") /\ w \o d \in Seq(O)
    <2>1. \A i \in 1..Len(w) : w[i].do \notin Replies \cup Questions \cup {"logged"}
      BY <1>3 DEF Rewrites, Replies, Stops, Questions
    <2>2. w \o d \in Tidy(O, "chase")
      BY <1>3, <1>4, <2>1, TidyConcat
    <2> QED BY <2>2 DEF Tidy
  <1>7. n \o (w \o d) \in Tidy(O, "chase")
    <2>1. \A i \in 1..Len(n) : n[i].do \notin Replies \cup Questions \cup {"logged"}
      BY <1>2 DEF Replies, Stops, Questions
    <2> QED BY <1>2, <1>6, <2>1, TidyConcat
  <1>8. q = n \o (w \o d) /\ q \in Seq(O)
    <2>1. (n \o w) \o d = n \o (w \o d)
      BY <1>5, ConcatAssociative
    <2>2. q = n \o w \o d
      BY DEF n, w, d
    <2> QED BY <1>7, <2>1, <2>2 DEF Tidy
  <1>9. Paid(q, k[1], {cmd})
    <2>1. Paid(w \o d, k[1], {cmd})
      BY <1>3, <1>5, PaidConcat
    <2> QED BY <1>5, <1>6, <1>8, <2>1, PaidConcat
  <1>10. MarksNone(q)
    <2>1. MarksNone(n)
      BY <1>2 DEF MarksNone
    <2>2. MarksNone(w)
      BY <1>3 DEF Rewrites, MarksNone
    <2>3. MarksNone(w \o d)
      BY <1>4, <1>5, <2>2, MarksConcat
    <2>4. MarksNone(n \o (w \o d))
      BY <1>5, <1>6, <2>1, <2>3, MarksConcat
    <2> QED BY <1>8, <2>4
  <1> QED BY <1>7, <1>8, <1>9, <1>10 DEF n, w, d, O

LEMMA AnswerLast ==
  ASSUME NEW k \in Keys, NEW cmd \in Rewrites, NEW code \in Args,
         NEW a \in Seq(Order0("chase"))
  PROVE  a \o <<AddPackageName(k[1])>> \o Rewrite(cmd, k) \o Done(code, k)
           = a \o (<<AddPackageName(k[1])>> \o Rewrite(cmd, k) \o Done(code, k))
  <1> DEFINE n == <<AddPackageName(k[1])>>
             w == Rewrite(cmd, k)
             d == Done(code, k)
             O == Order0("chase")
  <1>1. n \in Seq(O) /\ w \in Seq(O) /\ d \in Seq(O)
    <2>1. k[1] \in Pkgs
      BY KeyFacts
    <2> QED BY <2>1, NameTidy, RewriteTidy, ReplyTidy DEF Done, Replies, Tidy
  <1> HIDE DEF n, w, d, O
  <1>2. a \in Seq(O)
    BY DEF O
  <1>b. \A x \in Seq(O), y \in Seq(O), z \in Seq(O) : (x \o y) \o z = x \o (y \o z)
    BY ConcatAssociative, SMTT(40)
  <1>3. (a \o n) \o w = a \o (n \o w)
    BY <1>1, <1>2, <1>b
  <1> DEFINE u == n \o w
  <1>4. u \in Seq(O) /\ (a \o n) \o w = a \o u
    BY <1>1, <1>3, ConcatInSeq
  <1>a. ((a \o n) \o w) \o d = (a \o u) \o d
    BY <1>4
  <1> HIDE DEF u
  <1>5. (a \o u) \o d = a \o (u \o d)
    BY <1>1, <1>2, <1>4, <1>b
  <1>6. a \o n \o w \o d = a \o (n \o w \o d)
    BY <1>a, <1>5 DEF u
  <1> QED BY <1>6 DEF n, w, d

\* What may be left out, at the beginning of a script.
LEMMA WhenTidy ==
  ASSUME NEW q \in Tidy(Order0("chase"), "chase"), NEW s, NEW given,
         given => <<s>> \o q \in Tidy(Order0("chase"), "chase")
  PROVE  When(given, <<s>>) \o q \in Tidy(Order0("chase"), "chase")
  <1>1. CASE given
    BY <1>1 DEF When
  <1>2. CASE ~given
    <2>1. <<>> \o q = q
      BY EmptyConcat DEF Tidy
    <2> QED BY <1>2, <2>1 DEF When
  <1> QED BY <1>1, <1>2

LEMMA WhenElements ==
  ASSUME NEW s, NEW given, NEW i \in 1..Len(When(given, <<s>>))
  PROVE  When(given, <<s>>)[i] = s
  <1>1. Len(<<>>) = 0 /\ Len(<<s>>) = 1 /\ <<s>>[1] = s
    OBVIOUS
  <1>2. CASE given
    BY <1>1, <1>2 DEF When
  <1>3. CASE ~given
    BY <1>1, <1>3 DEF When
  <1> QED BY <1>2, <1>3

LEMMA DoAddPackageTidy ==
  ASSUME NEW r \in ChaseRequests
  PROVE  DoAddPackage(r) \in Tidy(Order2("chase"), "chase") /\ MarksNone(DoAddPackage(r))
  <1> DEFINE k == r.key
             O == Order0("chase")
             names == <<AddPackageName(k[1])>>
             unskip == When("unskip" \in r.options, <<SkipPackage(k, "")>>)
             yes == names \o Rewrite("BOTH", k) \o Done("NEWPKG", k)
             upd == names \o Rewrite("PROJECT", k) \o Done("UPDPKG", k)
             no == IF "skip" \in r.options THEN Error("SKIPPKG", k)
                   ELSE unskip \o names \o Rewrite("PROJECT", k) \o Done("UPDPKG", k)
             s == AddNewPackage(k, SkipReason(r), yes, no)
  <1>1. k \in Keys /\ SkipReason(r) \in Args /\ SkipReason(r) \in SkipReasons
    BY RequestFacts, SkipReasonType DEF Args
  <1>2. /\ "NEWPKG" \in Args /\ "UPDPKG" \in Args /\ "SKIPPKG" \in Args
        /\ "BOTH" \in Rewrites /\ "PROJECT" \in Rewrites /\ "" \in SkipReasons /\ "" \in Args
    BY DEF Args, Rewrites, SkipReasons
  <1>3. yes \in Tidy(O, "chase") /\ Paid(yes, k[1], {"BOTH"}) /\ MarksNone(yes)
    BY <1>1, <1>2, AnswerTidy
  <1>4. upd \in Tidy(O, "chase") /\ Paid(upd, k[1], {"PROJECT"}) /\ MarksNone(upd)
    BY <1>1, <1>2, AnswerTidy
  <1>5. unskip \in Seq(O) /\ \A i \in 1..Len(unskip) : unskip[i].do = "skip"
    <2>1. "skip" \in Calls \ Questions
      BY DEF Calls, Questions
    <2>2. SkipPackage(k, "") \in O /\ SkipPackage(k, "").do = "skip"
      <3>1. Test("skip", k, "", <<>>, <<>>).do = "skip"
        BY DEF Test
      <3>2. Test("skip", k, "", <<>>, <<>>) \in O
        BY <1>1, <1>2, <2>1, PlainIsOrdered
      <3> QED BY <3>1, <3>2 DEF SkipPackage
    <2>3. <<SkipPackage(k, "")>> \in Seq(O)
      BY <2>2, OneInSeq
    <2>4. unskip \in Seq(O)
      BY <2>3, WhenInSeq
    <2>5. \A i \in 1..Len(unskip) : unskip[i] = SkipPackage(k, "")
      BY WhenElements
    <2> QED BY <2>2, <2>4, <2>5
  <1> HIDE DEF yes, upd
  <1>6. unskip \o upd \in Tidy(O, "chase") /\ MarksNone(unskip \o upd)
    <2>1. Paid(upd, k[1], Rewrites \cup Excuses("chase"))
      <3>1. {"PROJECT"} \subseteq Rewrites \cup Excuses("chase")
        BY <1>2
      <3> QED BY <1>4, <3>1, PaidMore
    <2>2. <<SkipPackage(k, "")>> \o upd \in Tidy(O, "chase")
      BY <1>1, <1>2, <1>4, <2>1, SkipsTidy DEF SkipPackage
    <2>3. unskip \o upd \in Tidy(O, "chase")
      BY <1>4, <2>2, WhenTidy
    <2>4. upd \in Seq(O)
      BY <1>4 DEF Tidy
    <2> HIDE DEF unskip
    <2>5. MarksNone(unskip)
      BY <1>5 DEF MarksNone
    <2>6. MarksNone(unskip \o upd)
      BY <1>4, <1>5, <2>4, <2>5, MarksConcat
    <2> QED BY <2>3, <2>6
  <1>7. no \in Tidy(O, "chase") /\ MarksNone(no)
    <2>1. Error("SKIPPKG", k) \in Tidy(O, "chase") /\ MarksNone(Error("SKIPPKG", k))
      BY <1>1, <1>2, ReplyTidy DEF Error, Replies, Stops
    <2>2. unskip \o names \o Rewrite("PROJECT", k) \o Done("UPDPKG", k) = unskip \o upd
      BY <1>1, <1>2, <1>5, AnswerLast DEF upd
    <2> HIDE DEF unskip, names
    <2> QED BY <1>6, <2>1, <2>2
  <1> HIDE DEF no
  <1>8. <<s>> \in Tidy(Order1("chase"), "chase")
    <2>1. "addpkg" \in Questions
      BY DEF Questions
    <2>2. /\ \A i \in 1..Len(yes) : yes[i].do # "yank"
          /\ \A i \in 1..Len(no) : no[i].do # "yank"
      BY <1>3, <1>7 DEF MarksNone
    <2> QED BY <1>1, <1>3, <1>7, <2>1, <2>2, QuestionIsOrdered DEF AddNewPackage, Order1
  <1>9. s.do = "addpkg"
    BY DEF AddNewPackage, Test
  <1>10. <<s>> \in Tidy(Order2("chase"), "chase")
    BY <1>8, Orders
  <1> HIDE DEF s
  <1>11. MarksNone(<<s>>)
    BY <1>9 DEF MarksNone
  <1> QED BY <1>10, <1>11 DEF DoAddPackage, s, yes, no, names, unskip

LEMMA DoAddVersionTidy ==
  ASSUME NEW r \in ChaseRequests, r.key[2] # NoVer
  PROVE  DoAddVersion(r) \in Tidy(Order2("chase"), "chase") /\ MarksNone(DoAddVersion(r))
  <1> DEFINE k == r.key
             O == Order0("chase")
             names == <<AddPackageName(k[1])>>
             yank == When("yank" \in r.options, <<YankVersion(k)>>)
             unyank == When("unyank" \in r.options, <<UnyankVersion(k)>>)
             unskip == When("unskip" \in r.options, <<SkipPackageVersion(k, "")>>)
             new == names \o Rewrite("PROJECT", k) \o Done("NEWVER", k)
             yes == yank \o names \o Rewrite("PROJECT", k) \o Done("NEWVER", k)
             upd == names \o Rewrite("BOTH", k) \o Done("UPDVER", k)
             rest == IF "yank" \in r.options THEN Error("YANKVER", k)
                     ELSE unyank \o names \o Rewrite("BOTH", k) \o Done("UPDVER", k)
             no == IF "skip" \in r.options THEN Error("SKIPVER", k) ELSE unskip \o rest
             ver == AddNewPackageVersion(k, SkipReason(r), yes, no)
             s == TestPackage(Package(k[1]), <<ver>>, Error("NOPKG", k))
  <1>1. /\ k \in Keys /\ Package(k[1]) \in Keys
        /\ SkipReason(r) \in Args
    BY RequestFacts, SkipReasonType, KeyFacts DEF Args
  <1>2. /\ "NEWVER" \in Args /\ "UPDVER" \in Args /\ "YANKVER" \in Args /\ "SKIPVER" \in Args
        /\ "NOPKG" \in Args /\ "" \in SkipReasons /\ "" \in Args
        /\ "BOTH" \in Rewrites /\ "PROJECT" \in Rewrites /\ "ERROR" \in Replies
    BY DEF Args, Rewrites, SkipReasons, Replies, Stops
  <1>3. /\ YankVersion(k) \in O /\ YankVersion(k).do = "yank" /\ YankVersion(k).key = k
        /\ UnyankVersion(k) \in O /\ UnyankVersion(k).do = "unyank"
        /\ SkipPackageVersion(k, "") \in O /\ SkipPackageVersion(k, "").do = "skip"
    <2>1. {"skip", "yank", "unyank"} \subseteq Calls \ Questions
      BY DEF Calls, Questions
    <2>2. \A do \in {"skip", "yank", "unyank"} :
            Test(do, k, "", <<>>, <<>>) \in O /\ Test(do, k, "", <<>>, <<>>).do = do
            /\ Test(do, k, "", <<>>, <<>>).key = k
      <3>1. ASSUME NEW do \in {"skip", "yank", "unyank"} PROVE Test(do, k, "", <<>>, <<>>) \in O
        BY <1>1, <1>2, <2>1, PlainIsOrdered
      <3> QED BY <3>1 DEF Test
    <2> QED BY <2>2 DEF YankVersion, UnyankVersion, SkipPackageVersion, Do
  <1>4. /\ yank \in Seq(O) /\ unyank \in Seq(O) /\ unskip \in Seq(O)
        /\ \A i \in 1..Len(yank) : yank[i].key = k
        /\ \A i \in 1..Len(unyank) : unyank[i].do # "yank"
        /\ \A i \in 1..Len(unskip) : unskip[i].do # "yank"
    <2>1. yank \in Seq(O) /\ unyank \in Seq(O) /\ unskip \in Seq(O)
      BY <1>3, OneInSeq, WhenInSeq
    <2>2. /\ \A i \in 1..Len(yank) : yank[i] = YankVersion(k)
          /\ \A i \in 1..Len(unyank) : unyank[i] = UnyankVersion(k)
          /\ \A i \in 1..Len(unskip) : unskip[i] = SkipPackageVersion(k, "")
      BY WhenElements
    <2> HIDE DEF yank, unyank, unskip
    <2> QED BY <1>3, <2>1, <2>2
  <1>5. new \in Tidy(O, "chase") /\ Paid(new, k[1], {"PROJECT"}) /\ MarksNone(new)
    BY <1>1, <1>2, AnswerTidy
  <1>6. upd \in Tidy(O, "chase") /\ Paid(upd, k[1], {"BOTH"}) /\ MarksNone(upd)
    BY <1>1, <1>2, AnswerTidy
  <1>7. yes = yank \o new /\ unyank \o names \o Rewrite("BOTH", k) \o Done("UPDVER", k) = unyank \o upd
    <2> HIDE DEF yank, unyank
    <2>a. \A a \in Seq(O), cmd \in Rewrites, code \in Args :
            a \o names \o Rewrite(cmd, k) \o Done(code, k)
              = a \o (names \o Rewrite(cmd, k) \o Done(code, k))
      BY <1>1, AnswerLast
    <2> HIDE DEF names, O
    <2>1. yank \o names \o Rewrite("PROJECT", k) \o Done("NEWVER", k) = yank \o new
      BY <1>2, <1>4, <2>a
    <2>2. unyank \o names \o Rewrite("BOTH", k) \o Done("UPDVER", k) = unyank \o upd
      BY <1>2, <1>4, <2>a
    <2> QED BY <2>1, <2>2
  <1> HIDE DEF new, upd, yes
  <1>8. yes \in Tidy(O, "chase") /\ Paid(yes, k[1], Rewrites) /\ Marks(yes, k)
    <2>1. Paid(new, k[1], Rewrites)
      <3>1. {"PROJECT"} \subseteq Rewrites
        BY <1>2
      <3> QED BY <1>5, <3>1, PaidMore
    <2>2. <<YankVersion(k)>> \o new \in Tidy(O, "chase")
      BY <1>1, <1>5, <2>1, MarksTidy DEF YankVersion
    <2>3. yank \o new \in Tidy(O, "chase")
      BY <1>5, <2>2, WhenTidy
    <2>4. new \in Seq(O)
      BY <1>5 DEF Tidy
    <2> HIDE DEF yank
    <2>5. Paid(yank \o new, k[1], Rewrites)
      BY <1>4, <2>1, <2>4, PaidConcat
    <2>6. Marks(yank, k)
      BY <1>4 DEF Marks
    <2>7. Marks(yank \o new, k)
      BY <1>4, <1>5, <2>4, <2>6, MarksConcat
    <2> QED BY <1>7, <2>3, <2>5, <2>7
  <1>9. rest \in Tidy(O, "chase") /\ Paid(rest, k[1], Rewrites \cup Excuses("chase")) /\ MarksNone(rest)
    <2>1. /\ Error("YANKVER", k) \in Tidy(O, "chase") /\ MarksNone(Error("YANKVER", k))
          /\ Paid(Error("YANKVER", k), k[1], Rewrites \cup Excuses("chase"))
      <3>1. {"ERROR"} \subseteq Rewrites \cup Excuses("chase")
        BY DEF Excuses, Stops
      <3> QED BY <1>1, <1>2, <3>1, ReplyTidy, PaidMore DEF Error
    <2>2. /\ unyank \o upd \in Tidy(O, "chase") /\ MarksNone(unyank \o upd)
          /\ Paid(unyank \o upd, k[1], Rewrites \cup Excuses("chase"))
      <3>1. /\ Paid(upd, k[1], {"BOTH"} \cup Excuses("chase"))
            /\ Paid(upd, k[1], Rewrites \cup Excuses("chase"))
        <4>1. {"BOTH"} \subseteq {"BOTH"} \cup Excuses("chase") /\ {"BOTH"} \subseteq Rewrites \cup Excuses("chase")
          BY <1>2
        <4> QED BY <1>6, <4>1, PaidMore
      <3>2. <<UnyankVersion(k)>> \o upd \in Tidy(O, "chase")
        BY <1>1, <1>6, <3>1, MarksTidy DEF UnyankVersion
      <3>3. unyank \o upd \in Tidy(O, "chase")
        BY <1>6, <3>2, WhenTidy
      <3>4. upd \in Seq(O)
        BY <1>6 DEF Tidy
      <3> HIDE DEF unyank
      <3>5. Paid(unyank \o upd, k[1], Rewrites \cup Excuses("chase"))
        BY <1>4, <3>1, <3>4, PaidConcat
      <3>6. MarksNone(unyank)
        BY <1>4 DEF MarksNone
      <3>7. MarksNone(unyank \o upd)
        BY <1>4, <1>6, <3>4, <3>6, MarksConcat
      <3> QED BY <3>3, <3>5, <3>7
    <2> HIDE DEF unyank, names
    <2> QED BY <1>7, <2>1, <2>2
  <1> HIDE DEF rest
  <1>10. no \in Tidy(O, "chase") /\ MarksNone(no)
    <2>1. Error("SKIPVER", k) \in Tidy(O, "chase") /\ MarksNone(Error("SKIPVER", k))
      BY <1>1, <1>2, ReplyTidy DEF Error
    <2>2. <<SkipPackageVersion(k, "")>> \o rest \in Tidy(O, "chase")
      BY <1>1, <1>2, <1>9, SkipsTidy DEF SkipPackageVersion
    <2>3. unskip \o rest \in Tidy(O, "chase")
      BY <1>9, <2>2, WhenTidy
    <2>4. rest \in Seq(O)
      BY <1>9 DEF Tidy
    <2> HIDE DEF unskip
    <2>5. MarksNone(unskip)
      BY <1>4 DEF MarksNone
    <2>6. MarksNone(unskip \o rest)
      BY <1>4, <1>9, <2>4, <2>5, MarksConcat
    <2> QED BY <2>1, <2>3, <2>6
  <1> HIDE DEF no
  <1>11. <<ver>> \in Tidy(Order1("chase"), "chase")
    <2>1. "addver" \in Questions
      BY DEF Questions
    <2>2. /\ \A i \in 1..Len(yes) : yes[i].do = "yank" => yes[i].key = k
          /\ \A i \in 1..Len(no) : no[i].do # "yank"
      BY <1>8, <1>10 DEF MarksNone, Marks
    <2> QED BY <1>1, <1>8, <1>10, <2>1, <2>2, QuestionIsOrdered DEF AddNewPackageVersion, Order1
  <1>12. ver.do = "addver"
    BY DEF AddNewPackageVersion, Test
  <1> HIDE DEF ver
  <1>13. <<s>> \in Tidy(Order2("chase"), "chase")
    <2>1. "exists" \in Questions
      BY DEF Questions
    <2>2. Error("NOPKG", k) \in Tidy(Order1("chase"), "chase") /\ MarksNone(Error("NOPKG", k))
      BY <1>1, <1>2, ReplyTidy, Orders DEF Error
    <2>3. \A i \in 1..Len(<<ver>>) : <<ver>>[i].do # "yank"
      BY <1>12
    <2>4. \A i \in 1..Len(Error("NOPKG", k)) : Error("NOPKG", k)[i].do # "yank"
      BY <2>2 DEF MarksNone
    <2> DEFINE err == Error("NOPKG", k)
               one == <<ver>>
    <2>5. one \in Tidy(Order1("chase"), "chase") /\ err \in Tidy(Order1("chase"), "chase")
          /\ (\A i \in 1..Len(one) : one[i].do # "yank") /\ (\A i \in 1..Len(err) : err[i].do # "yank")
      BY <1>11, <2>2, <2>3, <2>4
    <2> HIDE DEF err, one
    <2>6. <<Test("exists", Package(k[1]), "", one, err)>> \in Tidy(Ordered(Order1("chase"), "chase"), "chase")
      BY <1>1, <1>2, <2>1, <2>5, QuestionIsOrdered
    <2> QED BY <2>6 DEF TestPackage, Order2, one, err
  <1>14. s.do = "exists"
    BY DEF TestPackage, Test
  <1> HIDE DEF s
  <1>15. MarksNone(<<s>>)
    BY <1>14 DEF MarksNone
  <1> QED BY <1>13, <1>15 DEF DoAddVersion, s, ver, yes, no, rest, names, unyank, unskip, yank

LEMMA ErrorTidy ==
  ASSUME NEW k \in Keys, NEW code \in Args
  PROVE  /\ Error(code, k) \in Tidy(Order0("chase"), "chase")
         /\ Error(code, k) \in Tidy(Order1("chase"), "chase")
         /\ Error(code, k) \in Tidy(Order2("chase"), "chase")
         /\ Paid(Error(code, k), k[1], {"ERROR"})
         /\ MarksNone(Error(code, k))
  <1>1. "ERROR" \in Replies
    BY DEF Replies, Stops
  <1> QED BY <1>1, ReplyTidy, Orders DEF Error

LEMMA DoRebuildTidy ==
  ASSUME NEW r \in ChaseRequests, r.tool = "piw-rebuild",
         db.pkgs \subseteq Pkgs, IsFiniteSet(db.pkgs)
  PROVE  DoRebuild(r) \in Tidy(Order2("chase"), "chase") /\ MarksNone(DoRebuild(r))
  <1> DEFINE k == r.key
             O == Order0("chase")
             cmd == CHOOSE c \in r.options : c # "all"
             done == Done("REBUILD", k)
             n == Cardinality(db.pkgs)
             every == [i \in 1..n |-> Do(cmd, Package(SetToSeq(db.pkgs)[i]))]
  <1>1. k \in Keys /\ "REBUILD" \in Args /\ "unknown package" \in Args /\ "" \in Args /\ "DONE" \in Replies
    BY RequestFacts DEF Args, Replies, SkipReasons
  <1>2. cmd \in Rewrites
    <2>1. \E c \in r.options : c # "all"
      BY RequestFacts
    <2>2. cmd \in r.options /\ cmd # "all"
      BY <2>1
    <2> QED BY <2>2, RequestFacts DEF Rewrites
  <1>3. done \in Tidy(O, "chase") /\ MarksNone(done) /\ done \in Tidy(Order2("chase"), "chase")
    BY <1>1, ReplyTidy, Orders DEF Done
  <1> HIDE DEF cmd, done
  <1>4. CASE "all" \in r.options
    <2>1. n \in Nat /\ SetToSeq(db.pkgs) \in [1..n -> db.pkgs]
      BY SetToSeqType
    <2>2. ASSUME NEW i \in 1..n
          PROVE  /\ Do(cmd, Package(SetToSeq(db.pkgs)[i])) \in O
                 /\ Do(cmd, Package(SetToSeq(db.pkgs)[i])).do = cmd
      <3>1. SetToSeq(db.pkgs)[i] \in Pkgs
        BY <2>1
      <3>2. cmd \in Calls \ Questions
        BY <1>2 DEF Calls, Commands, Questions, Rewrites
      <3>3. Package(SetToSeq(db.pkgs)[i]) \in Keys
        BY <3>1, KeyFacts
      <3> QED BY <1>1, <3>2, <3>3, PlainIsOrdered DEF Do, Test
    <2>3. every \in [1..n -> O] /\ \A i \in 1..n : every[i].do = cmd
      BY <2>2
    <2>4. every \in Seq(O) /\ Len(every) = n
      <3>1. every \in Seq(O)
        BY <2>1, <2>3, FunctionIsSeq
      <3>2. DOMAIN every = 1..n
        BY <2>3
      <3> HIDE DEF every
      <3>3. Len(every) = n
        BY <2>1, <3>1, <3>2, LenProperties
      <3> QED BY <3>1, <3>3
    <2>a. done \in Seq(O)
      BY <1>3 DEF Tidy
    <2> HIDE DEF every, n
    <2>5. every \in Tidy(O, "chase")
      <3>1. \A i \in 1..Len(every) : Follows(every, i, "chase") /\ Ends(every, i)
        <4>1. cmd \notin Touching("chase") \cup Offering("chase") \cup Replies \cup Questions \cup {"logged"}
          BY <1>2 DEF Rewrites, Touching, Offering, Replies, Stops, Questions
        <4> QED BY <2>3, <2>4, <4>1 DEF Follows, Ends
      <3> QED BY <2>4, <3>1 DEF Tidy
    <2>6. \A i \in 1..Len(every) : every[i].do \notin Replies \cup Questions \cup {"logged"}
      BY <1>2, <2>3, <2>4 DEF Rewrites, Replies, Stops, Questions
    <2>7. every \o done \in Tidy(O, "chase")
      BY <1>3, <2>5, <2>6, TidyConcat
    <2>8. MarksNone(every)
      BY <1>2, <2>3, <2>4 DEF Rewrites, MarksNone
    <2>9. MarksNone(every \o done)
      BY <1>3, <2>4, <2>8, <2>a, MarksConcat
    <2>10. DoRebuild(r) = every \o done
      BY <1>4 DEF DoRebuild, every, n, cmd, done
    <2> QED BY <2>7, <2>9, <2>10, Orders
  <1>5. CASE "all" \notin r.options
    <2> DEFINE yes == Rewrite(cmd, k) \o done
               no == Error("unknown package", k)
               s == TestPackage(k, yes, no)
    <2>1. /\ Rewrite(cmd, k) \in Tidy(O, "chase") /\ Rewrite(cmd, k) \in Seq(O)
          /\ Len(Rewrite(cmd, k)) = 1 /\ Rewrite(cmd, k)[1].do = cmd
      BY <1>1, <1>2, RewriteTidy DEF Tidy
    <2>2. yes \in Tidy(O, "chase") /\ MarksNone(yes)
      <3>1. \A i \in 1..Len(Rewrite(cmd, k)) :
              Rewrite(cmd, k)[i].do \notin Replies \cup Questions \cup {"logged"}
        BY <1>2, <2>1 DEF Rewrites, Replies, Stops, Questions
      <3>2. MarksNone(Rewrite(cmd, k))
        BY <1>2, <2>1 DEF Rewrites, MarksNone
      <3>3. done \in Seq(O)
        BY <1>3 DEF Tidy
      <3> QED BY <1>3, <2>1, <3>1, <3>2, <3>3, TidyConcat, MarksConcat
    <2>3. no \in Tidy(O, "chase") /\ MarksNone(no)
      BY <1>1, ErrorTidy
    <2> HIDE DEF yes, no
    <2>4. <<s>> \in Tidy(Order2("chase"), "chase")
      <3>1. "exists" \in Questions
        BY DEF Questions
      <3>2. /\ \A i \in 1..Len(yes) : yes[i].do # "yank"
            /\ \A i \in 1..Len(no) : no[i].do # "yank"
        BY <2>2, <2>3 DEF MarksNone
      <3>3. <<Test("exists", k, "", yes, no)>> \in Tidy(Ordered(O, "chase"), "chase")
        BY <1>1, <2>2, <2>3, <3>1, <3>2, QuestionIsOrdered
      <3> QED BY <3>3, Orders DEF TestPackage, Order1
    <2>5. s.do = "exists"
      BY DEF TestPackage, Test
    <2> HIDE DEF s
    <2>6. MarksNone(<<s>>)
      BY <2>5 DEF MarksNone
    <2> QED BY <1>5, <2>4, <2>6 DEF DoRebuild, s, yes, no, done, cmd
  <1> QED BY <1>4, <1>5

LEMMA DoImportTidy ==
  ASSUME NEW r \in ChaseRequests, r.tool = "piw-import"
  PROVE  DoImport(r) \in Tidy(Order2("chase"), "chase") /\ MarksNone(DoImport(r))
  <1> DEFINE k == r.key
             O == Order0("chase")
             log == LogBuild(k, TRUE)
             ask == Do("expect", k)
             yes == <<log, ask>>
             no == Error("unknown version", k)
             s == TestPackageVersion(k, yes, no)
  <1>1. /\ k \in Keys /\ "invalid ABI" \in Args /\ "unknown version" \in Args /\ "" \in Args
    BY RequestFacts DEF Args, SkipReasons
  <1>2. log \in O /\ ask \in O
    <2>1. {"logged", "expect"} \subseteq Calls \ Questions
      BY DEF Calls, OwnOps, Questions
    <2> QED BY <1>1, <2>1, PlainIsOrdered DEF LogBuild, Do
  <1>3. log.do = "logged" /\ log.key = k /\ ask.do = "expect" /\ ask.key = k
    BY DEF LogBuild, Do, Test
  <1> HIDE DEF log, ask
  <1>4. yes \in Seq(O) /\ Len(yes) = 2 /\ yes[1] = log /\ yes[2] = ask
    BY <1>2, TwoInSeq
  <1> HIDE DEF yes
  <1>5. yes \in Tidy(O, "chase") /\ MarksNone(yes)
    <2>1. Follows(yes, 1, "chase") /\ Ends(yes, 1)
      <3>1. PaidAfter(yes, 1, k[1], {"BOTH"} \cup Excuses("chase"))
        <4>1. 2 \in 1..Len(yes) /\ 1 < 2 /\ yes[2].do \in {"BOTH"} \cup Excuses("chase") /\ yes[2].key[1] = k[1]
          BY <1>3, <1>4 DEF Excuses, Stops
        <4> QED BY <4>1 DEF PaidAfter
      <3> QED BY <1>3, <1>4, <3>1 DEF Follows, Ends, Touching, Replies, Stops, Questions
    <2>2. Follows(yes, 2, "chase") /\ Ends(yes, 2)
      BY <1>3, <1>4 DEF Follows, Ends, Touching, Offering
    <2>3. \A i \in 1..Len(yes) : i = 1 \/ i = 2
      BY <1>4
    <2>4. yes \in Tidy(O, "chase")
      BY <1>4, <2>1, <2>2, <2>3 DEF Tidy
    <2>5. MarksNone(yes)
      BY <1>3, <1>4, <2>3 DEF MarksNone
    <2> QED BY <2>4, <2>5
  <1>6. no \in Tidy(O, "chase") /\ MarksNone(no)
    BY <1>1, ErrorTidy
  <1> HIDE DEF no
  <1>7. <<s>> \in Tidy(Order2("chase"), "chase")
    <2>1. "exists" \in Questions
      BY DEF Questions
    <2>2. /\ \A i \in 1..Len(yes) : yes[i].do # "yank"
          /\ \A i \in 1..Len(no) : no[i].do # "yank"
      BY <1>5, <1>6 DEF MarksNone
    <2>3. <<Test("exists", k, "", yes, no)>> \in Tidy(Ordered(O, "chase"), "chase")
      BY <1>1, <1>5, <1>6, <2>1, <2>2, QuestionIsOrdered
    <2> QED BY <2>3, Orders DEF TestPackageVersion, Order1
  <1>8. s.do = "exists"
    BY DEF TestPackageVersion, Test
  <1>9. /\ Error("invalid ABI", k) \in Tidy(Order2("chase"), "chase")
        /\ MarksNone(Error("invalid ABI", k))
    BY <1>1, ErrorTidy
  <1> HIDE DEF s
  <1>10. MarksNone(<<s>>)
    BY <1>8 DEF MarksNone
  <1> QED BY <1>7, <1>9, <1>10 DEF DoImport, s, yes, no, log, ask

LEMMA DoSentTidy ==
  ASSUME NEW b \in Builds
  PROVE  /\ DoSent(b) \in Tidy(Order2("chase"), "chase")
         /\ MarksNone(DoSent(b)) /\ Paid(DoSent(b), b[1], {"BOTH"})
  <1> DEFINE O == Order0("chase")
             l == Do("LOG", b)
             w == Rewrite("BOTH", b)
             d == Done("IMPORT", b)
  <1>1. b \in Keys /\ "IMPORT" \in Args /\ "" \in Args /\ "DONE" \in Replies /\ "BOTH" \in Rewrites
    BY KeyFacts DEF Args, SkipReasons, Replies, Rewrites
  <1>2. l \in O /\ l.do = "LOG"
    <2>1. "LOG" \in Calls \ Questions
      BY DEF Calls, Commands, Questions
    <2>2. Test("LOG", b, "", <<>>, <<>>) \in O
      BY <1>1, <2>1, PlainIsOrdered
    <2> QED BY <2>2 DEF Do, Test
  <1> HIDE DEF l
  <1>3. <<l>> \in Tidy(O, "chase") /\ MarksNone(<<l>>) /\ <<l>> \in Seq(O)
    <2>1. l.do \notin Touching("chase") \cup Offering("chase")
      BY <1>2 DEF Touching, Offering
    <2>2. <<l>> \in Tidy(O, "chase") /\ <<l>> \in Seq(O)
      BY <1>2, <2>1, OneTidy, OneInSeq
    <2>3. Len(<<l>>) = 1 /\ <<l>>[1] = l
      OBVIOUS
    <2> QED BY <1>2, <2>2, <2>3 DEF MarksNone
  <1>4. /\ w \in Tidy(O, "chase") /\ Paid(w, b[1], {"BOTH"}) /\ MarksNone(w) /\ w \in Seq(O)
        /\ \A i \in 1..Len(w) : w[i].do = "BOTH"
    <2>1. /\ w \in Tidy(O, "chase") /\ Paid(w, b[1], {"BOTH"})
          /\ Len(w) = 1 /\ w[1].do = "BOTH"
      BY <1>1, RewriteTidy
    <2> HIDE DEF w
    <2> QED BY <2>1 DEF MarksNone, Tidy
  <1>5. d \in Tidy(O, "chase") /\ MarksNone(d) /\ d \in Seq(O)
    BY <1>1, ReplyTidy DEF Done, Tidy
  <1> HIDE DEF w, d
  <1> DEFINE a == <<l>> \o w
  <1>6. a \in Tidy(O, "chase") /\ a \in Seq(O) /\ MarksNone(a) /\ Paid(a, b[1], {"BOTH"})
        /\ \A i \in 1..Len(a) : a[i].do \in {"LOG", "BOTH"}
    <2>1. \A i \in 1..Len(<<l>>) : <<l>>[i].do = "LOG"
      BY <1>2
    <2> DEFINE q == <<l>>
    <2>2. /\ q \in Seq(O) /\ q \in Tidy(O, "chase") /\ MarksNone(q)
          /\ \A i \in 1..Len(q) : q[i].do = "LOG"
      BY <1>3, <2>1
    <2> HIDE DEF q
    <2>3. \A i \in 1..Len(q) : q[i].do \notin Replies \cup Questions \cup {"logged"}
      BY <2>2 DEF Replies, Stops, Questions
    <2>4. q \o w \in Tidy(O, "chase") /\ MarksNone(q \o w) /\ Paid(q \o w, b[1], {"BOTH"})
      BY <1>4, <2>2, <2>3, TidyConcat, MarksConcat, PaidConcat
    <2> DEFINE x == q \o w
    <2>5. ASSUME NEW i \in 1..Len(x)
          PROVE  (\E j \in 1..Len(q) : x[i] = q[j]) \/ (\E j \in 1..Len(w) : x[i] = w[j])
      BY <1>4, <2>2, ConcatElements
    <2>6. x \in Seq(O)
      BY <1>4, <2>2, ConcatInSeq
    <2> HIDE DEF x
    <2>7. \A i \in 1..Len(x) : x[i].do \in {"LOG", "BOTH"}
      BY <1>4, <2>2, <2>5
    <2> QED BY <2>4, <2>6, <2>7 DEF q, x
  <1> HIDE DEF a
  <1>7. a \o d \in Tidy(O, "chase") /\ MarksNone(a \o d) /\ Paid(a \o d, b[1], {"BOTH"})
    <2>1. \A i \in 1..Len(a) : a[i].do \notin Replies \cup Questions \cup {"logged"}
      BY <1>6 DEF Replies, Stops, Questions
    <2> QED BY <1>5, <1>6, <2>1, TidyConcat, MarksConcat, PaidConcat
  <1>8. DoSent(b) = a \o d
    BY DEF DoSent, a, l, w, d
  <1> QED BY <1>7, <1>8, Orders

LEMMA ChaseScriptTidy ==
  ASSUME NEW r \in ChaseRequests, r.tool # "piw-remove", db.pkgs \subseteq Pkgs, IsFiniteSet(db.pkgs)
  PROVE  ChaseScript(r) \in Tidy(Order2("chase"), "chase") /\ MarksNone(ChaseScript(r))
  <1>1. r.tool \in {"piw-add", "piw-rebuild", "piw-import"}
    BY RequestFacts DEF Tools
  <1>2. /\ r.tool = "piw-add" /\ r.key[2] = NoVer => ChaseScript(r) = DoAddPackage(r)
        /\ r.tool = "piw-add" /\ r.key[2] # NoVer => ChaseScript(r) = DoAddVersion(r)
        /\ r.tool = "piw-rebuild" => ChaseScript(r) = DoRebuild(r)
        /\ r.tool = "piw-import" => ChaseScript(r) = DoImport(r)
    BY DEF ChaseScript
  <1> QED BY <1>1, <1>2, DoAddPackageTidy, DoAddVersionTidy, DoRebuildTidy, DoImportTidy

-----------------------------------------------------------------------------
(* What a transaction does to a script.                                     *)

LEMMA TidyFollowing ==
  ASSUME NEW c, NEW q \in Tidy(Order2(c), c), q # <<>>, NEW s, s = Head(q), s.do # "releases"
  PROVE  /\ Following(s) \o Tail(q) \in Tidy(Order2(c), c)
         /\ s.do \in Touching(c) => Paid(Following(s) \o Tail(q), s.key[1], Rewrites \cup Excuses(c))
         /\ s.do \in Offering(c) => Paid(Following(s) \o Tail(q), s.key[1], {"BOTH"} \cup Excuses(c))
         /\ s.do = "addpkg" /\ Answer(s) => Paid(Following(s) \o Tail(q), s.key[1], {"BOTH"})
         /\ s.do = "addver" /\ Answer(s) => Paid(Following(s) \o Tail(q), s.key[1], Rewrites)
         /\ \A p, K : Paid(q, p, K) /\ s.do \notin K => Paid(Following(s) \o Tail(q), p, K)
  <1> DEFINE O == Order2(c)
             f == Following(s)
             t == Tail(q)
  <1>1. s \in O /\ t \in Tidy(O, c) /\ q \in Seq(O)
    BY TidyTail DEF Tidy
  <1>2. /\ s.yes \in Tidy(O, c) /\ s.no \in Tidy(O, c) /\ Branches(s, c)
    <2>1. s \in [do : Calls, key : Keys, arg : Args, yes : Tidy(Order1(c), c), no : Tidy(Order1(c), c)]
          /\ Branches(s, c)
      BY <1>1 DEF Order2, Ordered
    <2> QED BY <2>1, Orders
  <1>3. /\ s.do \in Touching(c) => Paid(t, s.key[1], Rewrites \cup Excuses(c))
        /\ s.do \in Offering(c) => Paid(t, s.key[1], {"BOTH"} \cup Excuses(c))
        /\ c = "chase" /\ s.do \in Replies \cup Questions => t = <<>>
    <2>1. Head(q).do \in Touching(c) => Paid(Tail(q), Head(q).key[1], Rewrites \cup Excuses(c))
      BY TidyTail
    <2>2. Head(q).do \in Offering(c) => Paid(Tail(q), Head(q).key[1], {"BOTH"} \cup Excuses(c))
      BY TidyTail
    <2>3. ASSUME c = "chase", Head(q).do \in Replies \cup Questions PROVE Tail(q) = <<>>
      <3>1. q \in Tidy(Order2(c), c) /\ q # <<>>
        OBVIOUS
      <3> QED BY <2>3, <3>1, TidyTail
    <2> QED BY <2>1, <2>2, <2>3
  <1>4. f \in Tidy(O, c)
    BY <1>2 DEF Following
  <1>5. s.do \notin Questions => f = <<>>
    BY <1>2, PlainFollowing DEF Questions, Branches
  <1>6. \A p, K : Paid(q, p, K) /\ s.do \notin K => Paid(t, p, K)
    BY <1>1, PaidTail
  <1>7. Answer(s) => f = s.yes
    BY DEF Following
  <1> HIDE DEF f, t, O
  <1>8. f \in Seq(O) /\ t \in Seq(O)
    BY <1>1, <1>4 DEF Tidy
  <1>9. f \o t \in Tidy(O, c)
    <2>1. CASE s.do \notin Questions
      <3>1. f \o t = t
        BY <1>5, <1>8, <2>1, EmptyConcat
      <3> QED BY <1>1, <3>1
    <2>2. CASE s.do \in Questions /\ c = "chase"
      <3>1. f \o t = f
        BY <1>3, <1>8, <2>2, ConcatEmptySeq
      <3> QED BY <1>4, <3>1
    <2>3. CASE c # "chase"
      BY <1>1, <1>4, <2>3, TidyConcat
    <2> QED BY <2>1, <2>2, <2>3
  <1>10. \A p, K : Paid(t, p, K) \/ Paid(f, p, K) => Paid(f \o t, p, K)
    BY <1>8, PaidConcat
  <1>11. /\ s.do = "addpkg" /\ Answer(s) => Paid(f, s.key[1], {"BOTH"})
         /\ s.do = "addver" /\ Answer(s) => Paid(f, s.key[1], Rewrites)
    BY <1>2, <1>7 DEF Branches
  <1>12. /\ s.do \in Touching(c) => Paid(f \o t, s.key[1], Rewrites \cup Excuses(c))
         /\ s.do \in Offering(c) => Paid(f \o t, s.key[1], {"BOTH"} \cup Excuses(c))
         /\ s.do = "addpkg" /\ Answer(s) => Paid(f \o t, s.key[1], {"BOTH"})
         /\ s.do = "addver" /\ Answer(s) => Paid(f \o t, s.key[1], Rewrites)
    BY <1>3, <1>10, <1>11
  <1>13. \A p, K : Paid(q, p, K) /\ s.do \notin K => Paid(f \o t, p, K)
    BY <1>6, <1>10
  <1> QED BY <1>9, <1>12, <1>13 DEF f, t, O

-----------------------------------------------------------------------------
(* How the tasks go on.                                                     *)

\* A task that has something to do goes on with it.
LEMMA TaskMoves ==
  ASSUME TypeInv, Shape, Good, Good', [Next]_<<vars, world>>, NEW c \in Clients, todo[c] # <<>>
  PROVE  \/ todo'[c] = todo[c] /\ (c = "chase" => UNCHANGED touched)
         \/ /\ Transact(c) /\ db' = Executed(Current(c))
            /\ todo'[c] = Following(Current(c)) \o Tail(todo[c])
            /\ c = "chase" => touched' = (touched \/ db' # db)
         \/ /\ Transact(c) /\ c = "chase" /\ UNCHANGED <<db, touched>>
            /\ Current(c).do = "logged" /\ todo'[c] = Error("failed to log build", Current(c).key)
         \/ /\ Ask(c) /\ Current(c).do \in Rewrites
            /\ todo'[c] = Tail(todo[c]) /\ UNCHANGED touched
         \/ Current(c).do \in {"LOG", "DEL", "ack"} /\ todo'[c] = Tail(todo[c]) /\ UNCHANGED touched
         \/ c = "chase" /\ Reply /\ todo'[c] = <<>>
  <1>0. /\ DOMAIN todo = Clients /\ "gazer" \in Clients /\ "chase" \in Clients /\ "driver" \in Clients
        /\ Up /\ Up' /\ "crash" \notin world.faults
    BY ClientFacts DEF TypeInv, ScriptsOK, Good, Orderly
  <1>1. \A d \in Clients : \A x : Then(d, x) => todo'[d] = x /\ \A o \in Clients : o # d => todo'[o] = todo[o]
    BY <1>0, ThenTodo
  <1>2. ASSUME Transact(c)
        PROVE  \/ /\ db' = Executed(Current(c))
                  /\ todo'[c] = Following(Current(c)) \o Tail(todo[c])
                  /\ c = "chase" => touched' = (touched \/ db' # db)
               \/ /\ c = "chase" /\ UNCHANGED <<db, touched>>
                  /\ Current(c).do = "logged" /\ todo'[c] = Error("failed to log build", Current(c).key)
    <2>1. dead' # dead \cup {c}
      BY <1>0 DEF Up
    <2> QED BY <1>1, <1>2, <2>1 DEF Transact, Caught
  <1>3. ASSUME NEW d \in Clients, Transact(d), d # c
        PROVE  todo'[c] = todo[c] /\ (c = "chase" => UNCHANGED touched)
    <2>1. todo'[c] = todo[c]
      BY <1>3, TransactEffect
    <2>2. c = "chase" => UNCHANGED touched
      BY <1>3 DEF Transact
    <2> QED BY <2>1, <2>2
  <1>4. ASSUME NEW d \in Clients, Ask(d)
        PROVE  \/ todo'[c] = todo[c] /\ UNCHANGED touched
               \/ /\ Ask(c) /\ Current(c).do \in Rewrites
                  /\ todo'[c] = Tail(todo[c]) /\ UNCHANGED touched
    BY <1>1, <1>4 DEF Ask, chaseVars
  <1>5. ASSUME NEW d \in Clients, Exclude(d) PROVE todo'[c] = todo[c] /\ UNCHANGED touched
    BY <1>5 DEF Exclude, chaseVars
  <1>6. ASSUME NEW d \in Clients, Acked(d)
        PROVE  \/ todo'[c] = todo[c] /\ UNCHANGED touched
               \/ Current(c).do = "ack" /\ todo'[c] = Tail(todo[c]) /\ UNCHANGED touched
    BY <1>1, <1>6 DEF Acked, chaseVars
  <1>7. ASSUME Write
        PROVE  \/ todo'[c] = todo[c] /\ UNCHANGED touched
               \/ /\ Current(c).do \in {"LOG", "DEL"}
                  /\ todo'[c] = Tail(todo[c]) /\ UNCHANGED touched
    <2>1. UNCHANGED touched
      BY <1>7 DEF Write, chaseVars
    <2>2. CASE UNCHANGED todo
      BY <2>1, <2>2
    <2>3. CASE /\ Idle' /\ Client \in Clients /\ Client # Itself
               /\ todo[Client] # <<>> /\ Current(Client).do = Command
               /\ todo'[Client] = Tail(todo[Client])
               /\ \A d \in Clients : d # Client => todo'[d] = todo[d]
      <3>1. ~Idle
        BY <1>7, WriteCases
      <3>2. Command \in {"LOG", "DEL"}
        BY <2>3, <3>1 DEF Shape, ServedShape
      <3> QED BY <2>1, <2>3, <3>2
    <2> QED BY <1>7, <2>2, <2>3, WriteCases
  <1>8. ASSUME Due \/ SetSerial \/ (\E b \in Builds : Built(b) \/ FailedBuild(b) \/ SentBuild(b))
               \/ (\E e \in PyPIEvents : ReadPyPI(e))
        PROVE  todo'[c] = todo[c] /\ UNCHANGED touched
    <2>1. ASSUME Due \/ SetSerial PROVE todo'[c] = todo[c] /\ UNCHANGED touched
      BY <2>1 DEF Due, SetSerial, chaseVars
    <2>2. ASSUME NEW b \in Builds, Built(b) PROVE todo'[c] = todo[c] /\ UNCHANGED touched
      BY <2>2 DEF Built, chaseVars
    <2>3. ASSUME NEW b \in Builds, FailedBuild(b) \/ SentBuild(b)
          PROVE  todo'[c] = todo[c] /\ UNCHANGED touched
      <3>1. c # "driver"
        BY <2>3 DEF FailedBuild, SentBuild, Free
      <3> QED BY <1>0, <1>1, <2>3, <3>1 DEF FailedBuild, SentBuild, chaseVars
    <2>4. ASSUME NEW e \in PyPIEvents, ReadPyPI(e) PROVE todo'[c] = todo[c] /\ UNCHANGED touched
      <3>1. c # "gazer"
        BY <2>4 DEF ReadPyPI, Free
      <3> QED BY <1>0, <1>1, <2>4, <3>1 DEF ReadPyPI, chaseVars
    <2> QED BY <1>8, <2>1, <2>2, <2>3, <2>4
  <1>9. ASSUME (\E b \in Builds : SentImport(b)) \/ (\E r \in ChaseRequests : HandleImport(r))
        PROVE  c # "chase" /\ todo'[c] = todo[c]
    <2>1. ASSUME NEW b \in Builds, SentImport(b) PROVE c # "chase" /\ todo'[c] = todo[c]
      <3>1. c # "chase"
        BY <2>1 DEF SentImport, Free
      <3> QED BY <1>0, <1>1, <2>1, <3>1 DEF SentImport
    <2>2. ASSUME NEW r \in ChaseRequests, HandleImport(r) PROVE c # "chase" /\ todo'[c] = todo[c]
      <3>1. c # "chase"
        BY <2>2 DEF HandleImport, Free
      <3> QED BY <1>0, <1>1, <2>2, <3>1 DEF HandleImport
    <2> QED BY <1>9, <2>1, <2>2
  <1>10. ASSUME Reply PROVE (c = "chase" /\ todo'[c] = <<>>) \/ (c # "chase" /\ todo'[c] = todo[c])
    BY <1>0, <1>1, <1>10 DEF Reply
  <1>11. ~Restart /\ ~Crash
    BY <1>0 DEF Restart, Crash
  <1>12. ASSUME UNCHANGED <<vars, world>> \/ Over PROVE todo'[c] = todo[c] /\ UNCHANGED touched
    BY <1>12 DEF Over, vars, chaseVars
  <1> QED BY <1>2, <1>3, <1>4, <1>5, <1>6, <1>7, <1>8, <1>9, <1>10, <1>11, <1>12 DEF Next, Step

\* MrChase begins with a request, or with the file of an import.
LEMMA ChaseStarts ==
  ASSUME TypeInv, Shape, Good, Good', [Next]_<<vars, world>>, todo["chase"] = <<>>
  PROVE  \/ todo'["chase"] = <<>>
         \/ \E r \in ChaseRequests : HandleImport(r) /\ todo'["chase"] = ChaseScript(r)
                                     /\ r.tool # "piw-remove"
         \/ \E b \in Builds : SentImport(b) /\ todo'["chase"] = DoSent(b)
  <1>0. /\ DOMAIN todo = Clients /\ "gazer" \in Clients /\ "chase" \in Clients /\ "driver" \in Clients
        /\ "gazer" # "chase" /\ "driver" # "chase" /\ "piw-remove" \notin world.requests
    BY ClientFacts DEF TypeInv, ScriptsOK, Good, Orderly
  <1>1. \A d \in Clients : \A x : Then(d, x) => todo'[d] = x /\ \A o \in Clients : o # d => todo'[o] = todo[o]
    BY <1>0, ThenTodo
  <1>2. ASSUME NEW c \in Clients, Transact(c) PROVE todo'["chase"] = <<>>
    BY <1>0, <1>2, TransactEffect
  <1>3. ASSUME NEW c \in Clients, Ask(c) PROVE todo'["chase"] = <<>>
    BY <1>0, <1>1, <1>3 DEF Ask, Asks
  <1>4. ASSUME NEW c \in Clients, Exclude(c) \/ Acked(c) PROVE todo'["chase"] = <<>>
    BY <1>0, <1>1, <1>4 DEF Exclude, Acked
  <1>5. ASSUME Due \/ SetSerial PROVE todo'["chase"] = <<>>
    BY <1>5 DEF Due, SetSerial
  <1>6. ASSUME Write PROVE todo'["chase"] = <<>>
    BY <1>0, <1>6, WriteCases
  <1>7. ~Reply
    BY DEF Reply
  <1>8. ASSUME NEW b \in Builds, Built(b) \/ FailedBuild(b) \/ SentBuild(b) PROVE todo'["chase"] = <<>>
    BY <1>0, <1>1, <1>8 DEF Built, FailedBuild, SentBuild
  <1>9. ASSUME NEW b \in Builds, SentImport(b) PROVE todo'["chase"] = DoSent(b)
    BY <1>0, <1>1, <1>9 DEF SentImport
  <1>10. ASSUME NEW e \in PyPIEvents, ReadPyPI(e) PROVE todo'["chase"] = <<>>
    BY <1>0, <1>1, <1>10 DEF ReadPyPI
  <1>11. ASSUME NEW r \in ChaseRequests, HandleImport(r)
         PROVE  todo'["chase"] = ChaseScript(r) /\ r.tool # "piw-remove"
    BY <1>0, <1>1, <1>11 DEF HandleImport
  <1>12. ASSUME Restart \/ Crash PROVE todo'["chase"] = <<>>
    BY <1>0, <1>12 DEF Restart, Crash, Start
  <1>13. ASSUME UNCHANGED <<vars, world>> \/ Over PROVE todo'["chase"] = <<>>
    BY <1>13 DEF Over, vars
  <1> QED BY <1>2, <1>3, <1>4, <1>5, <1>6, <1>7, <1>8, <1>9, <1>10, <1>11, <1>12, <1>13 DEF Next, Step

Scripts ==
  Good => /\ todo["chase"] \in Tidy(Order2("chase"), "chase")
          /\ event.action # "remove" => todo["gazer"] \in Tidy(Order2("gazer"), "gazer")

LEMMA ChaseTidyStep ==
  ASSUME TypeInv, Shape, Scripts, Good, Good', [Next]_<<vars, world>>
  PROVE  todo'["chase"] \in Tidy(Order2("chase"), "chase")
  <1> DEFINE q == todo["chase"]
  <1>1. q \in Tidy(Order2("chase"), "chase") /\ "chase" \in Clients /\ Orderly
    BY ClientFacts DEF Scripts, Good
  <1>2. CASE q = <<>>
    <2>1. ASSUME NEW r \in ChaseRequests, r.tool # "piw-remove"
          PROVE  ChaseScript(r) \in Tidy(Order2("chase"), "chase")
      BY <2>1, ChaseScriptTidy, RowFacts DEF TypeInv
    <2>2. \A b \in Builds : DoSent(b) \in Tidy(Order2("chase"), "chase")
      BY DoSentTidy
    <2> QED BY <1>2, <2>1, <2>2, ChaseStarts, TidyEmpty
  <1>3. CASE q # <<>>
    <2>1. /\ Following(Current("chase")) \o Tail(q) \in Tidy(Order2("chase"), "chase")
          /\ Tail(q) \in Tidy(Order2("chase"), "chase")
      <3>1. Current("chase").do # "releases"
        BY <1>1, <1>3, OrderlyCalls
      <3>2. Current("chase") = Head(q)
        BY DEF Current
      <3> HIDE DEF q
      <3> QED BY <1>1, <1>3, <3>1, <3>2, TidyFollowing, TidyTail
    <2>2. Error("failed to log build", Current("chase").key) \in Tidy(Order2("chase"), "chase")
      <3>1. Current("chase").key \in Keys /\ "failed to log build" \in Args
        BY <1>1, <1>3, CurrentType DEF TypeInv, Args
      <3> QED BY <3>1, ErrorTidy
    <2>3. <<>> \in Tidy(Order2("chase"), "chase")
      BY TidyEmpty
    <2> QED BY <1>1, <1>3, <2>1, <2>2, <2>3, TaskMoves
  <1> QED BY <1>2, <1>3

LEMMA GazerTidyStep ==
  ASSUME TypeInv, Shape, Scripts, Good, Good', [Next]_<<vars, world>>, event'.action # "remove"
  PROVE  todo'["gazer"] \in Tidy(Order2("gazer"), "gazer")
  <1> DEFINE q == todo["gazer"]
             T == Tidy(Order2("gazer"), "gazer")
  <1>0. /\ "gazer" \in Clients /\ "gazer" # "chase" /\ Orderly /\ <<>> \in T
        /\ event \in PyPIEvents \cup {NoEvent}
    BY ClientFacts, TidyEmpty DEF Good, TypeInv, TasksOK
  <1>1. event.action # "remove" => q \in T
    BY DEF Scripts
  <1>2. CASE UNCHANGED event /\ todo'["gazer"] = q
    BY <1>1, <1>2
  <1>3. CASE UNCHANGED event /\ q # <<>> /\ todo'["gazer"] = Tail(q)
    <2>1. q \in T
      BY <1>1, <1>3
    <2> HIDE DEF q
    <2> QED BY <1>3, <2>1, TidyTail
  <1>4. CASE Transact("gazer") /\ UNCHANGED event
    <2>1. q \in T /\ q # <<>>
      BY <1>0, <1>1, <1>4, TransactEffect
    <2>2. Current("gazer").do # "releases" /\ Current("gazer") = Head(q)
      BY <1>0, <2>1, OrderlyCalls DEF Current
    <2>3. Following(Current("gazer")) \o Tail(q) \in T /\ Tail(q) \in T
      <3> HIDE DEF q
      <3> QED BY <2>1, <2>2, TidyFollowing, TidyTail
    <2>4. \/ todo'["gazer"] = q
          \/ todo'["gazer"] = Following(Current("gazer")) \o Tail(q)
          \/ todo'["gazer"] = Tail(q)
      BY <1>0, <2>1, TaskMoves
    <2> QED BY <2>1, <2>3, <2>4
  <1>5. CASE todo'["gazer"] = <<>>
    BY <1>0, <1>5
  <1>6. ASSUME NEW e \in PyPIEvents, event' = e, todo'["gazer"] = EventScript(e, packages)
        PROVE  todo'["gazer"] \in T
    BY <1>6, EventScriptTidy
  <1>7. ASSUME UNCHANGED event,
               todo'["gazer"] = IF event # NoEvent THEN EventScript(event, db.pkgs) ELSE <<>>
        PROVE  todo'["gazer"] \in T
    BY <1>0, <1>7, EventScriptTidy
  <1> HIDE DEF q, T
  <1>8. \/ UNCHANGED event /\ todo'["gazer"] = q
        \/ Transact("gazer") /\ UNCHANGED event
        \/ UNCHANGED event /\ q # <<>> /\ todo'["gazer"] = Tail(q)
        \/ todo'["gazer"] = <<>>
        \/ \E e \in PyPIEvents : event' = e /\ todo'["gazer"] = EventScript(e, packages)
        \/ UNCHANGED event /\
              todo'["gazer"] = IF event # NoEvent THEN EventScript(event, db.pkgs) ELSE <<>>
    BY GazerMoves DEF q
  <1>9. todo'["gazer"] \in T
    <2>1. UNCHANGED event /\ q # <<>> /\ todo'["gazer"] = Tail(q) => todo'["gazer"] \in T
      BY <1>3 DEF T
    <2>2. Transact("gazer") /\ UNCHANGED event => todo'["gazer"] \in T
      BY <1>4 DEF T
    <2>3. UNCHANGED event /\ todo'["gazer"] = q => todo'["gazer"] \in T
      BY <1>2 DEF T
    <2>4. todo'["gazer"] = <<>> => todo'["gazer"] \in T
      BY <1>5 DEF T
    <2> QED BY <1>6, <1>7, <1>8, <2>1, <2>2, <2>3, <2>4
  <1> QED BY <1>9 DEF T

LEMMA ScriptsStep ==
  ASSUME TypeInv, Shape, Scripts, [Next]_<<vars, world>>
  PROVE  Scripts'
  <1> SUFFICES ASSUME Good'
               PROVE  /\ todo'["chase"] \in Tidy(Order2("chase"), "chase")
                      /\ event'.action # "remove" => todo'["gazer"] \in Tidy(Order2("gazer"), "gazer")
    BY DEF Scripts
  <1>1. Good
    BY GoodBefore
  <1> QED BY <1>1, ChaseTidyStep, GazerTidyStep

-----------------------------------------------------------------------------
(* The root index.                                                          *)

\* While the master runs, the root index lists what the cache knows.
IndexOk ==
  world.faults = {} => cache = index /\ \A p \in Pkgs : simple[p] # NoPage => p \in cache

LEMMA IndexStep ==
  ASSUME TypeInv, Shape, IndexOk, [Next]_<<vars, world>>
  PROVE  IndexOk'
  <1>1. UNCHANGED world
    BY DEF Next
  <1> SUFFICES ASSUME world.faults = {}
               PROVE  cache' = index' /\ \A p \in Pkgs : simple'[p] # NoPage => p \in cache'
    BY <1>1 DEF IndexOk
  <1>2. cache = index /\ \A p \in Pkgs : simple[p] # NoPage => p \in cache
    BY DEF IndexOk
  <1>3. ~Restart /\ ~Crash
    BY DEF Restart, Crash
  <1>4. CASE UNCHANGED <<stage, data, simple, project, index, cache>>
    BY <1>2, <1>4
  <1>5. CASE Write
    <2>1. Target \in Pkgs /\ simple \in [Pkgs -> {NoPage} \cup SUBSET (Vers \X BOOLEAN)]
      BY <1>5, WriteCases DEF TypeInv, PagesOK
    <2>2. CASE DeleteVersion \/ GetData \/ WriteLog
      BY <1>2, <2>2 DEF DeleteVersion, GetData, WriteLog, scribeVars
    <2>3. CASE WritePages
      BY <1>2, <2>1, <2>3 DEF WritePages, WritePackageIndex, WriteSimpleIndex
    <2>4. CASE DeletePackage
      BY <1>2, <2>1, <2>4 DEF DeletePackage, WriteSimpleIndex
    <2> QED BY <1>5, <2>2, <2>3, <2>4, WriteCases
  <1> QED BY <1>3, <1>4, <1>5, PagesStep

-----------------------------------------------------------------------------
(* What is built has a version.                                             *)

\* A build that is to be logged belongs to a version, which is not going away.
BuildsKnown ==
  Good => \A b \in Builds : Building(b, TRUE, 3) =>
    b[1] \in late \/ (b \in db.vers /\ \A k : b \in Covered(k) => ~Noted(k))

LEMMA BuildsKnownStep ==
  ASSUME TypeInv, Shape, Wheels, BuildsKnown, [Next]_<<vars, world>>
  PROVE  BuildsKnown'
  <1> SUFFICES ASSUME Good', NEW b \in Builds, Building(b, TRUE, 3)', b[1] \notin late'
               PROVE  b \in db'.vers /\ \A k : b \in Covered(k) => ~Noted(k)'
    BY DEF BuildsKnown, Covered, Covers
  <1>0. Good /\ Orderly /\ b[1] \notin late
    BY GoodBefore, DriverFrame DEF Good
  <1>1. CASE todo'["driver"] = todo["driver"]
    <2>1. Building(b, TRUE, 3)
      BY <1>1 DEF Building
    <2>2. b \in db.vers /\ \A k : b \in Covered(k) => ~Noted(k)
      BY <1>0, <2>1 DEF BuildsKnown
    <2>3. todo["driver"] # <<>>
      <3>1. 3 \in 1..3 /\ TRUE \in BOOLEAN
        OBVIOUS
      <3> QED BY <2>1, <3>1, BuildingCurrent
    <2>4. ~Exclude("gazer")
      BY <2>3 DEF Exclude, Free
    <2>5. \A k : b \in Covered(k) => ~Noted(k)'
      BY <2>2, <2>4, NotedStep DEF Wheels
    <2>6. b \in db'.vers
      <3>1. ASSUME b \notin db'.vers PROVE FALSE
        <4>1. PICK k : k = event.key
          OBVIOUS
        <4>2. At(k, 1) /\ b \in Covered(k)
          BY <1>0, <2>2, <3>1, <4>1, RowsStep
        <4> QED BY <2>2, <4>2 DEF Noted
      <3> QED BY <3>1
    <2> QED BY <2>5, <2>6
  <1>2. CASE todo'["driver"] # todo["driver"]
    <2>1. SentBuild(b)
      BY <1>0, <1>2, BuildingStarts
    <2>2. b \in sending /\ UNCHANGED <<db, event, acked>> /\ todo'["gazer"] = todo["gazer"]
      <3>1. DOMAIN todo = Clients /\ "gazer" \in Clients /\ "driver" \in Clients /\ "gazer" # "driver"
        BY ClientFacts DEF TypeInv, ScriptsOK
      <3> QED BY <2>1, <3>1, ThenTodo DEF SentBuild, gazerVars
    <2>3. b \in db.vers
      BY <1>0, <2>2 DEF Wheels, WheelsKnown
    <2>4. \A k : b \in Covered(k) => ~Noted(k)
      BY <1>0, <2>2 DEF Wheels, Excluding
    <2>5. \A k : Noted(k)' => Noted(k)
      BY <2>2 DEF Noted, At
    <2> QED BY <2>2, <2>3, <2>4, <2>5
  <1> QED BY <1>1, <1>2

-----------------------------------------------------------------------------
(* MrChase marks as yanked what has no file yet.                            *)

Yanks(q, b) == \E i \in 1..Len(q) : q[i].do = "yank" /\ q[i].key = b

\* The version that MrChase adds and marks has no file, and gets none before.
YankOk ==
  Good => \A b \in Builds : Yanks(todo["chase"], b) =>
    b[1] \in late \/ (b \notin db.files /\ b \notin sending /\ ~Building(b, TRUE, 3))

LEMMA DriverLogs ==
  ASSUME TypeInv, Shape, todo["driver"] # <<>>, NEW b,
         Current("driver").key = b
  PROVE  /\ Current("driver").do = "logged" => Building(b, TRUE, 3)
         /\ Current("driver").do = "failed" => Building(b, FALSE, 3)
         /\ Current("driver").do \in {"logged", "failed", "LOG"} \cup Rewrites
  <1>1. PICK o \in Builds, status \in BOOLEAN, n \in 1..3 : Building(o, status, n)
    BY DEF Shape, DriverShape
  <1>2. n = 1 \/ n = 2 \/ n = 3
    OBVIOUS
  <1>3. /\ n = 3 => /\ Current("driver") = LogBuild(o, status)
                    /\ Current("driver").do = IF status THEN "logged" ELSE "failed"
        /\ n = 2 => Current("driver").do = "LOG"
        /\ n = 1 => Current("driver").do = News(status)
    BY <1>1, BuildingCurrent
  <1>4. News(status) \in Rewrites
    BY DEF News, Rewrites
  <1>5. LogBuild(o, status).key = o
    BY DoFields DEF LogBuild
  <1>6. n = 3 => o = b /\ Building(b, status, 3)
    BY <1>1, <1>3, <1>5
  <1>7. status = TRUE \/ status = FALSE
    OBVIOUS
  <1>8. Current("driver").do = "logged" => n = 3 /\ status = TRUE
    BY <1>2, <1>3, <1>4, <1>7 DEF Rewrites
  <1>9. Current("driver").do = "failed" => n = 3 /\ status = FALSE
    BY <1>2, <1>3, <1>4, <1>7 DEF Rewrites
  <1> QED BY <1>2, <1>3, <1>4, <1>6, <1>7, <1>8, <1>9

LEMMA YanksBefore ==
  ASSUME TypeInv, Shape, Scripts, Good, Good', [Next]_<<vars, world>>, NEW b,
         Yanks(todo'["chase"], b)
  PROVE  \/ Yanks(todo["chase"], b)
         \/ /\ Transact("chase") /\ todo["chase"] # <<>> /\ Current("chase").do = "addver"
            /\ Current("chase").key = b /\ db' = Executed(Current("chase")) /\ ~Known(b)
  <1> DEFINE q == todo["chase"]
             s == Current("chase")
  <1>1. q \in Tidy(Order2("chase"), "chase") /\ "chase" \in Clients /\ Orderly
    BY ClientFacts DEF Scripts, Good
  <1>2. \A x : MarksNone(x) => ~Yanks(x, b)
    BY DEF MarksNone, Yanks
  <1>3. ~Yanks(<<>>, b)
    BY DEF Yanks
  <1>4. CASE q = <<>>
    <2>1. ASSUME NEW r \in ChaseRequests, r.tool # "piw-remove"
          PROVE  MarksNone(ChaseScript(r))
      BY <2>1, ChaseScriptTidy, RowFacts DEF TypeInv
    <2>2. \A o \in Builds : MarksNone(DoSent(o))
      BY DoSentTidy
    <2> QED BY <1>2, <1>3, <1>4, <2>1, <2>2, ChaseStarts
  <1>5. CASE q # <<>>
    <2>1. s.do # "releases" /\ s = Head(q) /\ s.key \in Keys
      BY <1>1, <1>5, OrderlyCalls, CurrentType DEF TypeInv, Current
    <2>2. Tail(q) \in Tidy(Order2("chase"), "chase") /\ s \in Order2("chase")
      <3> HIDE DEF q
      <3> QED BY <1>1, <1>5, <2>1, TidyTail
    <2>3. Yanks(Tail(q), b) => Yanks(q, b)
      <3>1. q \in Seq(Order2("chase")) /\ q # <<>>
        BY <1>1, <1>5 DEF Tidy
      <3> HIDE DEF q
      <3>2. ASSUME NEW i \in 1..Len(Tail(q)) PROVE i + 1 \in 1..Len(q) /\ Tail(q)[i] = q[i + 1]
        BY <3>1
      <3> QED BY <3>2 DEF Yanks
    <2>4. MarksNone(Error("failed to log build", s.key))
      <3>1. "failed to log build" \in Args
        BY DEF Args
      <3> QED BY <2>1, <3>1, ErrorTidy
    <2>5. ASSUME Transact("chase"), db' = Executed(s), todo'["chase"] = Following(s) \o Tail(q)
          PROVE  Yanks(q, b) \/ (s.do = "addver" /\ s.key = b /\ ~Known(b))
      <3> DEFINE f == Following(s)
                 t == Tail(q)
                 x == f \o t
                 O == Order2("chase")
      <3>1. Branches(s, "chase") /\ s.yes \in Tidy(Order1("chase"), "chase")
            /\ s.no \in Tidy(Order1("chase"), "chase")
        BY <2>2 DEF Order2, Ordered
      <3>2. s.yes \in Seq(O) /\ s.no \in Seq(O) /\ t \in Seq(O)
        BY <2>2, <3>1, Orders DEF Tidy
      <3>3. f = IF Answer(s) THEN s.yes ELSE s.no
        BY <2>1 DEF Following
      <3>4. f \in Seq(O)
        BY <3>2, <3>3
      <3>5. /\ \A i \in 1..Len(s.yes) : s.yes[i].do = "yank" => s.do = "addver" /\ s.yes[i].key = s.key
            /\ \A i \in 1..Len(s.no) : s.no[i].do # "yank"
        BY <3>1 DEF Branches
      <3>6. Yanks(x, b)
        BY <2>5
      <3>7. s.do = "addver" => Answer(s) = ~Known(s.key)
        BY DEF Answer
      <3> HIDE DEF f, t, O, s, q
      <3>8. PICK i \in 1..Len(x) : x[i].do = "yank" /\ x[i].key = b
        BY <3>6 DEF Yanks
      <3>9. (\E j \in 1..Len(f) : x[i] = f[j]) \/ (\E j \in 1..Len(t) : x[i] = t[j])
        BY <3>2, <3>4, ConcatElements
      <3>10. CASE \E j \in 1..Len(t) : x[i] = t[j]
        <4>1. Yanks(t, b)
          BY <3>8, <3>10 DEF Yanks
        <4> QED BY <2>3, <4>1 DEF t
      <3>11. CASE \E j \in 1..Len(f) : x[i] = f[j]
        BY <3>3, <3>5, <3>7, <3>8, <3>11
      <3> QED BY <3>9, <3>10, <3>11
    <2> QED BY <1>1, <1>2, <1>3, <1>5, <2>3, <2>4, <2>5, TaskMoves
  <1> QED BY <1>4, <1>5

LEMMA YankStep ==
  ASSUME TypeInv, Shape, Wheels, Scripts, BuildsKnown, YankOk, [Next]_<<vars, world>>
  PROVE  YankOk'
  <1> SUFFICES ASSUME Good', NEW b \in Builds, Yanks(todo'["chase"], b), b[1] \notin late'
               PROVE  b \notin db'.files /\ b \notin sending' /\ ~Building(b, TRUE, 3)'
    BY DEF YankOk
  <1>0. Good /\ Orderly /\ b[1] \notin late
    BY GoodBefore, DriverFrame DEF Good
  <1>1. CASE Yanks(todo["chase"], b)
    <2>1. b \notin db.files /\ b \notin sending /\ ~Building(b, TRUE, 3)
      BY <1>0, <1>1 DEF YankOk
    <2>2. b \notin db'.files
      <3>1. ASSUME NEW c \in Clients, todo[c] # <<>>, Current(c).do = "logged", Current(c).key = b
            PROVE  FALSE
        <4>1. c = "driver" \/ c = "chase"
          BY <1>0, <3>1, OrderlyCalls
        <4>2. c # "driver"
          BY <2>1, <3>1, DriverLogs
        <4>3. CASE c = "chase"
          <5> DEFINE q == todo["chase"]
          <5>1. q \in Tidy(Order2("chase"), "chase") /\ q # <<>> /\ Head(q).do = "logged"
            BY <1>0, <3>1, <4>3 DEF Scripts, Current
          <5>2. Head(q) = q[1] /\ Len(q) = 2 /\ q[2].do = "expect"
            <6> HIDE DEF q
            <6> QED BY <5>1, TidyLogged
          <5>3. \A i \in 1..Len(q) : i = 1 \/ i = 2
            BY <5>2
          <5> QED BY <1>1, <5>1, <5>2, <5>3 DEF Yanks
        <4> QED BY <4>1, <4>2, <4>3
      <3> QED BY <1>0, <2>1, <3>1, RowsStep
    <2>3. b \notin sending'
      <3>1. world.punctual /\ BusyWith("chase", b[1])
        BY <1>0, <1>1 DEF Orderly, BusyWith, Yanks
      <3>2. ~Built(b)
        BY <3>1 DEF Built, Unbuilt
      <3> QED BY <2>1, <3>2, DriverFrame
    <2>4. ~Building(b, TRUE, 3)'
      <3>1. ASSUME Building(b, TRUE, 3)' PROVE FALSE
        <4>1. todo'["driver"] # todo["driver"]
          BY <2>1, <3>1 DEF Building
        <4>2. SentBuild(b)
          BY <1>0, <3>1, <4>1, BuildingStarts
        <4> QED BY <2>1, <4>2 DEF SentBuild
      <3> QED BY <3>1
    <2> QED BY <2>2, <2>3, <2>4
  <1>2. CASE /\ Transact("chase") /\ todo["chase"] # <<>> /\ Current("chase").do = "addver"
             /\ Current("chase").key = b /\ db' = Executed(Current("chase")) /\ ~Known(b)
    <2>1. b \notin db.vers
      <3>1. b[2] # NoVer
        BY CatalogueAssumption DEF Builds
      <3> QED BY <1>2, <3>1 DEF Known
    <2>2. b \notin db.files /\ b \notin sending /\ ~Building(b, TRUE, 3)
      BY <1>0, <2>1 DEF Shape, RowsNest, Wheels, WheelsKnown, BuildsKnown
    <2>3. db'.files = db.files
      <3>1. b \in Keys
        BY KeyFacts
      <3>2. RowsOK
        BY DEF TypeInv
      <3> QED BY <1>2, <3>1, <3>2, RowChanges
    <2>4. sending' = sending /\ todo'["driver"] = todo["driver"]
      BY <1>2, TransactEffect, ClientFacts DEF driverVars
    <2> QED BY <2>2, <2>3, <2>4 DEF Building
  <1> QED BY <1>0, <1>1, <1>2, YanksBefore

-----------------------------------------------------------------------------
(* What the pages are to tell.                                              *)

\* The row of k is going, and TheScribe has taken it off the pages.
Hidden(k) == At(k, 1) \/ At(k, 2) \/ (At(k, 3) /\ Del(k) /\ stage = "write")

Expect(p) == {r \in ProjectData(p) : ~Hidden(<<p, r.ver>>)}
OffersOf(p) ==
  {o \in Vers \X BOOLEAN : /\ <<p, o[1]>> \in db.files /\ o[2] = (<<p, o[1]>> \in db.yanked)
                           /\ ~Hidden(<<p, o[1]>>)}

\* What the pages tell, when TheScribe is done with what it has read.
Writing(p) == stage = "write" /\ Target = p
ProjectNow(p) == IF Writing(p) THEN data ELSE project[p]
SimpleNow(p) == IF Writing(p) /\ Command # "PROJECT" THEN Offered(data) ELSE simple[p]

\* K is what the page is rewritten by.
Told(p, K) == IF K = {"BOTH"} THEN SimpleNow(p) = OffersOf(p) ELSE ProjectNow(p) = Expect(p)

\* Why a page may be out of date: it will be written.
Promised(c, p, K) == Paid(todo[c], p, K) \/ (c = "chase" /\ touched /\ Paid(todo[c], p, Stops))
Awaited(p) == \E b \in importing : b[1] = p
Buffered(p, K) == p \in DOMAIN commands /\ commands[p] \in K
Served(p, K) == ~Idle /\ Target = p /\ Command \in K /\ stage = "start"
Going(k) ==
  \/ At(k, 4)
  \/ At(k, 3) /\ ~(Del(k) /\ stage = "write")
  \/ k[2] = NoVer /\ (At(k, 1) \/ At(k, 2))
Leaving(p) == \E k \in Keys : k[1] = p /\ Going(k)

Owed(p, K) ==
  \/ \E c \in Clients : Promised(c, p, K)
  \/ Awaited(p) \/ Buffered(p, K) \/ Served(p, K) \/ Leaving(p)

\* A page tells what the database says, or it will be written.
PagesUp ==
  Good => \A p \in db.pkgs \ (halfdone \cup late) :
    \A K \in {Rewrites, {"BOTH"}} : Told(p, K) \/ Owed(p, K)

LEMMA RowOf ==
  ASSUME NEW p, NEW r
  PROVE  r \in ProjectData(p) <=>
           \E b \in db.vers : b[1] = p /\ r = [ver |-> b[2], status |-> Status(b),
             yanked |-> b \in db.yanked,
             skipped |-> db.skip[b] # "" \/ db.skip[Package(p)] # ""]
  BY DEF ProjectData

LEMMA RowFields ==
  ASSUME NEW r, NEW ver, NEW status, NEW yanked, NEW skipped,
         r = [ver |-> ver, status |-> status, yanked |-> yanked, skipped |-> skipped]
  PROVE  r.ver = ver /\ r.status = status /\ r.yanked = yanked
  OBVIOUS

LEMMA OffersAre ==
  RowsOK /\ RowsNest => \A p \in Pkgs : Offered(Expect(p)) = OffersOf(p)
  <1> SUFFICES ASSUME RowsOK, RowsNest, NEW p \in Pkgs PROVE Offered(Expect(p)) = OffersOf(p)
    OBVIOUS
  <1>1. db.vers \subseteq Builds /\ db.files \subseteq db.vers
    BY RowFacts DEF RowsNest
  <1>2. ASSUME NEW o \in Offered(Expect(p)) PROVE o \in OffersOf(p)
    <2>1. PICK r \in ProjectData(p) : r.status = "success" /\ ~Hidden(<<p, r.ver>>) /\ o = <<r.ver, r.yanked>>
      BY DEF Offered, Expect
    <2>2. PICK b \in db.vers : b[1] = p /\ r = [ver |-> b[2], status |-> Status(b),
             yanked |-> b \in db.yanked,
             skipped |-> db.skip[b] # "" \/ db.skip[Package(p)] # ""]
      <3>1. r \in ProjectData(p)
        BY <2>1
      <3> QED BY <3>1 DEF ProjectData
    <2>3. r.ver = b[2] /\ r.status = Status(b) /\ r.yanked = (b \in db.yanked)
      <3>1. PICK y : y = (b \in db.yanked)
        OBVIOUS
      <3>2. PICK n : n = (db.skip[b] # "" \/ db.skip[Package(p)] # "")
        OBVIOUS
      <3>3. r = [ver |-> b[2], status |-> Status(b), yanked |-> y, skipped |-> n]
        BY <2>2, <3>1, <3>2, Zenon
      <3>4. r.ver = b[2] /\ r.status = Status(b) /\ r.yanked = y
        BY <3>3, RowFields
      <3> QED BY <3>1, <3>4, Zenon
    <2>4. b = <<p, b[2]>> /\ b[2] \in Vers
      <3>1. b \in Builds /\ b[1] = p
        BY <1>1, <2>2, Zenon
      <3> QED BY <3>1 DEF Builds
    <2>5. b \in db.files
      <3>1. Status(b) = "success"
        BY <2>1, <2>3
      <3> QED BY <3>1 DEF Status
    <2>6. (b \in db.yanked) \in BOOLEAN
      OBVIOUS
    <2>7. o = <<b[2], (b \in db.yanked)>>
      BY <2>1, <2>3
    <2>8. o[1] = b[2] /\ o[2] = (b \in db.yanked)
      BY <2>7
    <2>9. o \in Vers \X BOOLEAN
      BY <2>4, <2>6, <2>7
    <2>10. ~Hidden(b)
      BY <2>1, <2>3, <2>4
    <2> QED BY <2>4, <2>5, <2>8, <2>9, <2>10 DEF OffersOf
  <1>3. ASSUME NEW o \in OffersOf(p) PROVE o \in Offered(Expect(p))
    <2> DEFINE b == <<p, o[1]>>
    <2>1. b \in db.files /\ o[2] = (b \in db.yanked) /\ ~Hidden(b) /\ o = <<o[1], o[2]>>
      BY DEF OffersOf
    <2>2. PICK r : r = [ver |-> b[2], status |-> Status(b), yanked |-> b \in db.yanked,
             skipped |-> db.skip[b] # "" \/ db.skip[Package(p)] # ""]
      OBVIOUS
    <2>3. b[1] = p /\ b[2] = o[1]
      OBVIOUS
    <2>4. r \in ProjectData(p)
      BY <1>1, <2>1, <2>2, <2>3, RowOf
    <2>5. r.status = "success" /\ r.ver = o[1] /\ r.yanked = o[2]
      BY <2>1, <2>2, <2>3 DEF Status
    <2>6. r \in Expect(p)
      BY <2>1, <2>4, <2>5 DEF Expect
    <2> QED BY <2>1, <2>5, <2>6 DEF Offered
  <1> QED BY <1>2, <1>3

LEMMA OffersAreNext ==
  (RowsOK /\ RowsNest => \A p \in Pkgs : Offered(Expect(p)) = OffersOf(p))'
  BY OffersAre, PTL

-----------------------------------------------------------------------------
(* A removal, as the pages of its package see it.                           *)

LEMMA HiddenComes ==
  ASSUME TypeInv, Shape, [Next]_<<vars, world>>, NEW k, Hidden(k)'
  PROVE  Hidden(k) \/ Going(k)
  <1>1. PICK n \in 1..3 : At(k, n)'
    BY DEF Hidden
  <1>2. n = 1 \/ n = 2 \/ n = 3
    OBVIOUS
  <1>3. CASE At(k, n)
    BY <1>2, <1>3 DEF Hidden, Going
  <1>4. CASE At(k, 4)
    BY <1>4 DEF Going
  <1>5. CASE At(k, 3) \/ At(k, 2)
    BY <1>5 DEF Hidden, Going
  <1> QED BY <1>1, <1>3, <1>4, <1>5, RemovalStep

LEMMA HiddenGoes ==
  ASSUME TypeInv, Shape, Good, [Next]_<<vars, world>>, NEW k, Hidden(k)
  PROVE  Hidden(k)' \/ (At(k, 1) /\ Transact("gazer") /\ db' = Without(k))
  <1>0. Orderly /\ "crash" \notin world.faults
    BY DEF Good, Orderly
  <1>1. PICK n \in 1..3 : At(k, n) /\ (n = 3 => Del(k) /\ stage = "write")
    BY DEF Hidden
  <1>2. n = 1 \/ n = 2 \/ n = 3
    OBVIOUS
  <1>3. CASE At(k, n)' /\ UNCHANGED event /\ todo'["gazer"] = todo["gazer"]
    <2>1. CASE n # 3
      BY <1>2, <1>3, <2>1 DEF Hidden
    <2>2. CASE n = 3
      <3>1. Del(k) /\ stage = "write" /\ ~Idle /\ At(k, 3)
        BY <1>1, <2>2 DEF Del
      <3>2. ~Restart /\ ~Crash
        BY <1>0, <3>1 DEF Restart, Crash
      <3>3. CASE UNCHANGED <<stage, serving>>
        <4>1. Del(k)' /\ stage' = "write"
          BY <3>1, <3>3 DEF Del, Idle, Command, Key
        <4> QED BY <1>3, <2>2, <4>1 DEF Hidden
      <3>4. CASE Write
        <4>1. Client = "gazer" /\ "gazer" # Itself /\ "gazer" \in Clients /\ DOMAIN todo = Clients
          BY <1>0, <3>1, OrderlyDel, ClientFacts DEF TypeInv, ScriptsOK, Del
        <4>2. ~DeleteVersion /\ ~GetData
          BY <3>1 DEF DeleteVersion, GetData, Del, Rewrites
        <4>3. Idle'
          BY <3>4, <4>2, WriteCases
        <4>4. todo'["gazer"] = Tail(todo["gazer"])
          BY <3>4, <4>1, <4>3 DEF Write, Then, Client
        <4>5. Tail(todo["gazer"]) = Rest(k, 2)
          <5>1. 3 \in 0..4 /\ 3 # 0 /\ 3 - 1 = 2
            OBVIOUS
          <5> QED BY <3>1, <5>1, AtFacts
        <4>6. At(k, 2)'
          BY <1>3, <3>1, <4>4, <4>5 DEF At
        <4> QED BY <4>6 DEF Hidden
      <3> QED BY <3>1, <3>2, <3>3, <3>4, PagesStep
    <2> QED BY <2>1, <2>2
  <1>4. CASE At(k, 2)' \/ At(k, 1)'
    BY <1>4 DEF Hidden
  <1>5. CASE n = 1 /\ Transact("gazer") /\ db' = Without(k)
    BY <1>1, <1>5
  <1> QED BY <1>0, <1>1, <1>3, <1>4, <1>5, RemovalGoesOn

\* What TheScribe has to write does not change but when it reads.
LEMMA NowStep ==
  ASSUME TypeInv, Shape, Good, [Next]_<<vars, world>>, NEW p \in Pkgs, ~Leaving(p)
  PROVE  /\ ~Served(p, Rewrites) => ProjectNow(p)' = ProjectNow(p)
         /\ ~Served(p, {"BOTH"}) => SimpleNow(p)' = SimpleNow(p)
  <1>0. Orderly /\ "crash" \notin world.faults /\ (Idle => stage = "start")
    BY StageFacts DEF Good, Orderly, TypeInv
  <1>1. CASE UNCHANGED <<stage, data, simple, project, index, cache>> /\ (~Idle => UNCHANGED serving)
    <2>1. CASE ~Idle
      BY <1>1, <2>1 DEF ProjectNow, SimpleNow, Writing, Target, Key, Command, Offered
    <2>2. CASE Idle
      BY <1>0, <1>1, <2>2 DEF ProjectNow, SimpleNow, Writing
    <2> QED BY <2>1, <2>2
  <1>2. CASE Restart
    BY <1>0, <1>2 DEF Restart, Start, ScribeOnce, ProjectNow, SimpleNow, Writing
  <1>3. CASE Write
    <2>1. /\ ~Idle /\ Key \in Keys /\ Target \in Pkgs /\ Target = Key[1]
          /\ simple \in [Pkgs -> {NoPage} \cup SUBSET (Vers \X BOOLEAN)]
          /\ project \in [Pkgs -> {NoPage} \cup SUBSET Releases]
          /\ Command \in Commands
      BY <1>3, WriteCases, ServedFacts DEF TypeInv, PagesOK
    <2>2. CASE DeleteVersion
      BY <2>2 DEF DeleteVersion, ProjectNow, SimpleNow, Writing
    <2>3. CASE GetData
      <3>1. stage # "write" /\ stage' = "write" /\ UNCHANGED <<serving, simple, project>>
        BY <2>3 DEF GetData, secretaryVars
      <3>2. CASE Target # p
        BY <3>1, <3>2 DEF ProjectNow, SimpleNow, Writing, Target, Key
      <3>3. CASE Target = p
        <4>1. Command # "DEL"
          <5>1. ASSUME Command = "DEL" PROVE FALSE
            <6>1. At(Key, 3) /\ stage # "write"
              BY <1>0, <2>1, <3>1, <5>1, OrderlyDel
            <6>2. Going(Key)
              BY <6>1 DEF Going
            <6> QED BY <2>1, <3>3, <6>2 DEF Leaving
          <5> QED BY <5>1
        <4>2. Command \in Rewrites /\ stage = "start"
          BY <2>3, <4>1 DEF GetData
        <4>3. Served(p, Rewrites) /\ (Command # "PROJECT" => Served(p, {"BOTH"}))
          BY <2>1, <3>3, <4>2 DEF Served, Rewrites
        <4>4. Command = "PROJECT" => SimpleNow(p)' = SimpleNow(p)
          BY <3>1 DEF SimpleNow, Writing, Command
        <4> QED BY <4>3, <4>4
      <3> QED BY <3>2, <3>3
    <2>4. CASE WritePages
      <3>1. stage = "write" /\ stage' = "start" /\ project' = [project EXCEPT ![Target] = data]
            /\ simple' = IF Command = "PROJECT" THEN simple ELSE [simple EXCEPT ![Target] = Offered(data)]
        BY <2>4 DEF WritePages, WriteProjectPage, WritePackageIndex
      <3>2. stage' # "write"
        BY <3>1
      <3>3. ProjectNow(p)' = project'[p] /\ SimpleNow(p)' = simple'[p]
        BY <3>2 DEF ProjectNow, SimpleNow, Writing
      <3>4. project'[p] = ProjectNow(p) /\ simple'[p] = SimpleNow(p)
        BY <2>1, <3>1 DEF ProjectNow, SimpleNow, Writing
      <3> QED BY <3>3, <3>4
    <2>5. CASE DeletePackage
      <3>1. Command = "DEL" /\ Key[2] = NoVer /\ UNCHANGED stage
            /\ simple' = [simple EXCEPT ![Target] = NoPage]
            /\ project' = [project EXCEPT ![Target] = NoPage]
        BY <2>5 DEF DeletePackage
      <3>2. stage # "write"
        BY <3>1, StageFacts DEF Rewrites, TypeInv
      <3>3. Target # p
        <4>1. At(Key, 3)
          BY <1>0, <2>1, <3>1, OrderlyDel
        <4>2. Going(Key)
          BY <3>2, <4>1 DEF Going
        <4> QED BY <2>1, <4>2 DEF Leaving
      <3> QED BY <2>1, <3>1, <3>2, <3>3 DEF ProjectNow, SimpleNow, Writing
    <2>6. CASE WriteLog
      <3>1. Command = "LOG" /\ UNCHANGED <<stage, simple, project>>
        BY <2>6 DEF WriteLog, scribeVars
      <3>2. stage # "write"
        BY <3>1, StageFacts DEF Rewrites, TypeInv
      <3> QED BY <3>1, <3>2 DEF ProjectNow, SimpleNow, Writing
    <2> QED BY <1>3, <2>2, <2>3, <2>4, <2>5, <2>6, WriteCases
  <1> QED BY <1>0, <1>1, <1>2, <1>3, PagesStep DEF Crash

-----------------------------------------------------------------------------
(* What a transaction changes of what the pages are to tell.                *)

SameRow(k) ==
  /\ k \in db'.vers <=> k \in db.vers
  /\ k \in db'.files <=> k \in db.files
  /\ k \in db'.fails <=> k \in db.fails
  /\ k \in db'.yanked <=> k \in db.yanked
  /\ db'.skip[k] = db.skip[k]

LEMMA OtherRows ==
  ASSUME RowsOK, NEW s, s.key \in Keys, db' = Executed(s),
         NEW k \in Keys, k # s.key, k \notin Covered(s.key)
  PROVE  SameRow(k)
  <1>1. db \in [pkgs : SUBSET Pkgs, vers : SUBSET Builds, files : SUBSET Builds,
          fails : SUBSET Builds, yanked : SUBSET Builds, skip : [Keys -> SkipReasons]]
    BY DEF RowsOK, CatalogueTypeOK
  <1> DEFINE j == s.key
  <1>2. j \in Keys /\ k # j /\ k \notin Covered(j)
    OBVIOUS
  <1> HIDE DEF j
  <1>3. ASSUME db' = db PROVE SameRow(k)
    BY <1>3 DEF SameRow
  <1>4. ASSUME NEW a, db' = PackageAdded(j, a) PROVE SameRow(k)
    BY <1>1, <1>2, <1>4 DEF PackageAdded, SameRow
  <1>5. ASSUME NEW a, db' = VersionAdded(j, a) PROVE SameRow(k)
    BY <1>1, <1>2, <1>5 DEF VersionAdded, SameRow
  <1>6. ASSUME NEW a, db' = Skipped(j, a) PROVE SameRow(k)
    BY <1>1, <1>2, <1>6 DEF Skipped, SameRow
  <1>7. ASSUME db' = Yanked(j) \/ db' = Unyanked(j) PROVE SameRow(k)
    <2>1. CASE db' = Yanked(j)
      <3>1. db' = [db EXCEPT !.yanked = @ \cup ({j} \cap db.vers)]
        BY <2>1 DEF Yanked
      <3>2. UNCHANGED <<db.vers, db.files, db.fails, db.skip>>
        BY <1>1, <3>1
      <3>3. db'.yanked = db.yanked \cup ({j} \cap db.vers)
        BY <1>1, <3>1
      <3>4. k \in db'.yanked <=> k \in db.yanked
        BY <1>2, <3>3
      <3> QED BY <3>2, <3>4 DEF SameRow
    <2>2. CASE db' = Unyanked(j)
      <3>1. db' = [db EXCEPT !.yanked = @ \ {j}]
        BY <2>2 DEF Unyanked
      <3>2. UNCHANGED <<db.vers, db.files, db.fails, db.skip>>
        BY <1>1, <3>1
      <3>3. db'.yanked = db.yanked \ {j}
        BY <1>1, <3>1
      <3>4. k \in db'.yanked <=> k \in db.yanked
        BY <1>2, <3>3
      <3> QED BY <3>2, <3>4 DEF SameRow
    <2> QED BY <1>7, <2>1, <2>2
  <1>8. ASSUME db' = Without(j) PROVE SameRow(k)
    <2>1. /\ db'.vers = db.vers \ Covered(j) /\ db'.files = db.files \ Covered(j)
          /\ db'.fails = db.fails \ Covered(j) /\ db'.yanked = db.yanked \ Covered(j)
      BY <1>1, <1>8 DEF Without
    <2>2. db'.skip[k] = db.skip[k]
      <3>1. db'.skip = [o \in Keys |-> IF o = j \/ o \in Covered(j) THEN "" ELSE db.skip[o]]
        <4> DEFINE S == [o \in Keys |-> IF o = j \/ o \in Covered(j) THEN "" ELSE db.skip[o]]
        <4>1. db' = [db EXCEPT !.pkgs = IF j[2] = NoVer THEN @ \ {j[1]} ELSE @,
                !.vers = @ \ Covered(j), !.files = @ \ Covered(j),
                !.fails = @ \ Covered(j), !.yanked = @ \ Covered(j), !.skip = S]
          BY <1>8 DEF Without
        <4> HIDE DEF S
        <4>2. db'.skip = S
          BY <1>1, <4>1
        <4> QED BY <4>2 DEF S
      <3> QED BY <1>2, <3>1
    <2> QED BY <1>2, <2>1, <2>2 DEF SameRow
  <1>9. ASSUME db' = BuildsDeleted(j) PROVE SameRow(k)
    BY <1>1, <1>2, <1>9 DEF BuildsDeleted, SameRow
  <1>10. ASSUME db' = SuccessLogged(j) \/ db' = FailureLogged(j) PROVE SameRow(k)
    BY <1>1, <1>2, <1>10 DEF SuccessLogged, FailureLogged, SameRow
  <1>11. \/ db' = db \/ db' = PackageAdded(j, s.arg) \/ db' = VersionAdded(j, s.arg)
         \/ db' = Skipped(j, s.arg) \/ db' = Yanked(j) \/ db' = Unyanked(j)
         \/ db' = Without(j) \/ db' = BuildsDeleted(j)
         \/ db' = SuccessLogged(j) \/ db' = FailureLogged(j)
    BY DEF Executed, j
  <1> QED BY <1>3, <1>4, <1>5, <1>6, <1>7, <1>8, <1>9, <1>10, <1>11

\* The data of p, row by row.
LEMMA SameData ==
  ASSUME RowsOK, RowsOK', NEW p \in Pkgs, db'.skip[Package(p)] = db.skip[Package(p)],
         \A v \in Vers : SameRow(<<p, v>>)
  PROVE  ProjectData(p)' = ProjectData(p)
  <1>1. db.vers \subseteq Builds /\ db'.vers \subseteq Builds
    BY DEF RowsOK, CatalogueTypeOK
  <1>2. ASSUME NEW b \in Builds, b[1] = p PROVE SameRow(b)
    BY <1>2 DEF Builds
  <1> DEFINE row(b) == [ver |-> b[2], status |-> Status(b), yanked |-> b \in db.yanked,
                        skipped |-> db.skip[b] # "" \/ db.skip[Package(p)] # ""]
  <1>3. ASSUME NEW b \in Builds, b[1] = p
        PROVE  (b \in db'.vers <=> b \in db.vers) /\ row(b)' = row(b)
    <2>1. SameRow(b)
      BY <1>2, <1>3
    <2>2. (b \in db'.vers <=> b \in db.vers) /\ Status(b)' = Status(b)
      BY <2>1 DEF SameRow, Status
    <2>3. (b \in db'.yanked) = (b \in db.yanked)
      BY <2>1 DEF SameRow
    <2>4. db'.skip[b] = db.skip[b]
      BY <2>1 DEF SameRow
    <2> QED BY <2>2, <2>3, <2>4, Zenon
  <1>4. ProjectData(p) = {row(b) : b \in {v \in db.vers : v[1] = p}}
    BY DEF ProjectData
  <1>5. ProjectData(p)' = {row(b)' : b \in {v \in db'.vers : v[1] = p}}
    BY DEF ProjectData
  <1>6. {v \in db'.vers : v[1] = p} = {v \in db.vers : v[1] = p}
    BY <1>1, <1>3
  <1>7. \A b \in {v \in db.vers : v[1] = p} : row(b)' = row(b)
    BY <1>1, <1>3
  <1> HIDE DEF row
  <1> QED BY <1>4, <1>5, <1>6, <1>7

\* A transaction on another package.
LEMMA OtherPackage ==
  ASSUME RowsOK, RowsOK', NEW s, s.key \in Keys, db' = Executed(s) \/ db' = db,
         NEW p \in Pkgs, s.key[1] # p
  PROVE  /\ ProjectData(p)' = ProjectData(p)
         /\ \A v \in Vers : SameRow(<<p, v>>)
  <1>1. ASSUME NEW k \in Keys, k[1] = p PROVE SameRow(k)
    <2>1. k # s.key /\ k \notin Covered(s.key)
      BY <1>1 DEF Covered, Covers
    <2>2. CASE db' = db
      BY <2>2 DEF SameRow
    <2> QED BY <2>1, <2>2, OtherRows
  <1>2. \A v \in Vers : <<p, v>> \in Keys /\ <<p, v>>[1] = p
    BY DEF Keys
  <1>3. Package(p) \in Keys /\ Package(p)[1] = p
    BY KeyFacts DEF Package
  <1>4. SameRow(Package(p)) /\ \A v \in Vers : SameRow(<<p, v>>)
    BY <1>1, <1>2, <1>3
  <1> QED BY <1>4, SameData DEF SameRow

-----------------------------------------------------------------------------
(* A page that tells what the database says goes on doing so.               *)

LEMMA HiddenSame ==
  ASSUME TypeInv, Shape, Good, [Next]_<<vars, world>>, NEW k \in Keys, ~Leaving(k[1]),
         ~(At(k, 1) /\ Transact("gazer") /\ db' = Without(k))
  PROVE  Hidden(k)' <=> Hidden(k)
  <1>1. ~Going(k)
    BY DEF Leaving
  <1>2. Hidden(k)' => Hidden(k)
    BY <1>1, HiddenComes
  <1>3. Hidden(k) => Hidden(k)'
    BY HiddenGoes
  <1> QED BY <1>2, <1>3

SameOffers(p) ==
  \A v \in Vers : /\ <<p, v>> \in db'.files <=> <<p, v>> \in db.files
                  /\ <<p, v>> \in db.files => (<<p, v>> \in db'.yanked <=> <<p, v>> \in db.yanked)

LEMMA ToldKept ==
  ASSUME TypeInv, RowsOK', Shape, Good, [Next]_<<vars, world>>,
         NEW p \in Pkgs, NEW K \in {Rewrites, {"BOTH"}}, Told(p, K), ~Leaving(p), ~Served(p, K),
         \A v \in Vers : Hidden(<<p, v>>)' <=> Hidden(<<p, v>>),
         IF K = {"BOTH"} THEN SameOffers(p) ELSE ProjectData(p)' = ProjectData(p)
  PROVE  Told(p, K)'
  <1>1. CASE K = {"BOTH"}
    <2>1. SimpleNow(p)' = SimpleNow(p)
      BY <1>1, NowStep
    <2>2. OffersOf(p)' = OffersOf(p)
      <3>1. SameOffers(p)
        BY <1>1
      <3>2. ASSUME NEW o \in Vers \X BOOLEAN
            PROVE  (/\ <<p, o[1]>> \in db'.files /\ o[2] = (<<p, o[1]>> \in db'.yanked)
                    /\ ~Hidden(<<p, o[1]>>)')
                   <=> (/\ <<p, o[1]>> \in db.files /\ o[2] = (<<p, o[1]>> \in db.yanked)
                        /\ ~Hidden(<<p, o[1]>>))
        <4>1. o[1] \in Vers
          OBVIOUS
        <4>2. /\ <<p, o[1]>> \in db'.files <=> <<p, o[1]>> \in db.files
              /\ <<p, o[1]>> \in db.files => (<<p, o[1]>> \in db'.yanked <=> <<p, o[1]>> \in db.yanked)
          BY <3>1, <4>1 DEF SameOffers
        <4>3. Hidden(<<p, o[1]>>)' <=> Hidden(<<p, o[1]>>)
          BY <4>1
        <4> QED BY <4>2, <4>3
      <3> QED BY <3>2 DEF OffersOf
    <2> QED BY <1>1, <2>1, <2>2 DEF Told
  <1>2. CASE K # {"BOTH"}
    <2>1. K = Rewrites
      BY <1>2
    <2>2. ProjectNow(p)' = ProjectNow(p) /\ ProjectData(p)' = ProjectData(p)
      BY <1>2, <2>1, NowStep
    <2>3. ProjectData(p) \subseteq Releases
      BY ProjectDataType DEF TypeInv
    <2>4. \A r \in ProjectData(p) : Hidden(<<p, r.ver>>)' <=> Hidden(<<p, r.ver>>)
      BY <2>3 DEF Releases
    <2>5. Expect(p)' = Expect(p)
      BY <2>2, <2>4 DEF Expect
    <2> QED BY <1>2, <2>2, <2>5 DEF Told
  <1> QED BY <1>1, <1>2

\* The rows of a version go that the pages do not show any more.
LEMMA ToldRemoval ==
  ASSUME TypeInv, RowsOK', Shape, Good, [Next]_<<vars, world>>,
         NEW p \in Pkgs, NEW K \in {Rewrites, {"BOTH"}}, Told(p, K), ~Leaving(p), ~Served(p, K),
         NEW k \in Keys, k[1] = p, At(k, 1), Transact("gazer"), db' = Without(k)
  PROVE  Told(p, K)'
  <1>1. k[2] # NoVer /\ k \in Builds /\ k = <<p, k[2]>> /\ k[2] \in Vers
    <2>1. k[2] # NoVer
      BY DEF Leaving, Going
    <2>2. k \in Builds
      BY <2>1, KeyFacts
    <2> QED BY <2>1, <2>2 DEF Builds
  <1>2. /\ Current("gazer") = Do("delete", k) /\ Tail(todo["gazer"]) = <<>>
        /\ \A j : \A m \in 0..4 : At(j, m) => j = k /\ m = 1
    <2>1. 1 \in 0..4 /\ 1 # 0 /\ 1 - 1 = 0
      OBVIOUS
    <2> QED BY <2>1, AtFacts, RestSteps
  <1>3. Hidden(k) /\ \A j : Hidden(j) => j = k
    <2>1. 1 \in 0..4 /\ 2 \in 0..4 /\ 3 \in 0..4
      OBVIOUS
    <2> QED BY <1>2, <2>1 DEF Hidden
  <1>4. \A j : ~Hidden(j)'
    <2>1. todo'["gazer"] = <<>>
      <3>1. Current("gazer").do = "delete" /\ Current("gazer").yes = <<>>
        BY <1>2, DoFields
      <3>2. Following(Current("gazer")) = <<>>
        BY <3>1, PlainFollowing
      <3>3. "gazer" \in Clients
        BY ClientFacts
      <3>4. todo'["gazer"] = <<>> \/ todo'["gazer"] = <<>> \o <<>>
        BY <1>2, <3>2, <3>3, TransactEffect
      <3>5. <<>> \o <<>> = <<>>
        BY EmptyInSeq, EmptyConcat
      <3> QED BY <3>4, <3>5
    <2>2. \A j : \A n \in 1..3 : ~At(j, n)'
      <3>1. \A j : \A n \in 1..4 : Rest(j, n) # <<>>
        BY RestSteps
      <3> QED BY <2>1, <3>1 DEF At
    <2>3. 1 \in 1..3 /\ 2 \in 1..3 /\ 3 \in 1..3
      OBVIOUS
    <2> QED BY <2>2, <2>3 DEF Hidden
  <1>5. ASSUME NEW j \in Keys, j # k PROVE SameRow(j)
    <2>1. j \notin Covered(k)
      BY <1>1, <1>5 DEF Covered, Covers, Builds
    <2> DEFINE s == Do("delete", k)
    <2>2. s.key = k /\ s.do = "delete"
      BY DoFields
    <2> HIDE DEF s
    <2>3. db' = Executed(s)
      BY <2>2 DEF Executed
    <2>4. RowsOK
      BY DEF TypeInv
    <2> QED BY <1>5, <2>1, <2>2, <2>3, <2>4, OtherRows
  <1>6. k \notin db'.vers /\ k \notin db'.files
    <2>1. k \in Covered(k)
      BY <1>1 DEF Covered, Covers
    <2> QED BY <2>1, RowFacts DEF Without, TypeInv
  <1>7. CASE K = {"BOTH"}
    <2>1. SimpleNow(p)' = SimpleNow(p)
      BY <1>7, NowStep
    <2>2. OffersOf(p)' = OffersOf(p)
      <3>1. ASSUME NEW o \in Vers \X BOOLEAN
            PROVE  (/\ <<p, o[1]>> \in db'.files /\ o[2] = (<<p, o[1]>> \in db'.yanked)
                    /\ ~Hidden(<<p, o[1]>>)')
                   <=> (/\ <<p, o[1]>> \in db.files /\ o[2] = (<<p, o[1]>> \in db.yanked)
                        /\ ~Hidden(<<p, o[1]>>))
        <4> DEFINE j == <<p, o[1]>>
        <4>1. j \in Keys
          BY DEF Keys
        <4> HIDE DEF j
        <4>2. CASE j = k
          BY <1>3, <1>6, <4>2 DEF j
        <4>3. CASE j # k
          <5>1. SameRow(j) /\ ~Hidden(j) /\ ~Hidden(j)'
            BY <1>3, <1>4, <1>5, <4>1, <4>3
          <5> QED BY <5>1 DEF SameRow, j
        <4> QED BY <4>2, <4>3
      <3> QED BY <3>1 DEF OffersOf
    <2> QED BY <1>7, <2>1, <2>2 DEF Told
  <1>8. CASE K # {"BOTH"}
    <2>1. ProjectNow(p)' = ProjectNow(p)
      <3>1. K = Rewrites
        BY <1>8
      <3> QED BY <3>1, NowStep
    <2> DEFINE row(b) == [ver |-> b[2], status |-> Status(b), yanked |-> b \in db.yanked,
                          skipped |-> db.skip[b] # "" \/ db.skip[Package(p)] # ""]
               B == {v \in db.vers : v[1] = p}
    <2>2. db.vers \subseteq Builds /\ db'.vers \subseteq Builds
      BY DEF TypeInv, RowsOK, CatalogueTypeOK
    <2>3. SameRow(Package(p))
      <3>1. Package(p) # k /\ Package(p) \in Keys
        BY <1>1, KeyFacts DEF Package
      <3> QED BY <1>5, <3>1
    <2>4. ASSUME NEW b \in Builds, b # k
          PROVE  (b \in db'.vers <=> b \in db.vers) /\ row(b)' = row(b)
      <3>1. SameRow(b)
        BY <1>5, <2>4, KeyFacts
      <3>2. (b \in db'.vers <=> b \in db.vers) /\ Status(b)' = Status(b)
        BY <3>1 DEF SameRow, Status
      <3>3. (b \in db'.yanked) = (b \in db.yanked)
        BY <3>1 DEF SameRow
      <3>4. db'.skip[b] = db.skip[b] /\ db'.skip[Package(p)] = db.skip[Package(p)]
        BY <2>3, <3>1 DEF SameRow
      <3> QED BY <3>2, <3>3, <3>4, Zenon
    <2>5. {v \in db'.vers : v[1] = p} = B \ {k}
      BY <1>6, <2>2, <2>4
    <2>6. ProjectData(p)' = {row(b) : b \in B \ {k}}
      <3>1. ProjectData(p)' = {row(b)' : b \in {v \in db'.vers : v[1] = p}}
        BY DEF ProjectData
      <3>2. \A b \in B \ {k} : row(b)' = row(b)
        BY <2>2, <2>4
      <3> HIDE DEF row, B
      <3> QED BY <2>5, <3>1, <3>2
    <2>7. ProjectData(p) = {row(b) : b \in B}
      BY DEF ProjectData
    <2>8. \A b \in B : row(b).ver = b[2] /\ b = <<p, b[2]>>
      BY <2>2 DEF Builds
    <2> HIDE DEF row, B
    <2>9. Expect(p) = {row(b) : b \in B \ {k}}
      <3>1. \A b \in B : Hidden(<<p, row(b).ver>>) <=> b = k
        BY <1>3, <2>8
      <3> QED BY <2>7, <3>1 DEF Expect
    <2>10. Expect(p)' = ProjectData(p)'
      BY <1>4 DEF Expect
    <2> QED BY <1>8, <2>1, <2>6, <2>9, <2>10 DEF Told
  <1> QED BY <1>7, <1>8

-----------------------------------------------------------------------------
(* What changes it is paid for.                                             *)

LEMMA PromisedMore ==
  ASSUME NEW c, NEW p, Promised(c, p, {"BOTH"})
  PROVE  Promised(c, p, Rewrites)
  <1>1. {"BOTH"} \subseteq Rewrites
    BY DEF Rewrites
  <1> QED BY <1>1, PaidMore DEF Promised

LEMMA PromisedMoreNext ==
  \A c, p : Promised(c, p, {"BOTH"})' => Promised(c, p, Rewrites)'
  <1> SUFFICES ASSUME NEW c, NEW p, Promised(c, p, {"BOTH"})' PROVE Promised(c, p, Rewrites)'
    OBVIOUS
  <1>1. {"BOTH"} \subseteq Rewrites
    BY DEF Rewrites
  <1> QED BY <1>1, PaidMore DEF Promised

LEMMA PaidEither ==
  ASSUME NEW q, NEW p, NEW J, NEW K, Paid(q, p, J \cup K)
  PROVE  Paid(q, p, J) \/ Paid(q, p, K)
  BY DEF Paid

LEMMA DriverPays ==
  ASSUME TypeInv, Shape, todo["driver"] # <<>>, Current("driver").do \in {"logged", "failed"}
  PROVE  /\ Current("driver").do = "logged" => Paid(Tail(todo["driver"]), Current("driver").key[1], {"BOTH"})
         /\ Paid(Tail(todo["driver"]), Current("driver").key[1], Rewrites)
  <1> DEFINE b == Current("driver").key
  <1>1. PICK status \in BOOLEAN : /\ Building(b, status, 3)
                                  /\ Current("driver").do = "logged" => status = TRUE
    BY DriverLogs
  <1> DEFINE q == BuildRest(b, status, 2)
             l == Do("LOG", b)
             w == Do(News(status), Package(b[1]))
  <1>2. Tail(todo["driver"]) = q
    BY <1>1, BuildRestSteps DEF Building
  <1>3. q = <<l, w>>
    BY DEF BuildRest
  <1>4. w.do = News(status) /\ w.key[1] = b[1]
    BY DoFields DEF Package
  <1> HIDE DEF q, l, w, b
  <1>5. Len(q) = 2 /\ q[2] = w /\ 2 \in 1..Len(q)
    BY <1>3
  <1>6. Paid(q, b[1], {News(status)})
    BY <1>4, <1>5 DEF Paid
  <1>7. News(status) \in Rewrites /\ (status = TRUE => News(status) = "BOTH")
    BY DEF News, Rewrites
  <1>8. Paid(q, b[1], Rewrites)
    BY <1>6, <1>7, PaidMore
  <1> QED BY <1>1, <1>2, <1>6, <1>7, <1>8 DEF b

\* After a transaction on p, what has changed its pages is paid for.
LEMMA TransactPays ==
  ASSUME TypeInv, Shape, Scripts, Good, Good', NEW c \in Clients, Transact(c),
         ~(c = "gazer" /\ event.action = "remove"),
         NEW s, s = Current(c), NEW p, p = s.key[1]
  PROVE  /\ s.do \in {"skip", "failed"} => db' = db \/ Promised(c, p, Rewrites)'
         /\ s.do = "yank" => db' = db \/ Promised(c, p, Rewrites)'
         /\ s.do = "yank" /\ c # "chase" => db' = db \/ Promised(c, p, {"BOTH"})'
         /\ s.do \in {"unyank", "logged"} => db' = db \/ Promised(c, p, {"BOTH"})'
         /\ s.do = "addpkg" /\ ~Known(s.key) => Promised(c, p, {"BOTH"})'
         /\ s.do = "addver" /\ ~Known(s.key) => Promised(c, p, Rewrites)'
  <1>0. Orderly /\ Up' /\ todo[c] # <<>> /\ s.do \notin Commands \cup OwnOps /\ c \in {"gazer", "chase", "driver"}
    BY TransactEffect, ClientFacts DEF Good
  <1>1. CASE c = "chase" /\ UNCHANGED <<db, dead>> /\ s.do = "logged"
    BY <1>1
  <1>2. CASE dead' = dead \cup {c}
    BY <1>0, <1>2 DEF Up
  <1>3. CASE /\ ~Refused(s) /\ db' = Executed(s)
             /\ todo'[c] = Following(s) \o Tail(todo[c])
    <2> DEFINE q == todo[c]
    <2>1. CASE c = "driver"
      <3>1. s.do \in {"logged", "failed"}
        BY <1>0, <2>1, DriverLogs DEF Commands
      <3>2. /\ s.do = "logged" => Paid(Tail(q), p, {"BOTH"})
            /\ Paid(Tail(q), p, Rewrites)
        BY <1>0, <2>1, <3>1, DriverPays
      <3>3. Following(s) = <<>>
        <4>1. s.yes = <<>>
          <5>1. PICK b \in Builds, status \in BOOLEAN, n \in 1..3 : Building(b, status, n)
            BY <1>0, <2>1 DEF Shape, DriverShape
          <5>2. n = 1 \/ n = 2 \/ n = 3
            OBVIOUS
          <5>3. s = LogBuild(b, status) \/ s = Do("LOG", b) \/ s = Do(News(status), Package(b[1]))
            BY <2>1, <5>1, <5>2, BuildingCurrent
          <5> QED BY <5>3, DoFields DEF LogBuild
        <4> QED BY <3>1, <4>1, PlainFollowing
      <3>4. todo'[c] = Tail(q)
        <4>1. Tail(q) \in Seq(Statements(Doer(c)))
          BY <1>0, CurrentType DEF TypeInv
        <4> QED BY <1>3, <3>3, <4>1, EmptyConcat
      <3> HIDE DEF q
      <3>5. Paid(todo'[c], p, Rewrites) /\ (s.do = "logged" => Paid(todo'[c], p, {"BOTH"}))
        BY <3>2, <3>4
      <3> QED BY <3>1, <3>5 DEF Promised
    <2>2. CASE c # "driver"
      <3>1. q \in Tidy(Order2(c), c) /\ q # <<>> /\ s = Head(q) /\ s.do # "releases"
        <4>1. c = "gazer" \/ c = "chase"
          BY <1>0, <2>2
        <4>2. s.do # "releases"
          BY <1>0, OrderlyCalls
        <4> QED BY <1>0, <4>1, <4>2 DEF Scripts, Current
      <3> DEFINE x == Following(s) \o Tail(q)
      <3> HIDE DEF q
      <3>2. /\ s.do \in Touching(c) => Paid(x, s.key[1], Rewrites \cup Excuses(c))
            /\ s.do \in Offering(c) => Paid(x, s.key[1], {"BOTH"} \cup Excuses(c))
            /\ s.do = "addpkg" /\ Answer(s) => Paid(x, s.key[1], {"BOTH"})
            /\ s.do = "addver" /\ Answer(s) => Paid(x, s.key[1], Rewrites)
        BY <3>1, TidyFollowing
      <3>3. todo'[c] = x
        BY <1>3 DEF q
      <3> HIDE DEF x
      <3>4. ASSUME NEW K, Paid(x, p, K \cup Excuses(c)), db' # db
            PROVE  Promised(c, p, K)'
        <4>1. Paid(x, p, K) \/ Paid(x, p, Excuses(c))
          BY <3>4, PaidEither
        <4>2. CASE Paid(x, p, K)
          BY <3>3, <4>2 DEF Promised
        <4>3. CASE Paid(x, p, Excuses(c))
          <5>1. c = "chase"
            BY <4>3 DEF Excuses, Paid
          <5>2. touched'
            <6>1. touched' = (touched \/ db' # db)
              BY <1>3, <5>1 DEF Transact
            <6> QED BY <3>4, <6>1
          <5> QED BY <3>3, <4>3, <5>1, <5>2 DEF Promised, Excuses
        <4> QED BY <4>1, <4>2, <4>3
      <3>5. /\ s.do \in {"addpkg", "addver"} => Answer(s) = ~Known(s.key)
        BY DEF Answer
      <3>6. /\ s.do = "addpkg" /\ ~Known(s.key) => Promised(c, p, {"BOTH"})'
            /\ s.do = "addver" /\ ~Known(s.key) => Promised(c, p, Rewrites)'
        BY <3>2, <3>3, <3>5 DEF Promised
      <3>7. /\ s.do \in {"skip", "failed"} => db' = db \/ Promised(c, p, Rewrites)'
            /\ s.do \in {"unyank", "logged"} => db' = db \/ Promised(c, p, {"BOTH"})'
            /\ s.do = "yank" /\ c # "chase" => db' = db \/ Promised(c, p, {"BOTH"})'
            /\ s.do = "yank" /\ c = "chase" => db' = db \/ Promised(c, p, Rewrites)'
        BY <3>2, <3>4 DEF Touching, Offering
      <3> QED BY <3>6, <3>7, PromisedMoreNext
    <2> QED BY <2>1, <2>2
  <1> QED BY <1>0, <1>1, <1>2, <1>3, TransactEffect

\* Nothing but the statements told apart here changes what the pages tell.
LEMMA StatementChanges ==
  ASSUME RowsOK, RowsOK', RowsNest, NEW s, s.key \in Keys, db' = Executed(s), s.do # "delete",
         s.do # "delbuilds", s.do \in {"addpkg", "addver"} => ~Known(s.key) \/ db' = db
  PROVE  /\ s.do \notin {"addpkg", "addver", "skip", "yank", "unyank", "logged", "failed"} => db' = db
         /\ s.do \in {"addpkg", "addver", "skip", "failed"} => \A p \in Pkgs : SameOffers(p)
         /\ s.do = "yank" /\ s.key \notin db.files => \A p \in Pkgs : SameOffers(p)
         /\ db' = db => \A p \in Pkgs : SameOffers(p) /\ ProjectData(p)' = ProjectData(p)
  <1>1. db \in [pkgs : SUBSET Pkgs, vers : SUBSET Builds, files : SUBSET Builds,
          fails : SUBSET Builds, yanked : SUBSET Builds, skip : [Keys -> SkipReasons]]
    BY DEF RowsOK, CatalogueTypeOK
  <1>2. s.do \notin {"addpkg", "addver", "skip", "yank", "unyank", "logged", "failed"} => db' = db
    BY DEF Executed
  <1>3. s.do \in {"addpkg", "addver", "skip", "failed"} =>
          db'.files = db.files /\ db'.yanked = db.yanked
    BY <1>1 DEF Executed, PackageAdded, VersionAdded, Skipped, FailureLogged
  <1>4. s.do = "yank" => db'.files = db.files /\ db'.yanked = db.yanked \cup ({s.key} \cap db.vers)
    BY <1>1 DEF Executed, Yanked
  <1>5. ASSUME s.do = "yank", s.key \notin db.files, NEW p \in Pkgs PROVE SameOffers(p)
    <2>1. ASSUME NEW v \in Vers
          PROVE  /\ <<p, v>> \in db'.files <=> <<p, v>> \in db.files
                 /\ <<p, v>> \in db.files => (<<p, v>> \in db'.yanked <=> <<p, v>> \in db.yanked)
      <3>1. <<p, v>> \in db.files => <<p, v>> # s.key
        BY <1>5
      <3> QED BY <1>4, <1>5, <3>1
    <2> QED BY <2>1 DEF SameOffers
  <1>6. db' = db => \A p \in Pkgs : SameOffers(p) /\ ProjectData(p)' = ProjectData(p)
    BY DEF SameOffers, ProjectData, Status
  <1>7. s.do \in {"addpkg", "addver", "skip", "failed"} => \A p \in Pkgs : SameOffers(p)
    BY <1>3 DEF SameOffers
  <1> QED BY <1>2, <1>5, <1>6, <1>7

LEMMA ChangesPaid ==
  ASSUME TypeInv, RowsOK', Shape, Scripts, YankOk, Good, Good', NEW c \in Clients, Transact(c),
         NEW s, s = Current(c), db' = Executed(s), s.do # "delete",
         NEW p \in Pkgs, p = s.key[1], p \notin late, ~Leaving(p)
  PROVE  /\ ProjectData(p)' = ProjectData(p) \/ Promised(c, p, Rewrites)'
         /\ SameOffers(p) \/ Promised(c, p, {"BOTH"})'
  <1>0. /\ Orderly /\ todo[c] # <<>> /\ s.key \in Keys /\ s.do \notin {"delbuilds", "releases"}
        /\ RowsOK /\ RowsNest
    BY TransactEffect, OrderlyCalls, CurrentType DEF Good, TypeInv, Shape
  <1>1. s.do \in {"addpkg", "addver"} => ~Known(s.key) \/ db' = db
    BY DEF Executed, PackageAdded, VersionAdded
  <1>2. /\ s.do \notin {"addpkg", "addver", "skip", "yank", "unyank", "logged", "failed"} => db' = db
        /\ s.do \in {"addpkg", "addver", "skip", "failed"} => SameOffers(p)
        /\ s.do = "yank" /\ s.key \notin db.files => SameOffers(p)
        /\ db' = db => SameOffers(p) /\ ProjectData(p)' = ProjectData(p)
    BY <1>0, <1>1, StatementChanges
  <1>3. CASE c = "gazer" /\ event.action = "remove"
    <2>1. s.do \in {"skip", "DEL", "ack", "delete"} /\ s.key = event.key
      BY <1>0, <1>3, RemovalCurrent DEF Shape
    <2>2. s.do # "skip"
      <3>1. ASSUME s.do = "skip" PROVE FALSE
        <4>1. PICK n \in 1..4 : At(event.key, n)
          BY <1>0, <1>3, RemovalPhase DEF Shape
        <4>2. n \in 0..4 /\ (n = 1 \/ n = 2 \/ n = 3 \/ n = 4)
          OBVIOUS
        <4>3. n = 4
          <5>1. /\ n = 3 => Current("gazer") = Do("DEL", event.key)
                /\ n = 2 => Current("gazer") = Do("ack", event.key)
                /\ n = 1 => Current("gazer") = Do("delete", event.key)
            BY <4>1, <4>2, AtFacts
          <5>2. s = Current("gazer") /\ s.do = "skip"
            BY <1>3, <3>1
          <5>3. n # 3 /\ n # 2 /\ n # 1
            <6>1. /\ Do("DEL", event.key).do = "DEL" /\ Do("ack", event.key).do = "ack"
                  /\ Do("delete", event.key).do = "delete"
              BY DoFields
            <6> QED BY <5>1, <5>2, <6>1
          <5> QED BY <4>2, <5>3
        <4>4. Going(s.key)
          BY <2>1, <4>1, <4>3 DEF Going
        <4> QED BY <1>0, <4>4 DEF Leaving
      <3> QED BY <3>1
    <2> QED BY <1>2, <2>1, <2>2
  <1>4. CASE ~(c = "gazer" /\ event.action = "remove")
    <2>1. /\ s.do \in {"skip", "failed"} => db' = db \/ Promised(c, p, Rewrites)'
          /\ s.do = "yank" => db' = db \/ Promised(c, p, Rewrites)'
          /\ s.do = "yank" /\ c # "chase" => db' = db \/ Promised(c, p, {"BOTH"})'
          /\ s.do \in {"unyank", "logged"} => db' = db \/ Promised(c, p, {"BOTH"})'
          /\ s.do = "addpkg" /\ ~Known(s.key) => Promised(c, p, {"BOTH"})'
          /\ s.do = "addver" /\ ~Known(s.key) => Promised(c, p, Rewrites)'
      BY <1>4, TransactPays
    <2>2. Promised(c, p, {"BOTH"})' => Promised(c, p, Rewrites)'
      BY PromisedMoreNext
    <2>3. ASSUME s.do = "yank", c = "chase" PROVE db' = db \/ s.key \notin db.files
      <3>1. CASE s.key \in Builds
        <4> DEFINE q == todo["chase"]
        <4>1. q \in Seq(Statements(Doer("chase"))) /\ q # <<>> /\ Head(q) = s
          BY <1>0, <2>3 DEF TypeInv, ScriptsOK, Current
        <4> HIDE DEF q
        <4>2. 1 \in 1..Len(q) /\ q[1] = s
          BY <4>1
        <4>3. Yanks(q, s.key)
          BY <2>3, <4>2 DEF Yanks
        <4> QED BY <3>1, <4>3 DEF YankOk, q
      <3>2. CASE s.key \notin Builds
        BY <1>0, <3>2, RowFacts
      <3> QED BY <3>1, <3>2
    <2> QED BY <1>1, <1>2, <2>1, <2>2, <2>3
  <1> QED BY <1>3, <1>4

\* A new package gets its pages.
LEMMA NewPackagePaid ==
  ASSUME TypeInv, Shape, Scripts, Good, Good', [Next]_<<vars, world>>,
         NEW p \in Pkgs, p \notin db.pkgs, p \in db'.pkgs
  PROVE  \E c \in Clients : Promised(c, p, {"BOTH"})' /\ Promised(c, p, Rewrites)'
  <1>1. PICK c \in Clients : Transact(c)
    BY RowsStay
  <1> DEFINE s == Current(c)
  <1>2. todo[c] # <<>> /\ db' = Executed(s) /\ s.key \in Keys /\ RowsOK
    <2>1. db' # db
      OBVIOUS
    <2> QED BY <1>1, <2>1, TransactEffect, CurrentType DEF TypeInv
  <1>3. s.do = "addpkg" /\ p = s.key[1] /\ ~Known(s.key)
    <2> HIDE DEF s
    <2>1. s.do # "delete"
      <3>1. s.do = "delete" => db'.pkgs = IF s.key[2] = NoVer THEN db.pkgs \ {s.key[1]} ELSE db.pkgs
        BY <1>2, RowChanges
      <3> QED BY <3>1
    <2>2. s.do = "addpkg"
      BY <1>2, <2>1, RowChanges
    <2>3. db'.pkgs = db.pkgs \cup {s.key[1]} /\ db' # db
      BY <1>2, <2>2, RowChanges
    <2>4. ~Known(s.key)
      BY <1>2, <2>2, <2>3 DEF Executed, PackageAdded
    <2> QED BY <2>2, <2>3, <2>4
  <1>4. ~(c = "gazer" /\ event.action = "remove")
    BY <1>2, <1>3, RemovalCurrent DEF Shape
  <1>5. Promised(c, p, {"BOTH"})'
    BY <1>1, <1>3, <1>4, TransactPays
  <1> QED BY <1>5, PromisedMoreNext

LEMMA ToldStep ==
  ASSUME TypeInv, RowsOK', Shape, Scripts, YankOk, Good, Good', [Next]_<<vars, world>>,
         NEW p \in Pkgs, p \notin late, NEW K \in {Rewrites, {"BOTH"}},
         Told(p, K), ~Leaving(p), ~Served(p, K)
  PROVE  Told(p, K)' \/ \E c \in Clients : Promised(c, p, K)'
  <1>0. Orderly
    BY DEF Good
  <1>1. CASE \E k \in Keys : k[1] = p /\ At(k, 1) /\ Transact("gazer") /\ db' = Without(k)
    BY <1>1, ToldRemoval
  <1>2. CASE ~\E k \in Keys : k[1] = p /\ At(k, 1) /\ Transact("gazer") /\ db' = Without(k)
    <2>1. ASSUME NEW v \in Vers PROVE Hidden(<<p, v>>)' <=> Hidden(<<p, v>>)
      <3> DEFINE k == <<p, v>>
      <3>1. k \in Keys /\ k[1] = p
        BY DEF Keys
      <3> HIDE DEF k
      <3>2. Hidden(k)' <=> Hidden(k)
        BY <1>2, <3>1, HiddenSame
      <3> QED BY <3>2 DEF k
    <2>2. ASSUME SameOffers(p), ProjectData(p)' = ProjectData(p) PROVE Told(p, K)'
      BY <2>1, <2>2, ToldKept
    <2>3. ASSUME K = {"BOTH"}, SameOffers(p) PROVE Told(p, K)'
      BY <2>1, <2>3, ToldKept
    <2>4. ASSUME K = Rewrites, ProjectData(p)' = ProjectData(p) PROVE Told(p, K)'
      <3>1. K # {"BOTH"}
        BY <2>4 DEF Rewrites
      <3> QED BY <2>1, <2>4, <3>1, ToldKept
    <2>5. CASE UNCHANGED db
      <3>1. SameOffers(p) /\ ProjectData(p)' = ProjectData(p)
        BY <2>5 DEF SameOffers, ProjectData, Status
      <3> QED BY <2>2, <3>1
    <2>6. ASSUME NEW c \in Clients, Transact(c), db' # db
          PROVE  Told(p, K)' \/ Promised(c, p, K)'
      <3> DEFINE s == Current(c)
      <3>1. todo[c] # <<>> /\ db' = Executed(s) /\ s.key \in Keys /\ RowsOK
        BY <2>6, TransactEffect, CurrentType DEF TypeInv
      <3>2. CASE s.key[1] # p
        <4>1. ProjectData(p)' = ProjectData(p) /\ \A v \in Vers : SameRow(<<p, v>>)
          <5> HIDE DEF s
          <5> QED BY <3>1, <3>2, OtherPackage
        <4>2. SameOffers(p)
          BY <4>1 DEF SameRow, SameOffers
        <4> QED BY <2>2, <4>1, <4>2
      <3>3. CASE s.key[1] = p
        <4>1. s.do # "delete"
          <5>1. ASSUME s.do = "delete" PROVE FALSE
            <6>1. c = "gazer"
              BY <1>0, <3>1, <5>1, OrderlyCalls
            <6>2. At(s.key, 1)
              BY <3>1, <5>1, <6>1, RemovalPhase DEF Shape
            <6>3. db' = Without(s.key)
              BY <3>1, <5>1 DEF Executed
            <6> QED BY <1>2, <2>6, <3>1, <3>3, <6>1, <6>2, <6>3
          <5> QED BY <5>1
        <4>2. /\ ProjectData(p)' = ProjectData(p) \/ Promised(c, p, Rewrites)'
              /\ SameOffers(p) \/ Promised(c, p, {"BOTH"})'
          BY <2>6, <3>1, <3>3, <4>1, ChangesPaid
        <4> QED BY <2>3, <2>4, <4>2
      <3> QED BY <3>2, <3>3
    <2> QED BY <2>5, <2>6, RowsStay
  <1> QED BY <1>1, <1>2

-----------------------------------------------------------------------------
(* What a page is owed is not forgotten.                                    *)

\* What is remembered is as good as what was asked for, and as what was
\* remembered before.
LEMMA RememberKeeps ==
  ASSUME BufferOK, NEW o \in Pkgs, NEW cmd \in Rewrites, Remember(o, cmd),
         NEW K \in {Rewrites, {"BOTH"}}
  PROVE  /\ cmd \in K => Buffered(o, K)'
         /\ \A p : Buffered(p, K) => Buffered(p, K)'
  <1>1. commands \in [DOMAIN commands -> Rewrites] /\ "BOTH" \in K /\ "BOTH" \in Rewrites
    BY DEF BufferOK, Rewrites
  <1>2. CASE o \in DOMAIN commands
    <2>1. commands' = [commands EXCEPT ![o] = IF cmd = "BOTH" THEN cmd ELSE @]
      BY <1>2 DEF Remember
    <2>2. /\ DOMAIN commands' = DOMAIN commands
          /\ commands'[o] = IF cmd = "BOTH" THEN cmd ELSE commands[o]
          /\ \A p \in DOMAIN commands : p # o => commands'[p] = commands[p]
      BY <1>1, <1>2, <2>1
    <2>3. cmd \in K => commands'[o] \in K
      BY <1>1, <1>2, <2>2
    <2> QED BY <1>1, <1>2, <2>2, <2>3 DEF Buffered
  <1>3. CASE o \notin DOMAIN commands
    <2>1. commands' = [q \in DOMAIN commands \cup {o} |-> IF q = o THEN cmd ELSE commands[q]]
      BY <1>3 DEF Remember, With
    <2> QED BY <1>3, <2>1 DEF Buffered
  <1> QED BY <1>2, <1>3

LEMMA PromisedStep ==
  ASSUME TypeInv, Shape, Scripts, Good, Good', [Next]_<<vars, world>>,
         NEW p \in Pkgs, p \notin halfdone', NEW K \in {Rewrites, {"BOTH"}},
         NEW c \in Clients, Promised(c, p, K)
  PROVE  Promised(c, p, K)' \/ Awaited(p)' \/ Buffered(p, K)'
  <1> DEFINE q == todo[c]
             s == Current(c)
             J == K \cup IF c = "chase" /\ touched THEN Stops ELSE {}
  <1>0. /\ Orderly /\ K \subseteq Rewrites
        /\ q # <<>> /\ q \in Seq(Statements(Doer(c)))
    <2>1. Len(<<>>) = 0
      OBVIOUS
    <2>2. q # <<>>
      BY <2>1 DEF Promised, Paid
    <2> QED BY <2>2 DEF Good, TypeInv, ScriptsOK, Rewrites
  <1>1. s = Head(q) /\ s \in Statements(Doer(c)) /\ Tail(q) \in Seq(Statements(Doer(c)))
        /\ s.key \in Keys /\ s.key[1] \in Pkgs
    BY <1>0, CurrentType DEF Current, TypeInv
  <1>2. Paid(q, p, J)
    BY DEF Promised, Paid
  <1>3. ASSUME Paid(todo'[c], p, J), c = "chase" /\ touched => touched'
        PROVE  Promised(c, p, K)'
    <2>1. Paid(todo'[c], p, K) \/ (c = "chase" /\ touched /\ Paid(todo'[c], p, Stops))
      <3> HIDE DEF q, s
      <3> QED BY <1>3 DEF Paid
    <2> QED BY <1>3, <2>1 DEF Promised
  <1>4. (s.do \in J /\ s.key[1] = p) \/ Paid(Tail(q), p, J)
    <2> HIDE DEF J, q, s
    <2> QED BY <1>0, <1>1, <1>2, PaidTail
  <1>5. CASE todo'[c] = todo[c] /\ (c = "chase" => UNCHANGED touched)
    BY <1>2, <1>3, <1>5
  <1>6. CASE /\ Transact(c) /\ todo'[c] = Following(s) \o Tail(q)
             /\ c = "chase" => touched' = (touched \/ db' # db)
    <2>1. s.do \notin Commands \cup OwnOps
      BY <1>6 DEF Transact, Transacts
    <2>2. s.do \notin J
      BY <1>0, <2>1 DEF Commands, OwnOps, Stops
    <2>3. Following(s) \in Seq(Statements(Doer(c)))
      BY <1>1, FollowingType DEF TypeInv
    <2>4. Paid(Following(s) \o Tail(q), p, J)
      <3> HIDE DEF J, q, s
      <3> QED BY <1>1, <1>4, <2>2, <2>3, PaidConcat
    <2> QED BY <1>3, <1>6, <2>4
  <1>7. CASE /\ c = "chase" /\ UNCHANGED touched /\ s.do = "logged"
             /\ todo'[c] = Error("failed to log build", s.key)
    <2>1. q \in Tidy(Order2("chase"), "chase")
      BY <1>7 DEF Scripts
    <2>2. Len(q) = 2 /\ q[2].do = "expect" /\ q[2].key = s.key /\ q[1] = s
      <3>1. Head(q) = s /\ q # <<>> /\ s.do = "logged"
        BY <1>0, <1>1, <1>7
      <3> HIDE DEF q, s
      <3>2. Head(q) = q[1] /\ Len(q) = 2 /\ q[2].do = "expect" /\ q[2].key = Head(q).key
        BY <2>1, <3>1, TidyLogged
      <3> QED BY <3>1, <3>2
    <2>3. PICK i \in 1..Len(q) : q[i].do \in J /\ q[i].key[1] = p
      BY <1>2 DEF Paid
    <2>4. i = 2
      <3>1. s.do \notin J
        BY <1>0, <1>7 DEF Rewrites, Stops
      <3>2. i = 1 \/ i = 2
        BY <2>2, <2>3
      <3> HIDE DEF q, s, J
      <3> QED BY <2>2, <2>3, <3>1, <3>2
    <2>5. touched /\ s.key[1] = p
      <3>1. "expect" \notin K
        BY <1>0 DEF Rewrites
      <3> QED BY <2>2, <2>3, <2>4, <3>1
    <2>6. Paid(todo'[c], p, {"ERROR"})
      <3>1. "failed to log build" \in Args
        BY DEF Args
      <3> QED BY <1>1, <1>7, <2>5, <3>1, ErrorTidy
    <2>7. {"ERROR"} \subseteq J
      BY <1>7, <2>5 DEF Stops
    <2>8. Paid(todo'[c], p, J)
      <3> HIDE DEF J
      <3> QED BY <2>6, <2>7, PaidMore
    <2> QED BY <1>3, <1>7, <2>8
  <1>8. CASE /\ Ask(c) /\ s.do \in Rewrites
             /\ todo'[c] = Tail(q) /\ UNCHANGED touched
    <2>1. CASE Paid(Tail(q), p, J)
      BY <1>3, <1>8, <2>1
    <2>2. CASE s.do \in J /\ s.key[1] = p
      <3>1. s.do \in K
        BY <1>8, <2>2 DEF Stops, Rewrites
      <3>2. Remember(p, s.do) /\ BufferOK
        BY <1>8, <2>2 DEF Ask, HandleInput, TypeInv
      <3>3. Buffered(p, K)'
        <4> HIDE DEF s
        <4> QED BY <1>8, <3>1, <3>2, RememberKeeps
      <3> QED BY <3>3
    <2> QED BY <1>4, <2>1, <2>2
  <1>9. CASE s.do \in {"LOG", "DEL", "ack"} /\ todo'[c] = Tail(q) /\ UNCHANGED touched
    <2>1. s.do \notin J
      BY <1>0, <1>9 DEF Rewrites, Stops
    <2> QED BY <1>3, <1>4, <1>9, <2>1
  <1>10. CASE c = "chase" /\ Reply
    <2>1. q \in Tidy(Order2("chase"), "chase")
      BY <1>10 DEF Scripts
    <2>2. s.do \in {"DONE", "ERROR", "expect"}
      BY <1>10 DEF Reply
    <2>3. Tail(q) = <<>>
      <3>1. Head(q).do \in Replies \cup Questions
        BY <1>1, <2>2 DEF Replies, Stops
      <3>2. "chase" = "chase"
        OBVIOUS
      <3> HIDE DEF q, s
      <3> QED BY <1>0, <2>1, <3>1, <3>2, TidyTail
    <2>4. ~Paid(<<>>, p, J)
      <3>1. Len(<<>>) = 0
        OBVIOUS
      <3> QED BY <3>1 DEF Paid
    <2>5. s.do \in J /\ s.key[1] = p
      BY <1>4, <2>3, <2>4
    <2>6. touched /\ s.do \in Stops
      BY <1>0, <2>2, <2>5 DEF Rewrites
    <2>7. CASE s.do = "ERROR"
      <3>1. halfdone' = halfdone \cup {s.key[1]}
        BY <1>10, <2>6, <2>7 DEF Reply
      <3> QED BY <2>5, <3>1
    <2>8. CASE s.do = "expect"
      <3>1. importing' = importing \cup {s.key}
        BY <1>10, <2>8 DEF Reply
      <3> QED BY <2>5, <3>1 DEF Awaited
    <2> QED BY <2>6, <2>7, <2>8 DEF Stops
  <1> QED BY <1>0, <1>5, <1>6, <1>7, <1>8, <1>9, <1>10, TaskMoves

LEMMA AwaitedStep ==
  ASSUME Good, [Next]_<<vars, world>>, DOMAIN todo = Clients,
         NEW p, p \notin halfdone', NEW K \in {Rewrites, {"BOTH"}}, Awaited(p)
  PROVE  Awaited(p)' \/ \E c \in Clients : Promised(c, p, K)'
  <1>1. PICK b \in importing : b[1] = p
    BY DEF Awaited
  <1>2. CASE b \in importing'
    BY <1>1, <1>2 DEF Awaited
  <1>3. CASE b \notin importing'
    <2>1. ASSUME NEW o \in Builds, SentImport(o) PROVE Promised("chase", p, K)'
      <3>1. o = b
        BY <1>1, <1>3, <2>1 DEF SentImport
      <3>2. todo'["chase"] = DoSent(b)
        BY <2>1, <3>1, ThenTodo, ClientFacts DEF SentImport
      <3>3. Paid(DoSent(b), p, {"BOTH"})
        BY <1>1, <3>1, DoSentTidy
      <3>4. {"BOTH"} \subseteq K
        BY DEF Rewrites
      <3> QED BY <3>2, <3>3, <3>4, PaidMore DEF Promised
    <2>2. ~Restart
      <3>1. Start(Pending) => p \in halfdone'
        BY <1>1 DEF Start
      <3> QED BY <3>1 DEF Restart
    <2>3. ~Crash
      BY DEF Crash, Good, Orderly
    <2>4. ~UNCHANGED importing
      BY <1>1, <1>3
    <2>5. ~Reply
      BY <1>1, <1>3 DEF Reply
    <2>6. ~(\E c \in Clients : Transact(c) \/ Ask(c) \/ Exclude(c) \/ Acked(c))
      BY <2>4 DEF Transact, Ask, Exclude, Acked, chaseVars
    <2>7. ~(Due \/ Write \/ SetSerial)
      BY <2>4 DEF Due, Write, SetSerial, chaseVars
    <2>8. ~(\E o \in Builds : Built(o) \/ FailedBuild(o) \/ SentBuild(o))
      BY <2>4 DEF Built, FailedBuild, SentBuild, chaseVars
    <2>9. ~((\E e \in PyPIEvents : ReadPyPI(e)) \/ (\E r \in ChaseRequests : HandleImport(r)))
      BY <2>4 DEF ReadPyPI, HandleImport, chaseVars
    <2>10. ~UNCHANGED <<vars, world>> /\ ~Over
      BY <2>4 DEF vars, chaseVars, Over
    <2>11. "chase" \in Clients
      BY ClientFacts
    <2> QED BY <2>1, <2>2, <2>3, <2>5, <2>6, <2>7, <2>8, <2>9, <2>10, <2>11 DEF Next, Step
  <1> QED BY <1>2, <1>3

LEMMA BufferedStep ==
  ASSUME TypeInv, Shape, Good, [Next]_<<vars, world>>,
         NEW p \in Pkgs, NEW K \in {Rewrites, {"BOTH"}}, Buffered(p, K)
  PROVE  Buffered(p, K)' \/ Served(p, K)' \/ Leaving(p)'
  <1>0. p \in DOMAIN commands /\ commands[p] \in K /\ BufferOK /\ Orderly /\ (Idle => stage = "start")
    BY StageFacts DEF Buffered, Good, TypeInv
  <1>1. ASSUME UNCHANGED commands PROVE Buffered(p, K)'
    BY <1>0, <1>1 DEF Buffered
  <1>2. ASSUME NEW c \in Clients, Ask(c)
        PROVE  Buffered(p, K)' \/ Leaving(p)'
    <2>1. PICK s : s = Current(c)
      OBVIOUS
    <2>2. /\ Idle /\ todo[c] # <<>> /\ HandleInput(c, s.do, s.key)
          /\ UNCHANGED event /\ UNCHANGED stage
          /\ s.do \notin Rewrites => UNCHANGED todo
      BY <1>2, <2>1 DEF Ask, Asks, HandleInput, scribeVars, gazerVars
    <2>3. s.key \in Keys /\ s.key[1] \in Pkgs
      BY <2>1, <2>2, CurrentType DEF TypeInv
    <2>4. CASE s.do \in Rewrites
      <3>1. Remember(s.key[1], s.do)
        BY <2>2, <2>4 DEF HandleInput
      <3>2. Buffered(p, K)'
        BY <1>0, <2>3, <2>4, <3>1, RememberKeeps
      <3> QED BY <3>2
    <2>5. CASE s.do \notin Rewrites
      <3>1. UNCHANGED commands \/ (s.do = "DEL" /\ Expunge(s.key[1]))
        BY <2>2, <2>5 DEF HandleInput
      <3>2. CASE s.do = "DEL" /\ s.key[1] = p
        <4>1. c = "gazer"
          BY <1>0, <2>1, <2>2, <3>2, OrderlyCalls
        <4>2. At(s.key, 3)
          BY <2>1, <2>2, <3>2, <4>1, RemovalPhase DEF Shape
        <4>3. \A k : At(k, 3) => At(k, 3)'
          BY <2>2, <2>5 DEF At
        <4>4. At(s.key, 3)' /\ stage' # "write"
          <5>1. stage' # "write"
            BY <1>0, <2>2
          <5> QED BY <4>2, <4>3, <5>1
        <4>5. Going(s.key)'
          BY <4>4 DEF Going
        <4> QED BY <2>3, <3>2, <4>5 DEF Leaving
      <3>3. CASE Expunge(s.key[1]) /\ s.key[1] # p
        <4>1. commands' = commands \/ commands' = [q \in DOMAIN commands \ {s.key[1]} |-> commands[q]]
          BY <3>3 DEF Expunge
        <4> QED BY <1>0, <3>3, <4>1 DEF Buffered
      <3> QED BY <1>1, <3>1, <3>2, <3>3
    <2> QED BY <2>4, <2>5
  <1>3. ASSUME Due PROVE Buffered(p, K)' \/ Served(p, K)'
    <2>1. PICK h : h = Head(buffer)
      OBVIOUS
    <2>2. /\ Idle /\ UNCHANGED stage /\ serving' = <<Itself, commands[h], Package(h)>>
          /\ commands' = [q \in DOMAIN commands \ {h} |-> commands[q]]
      BY <1>3, <2>1 DEF Due, HandleOutput, scribeVars
    <2>3. CASE h = p
      <3>1. serving' = <<Itself, commands[p], <<p, NoVer>>>> /\ stage' = "start"
        BY <1>0, <2>2, <2>3 DEF Package
      <3>2. ~Idle' /\ Target' = p /\ Command' = commands[p]
        BY <3>1 DEF Idle, Target, Key, Command
      <3> QED BY <1>0, <3>1, <3>2 DEF Served
    <2>4. CASE h # p
      BY <1>0, <2>2, <2>4 DEF Buffered
    <2> QED BY <2>3, <2>4
  <1>4. ASSUME Write PROVE Buffered(p, K)'
    BY <1>1, <1>4, HandleIndexType DEF Write, TypeInv
  <1>5. ASSUME Restart PROVE Buffered(p, K)'
    <2>1. Load(Pending)
      BY <1>5 DEF Restart, Start
    <2>2. /\ Len(Pending) = Len(buffer)
          /\ \A i \in 1..Len(buffer) : Pending[i] = <<buffer[i], commands[buffer[i]]>>
          /\ \A i, j \in 1..Len(Pending) : Pending[i][1] = Pending[j][1] => i = j
      BY <1>0, PendingType
    <2>3. PICK i \in 1..Len(buffer) : buffer[i] = p
      <3>1. p \in ToSet(buffer) /\ DOMAIN buffer = 1..Len(buffer)
        BY <1>0 DEF BufferOK
      <3> QED BY <3>1 DEF ToSet
    <2>4. PICK t : t = Pending
      OBVIOUS
    <2>5. i \in 1..Len(t) /\ t[i][1] = p /\ t[i][2] = commands[p]
          /\ \A j \in 1..Len(t) : t[j][1] = p => j = i
      BY <2>2, <2>3, <2>4
    <2>6. commands' = [q \in {t[j][1] : j \in 1..Len(t)} |->
                         LET j == CHOOSE m \in 1..Len(t) : t[m][1] = q IN t[j][2]]
      BY <2>1, <2>4 DEF Load
    <2>7. (CHOOSE m \in 1..Len(t) : t[m][1] = p) = i
      BY <2>5
    <2>8. p \in DOMAIN commands' /\ commands'[p] = commands[p]
      BY <2>5, <2>6, <2>7
    <2> QED BY <1>0, <2>8 DEF Buffered
  <1>6. ~Crash
    BY DEF Crash, Good, Orderly
  <1>7. CASE \E c \in Clients : Transact(c) \/ Exclude(c) \/ Acked(c)
    BY <1>1, <1>7 DEF Transact, Exclude, Acked, webVars, secretaryVars
  <1>8. CASE SetSerial \/ Reply
    BY <1>1, <1>8 DEF SetSerial, Reply, webVars, secretaryVars
  <1>9. CASE \E b \in Builds : Built(b) \/ FailedBuild(b) \/ SentBuild(b) \/ SentImport(b)
    BY <1>1, <1>9 DEF Built, FailedBuild, SentBuild, SentImport, webVars, secretaryVars
  <1>10. CASE (\E e \in PyPIEvents : ReadPyPI(e)) \/ (\E r \in ChaseRequests : HandleImport(r))
    BY <1>1, <1>10 DEF ReadPyPI, HandleImport, webVars, secretaryVars
  <1>11. CASE UNCHANGED <<vars, world>>
    BY <1>1, <1>11 DEF vars, webVars, secretaryVars
  <1> QED BY <1>2, <1>3, <1>4, <1>5, <1>6, <1>7, <1>8, <1>9, <1>10, <1>11 DEF Next, Step, Over

\* A page is written from what the database says.
LEMMA ReadTold ==
  ASSUME RowsOK', RowsNest', NEW p \in Pkgs, NEW K \in {Rewrites, {"BOTH"}},
         Writing(p)', data' = Expect(p)', K = {"BOTH"} => Command' # "PROJECT"
  PROVE  Told(p, K)'
  <1>1. CASE K = {"BOTH"}
    <2>1. SimpleNow(p)' = Offered(data')
      BY <1>1 DEF SimpleNow, Offered
    <2>2. Offered(data') = Offered(Expect(p)')
      OBVIOUS
    <2>3. Offered(Expect(p)') = Offered(Expect(p))'
      BY DEF Offered
    <2>4. Offered(Expect(p))' = OffersOf(p)'
      BY OffersAreNext
    <2> QED BY <1>1, <2>1, <2>2, <2>3, <2>4 DEF Told
  <1>2. CASE K # {"BOTH"}
    BY <1>2 DEF Told, ProjectNow
  <1> QED BY <1>1, <1>2

LEMMA ServedStep ==
  ASSUME TypeInv, RowsOK', RowsNest', Shape, Calm, Good, [Next]_<<vars, world>>,
         NEW p \in Pkgs, NEW K \in {Rewrites, {"BOTH"}}, Served(p, K)
  PROVE  Served(p, K)' \/ Told(p, K)'
  <1>0. ~Idle /\ Target = p /\ Command \in K /\ Command \in Rewrites /\ stage = "start"
    BY DEF Served, Rewrites
  <1>1. CASE UNCHANGED <<stage, data, simple, project, index, cache>> /\ (~Idle => UNCHANGED serving)
    BY <1>0, <1>1 DEF Served, Idle, Target, Key, Command
  <1>2. ~Restart /\ ~Crash
    BY <1>0 DEF Restart, Crash, Good, Orderly
  <1>3. CASE Write
    <2>1. GetData
      BY <1>0, <1>3, WriteCases DEF DeleteVersion, WritePages, DeletePackage, WriteLog, Rewrites
    <2>2. /\ data' = {r \in ProjectData(p) : r.ver # Key[2]} /\ stage' = "write"
          /\ UNCHANGED serving
      BY <1>0, <2>1 DEF GetData, secretaryVars
    <2>3. UNCHANGED <<db, event, todo>>
      <3>1. UNCHANGED db /\ UNCHANGED event
        BY <1>3, WriteCases DEF gazerVars
      <3>2. ~Idle'
        BY <1>0, <2>2 DEF Idle
      <3> QED BY <1>3, <3>1, <3>2 DEF Write
    <2>4. Key[2] = NoVer
      <3>1. Command \notin {"LOG", "DEL"}
        BY <1>0 DEF Rewrites
      <3> QED BY <1>0, <3>1 DEF Shape, ServedShape
    <2>5. ProjectData(p) \subseteq Releases
      BY ProjectDataType DEF TypeInv
    <2>6. data' = ProjectData(p) /\ ProjectData(p)' = ProjectData(p)
      <3>1. \A r \in ProjectData(p) : r.ver # NoVer
        BY <2>5, CatalogueAssumption DEF Releases
      <3>2. ProjectData(p)' = ProjectData(p)
        BY <2>3 DEF ProjectData, Status
      <3> QED BY <2>2, <2>4, <3>1, <3>2
    <2>7. \A k : ~Hidden(k)'
      <3>1. \A k : ~At(k, 1) /\ ~At(k, 2)
        BY <1>0 DEF Calm
      <3>2. \A k : ~Del(k)'
        <4>1. Command' = Command /\ Command # "DEL"
          BY <1>0, <2>2 DEF Command, Rewrites
        <4> QED BY <4>1 DEF Del
      <3>3. \A k : ~At(k, 1)' /\ ~At(k, 2)'
        BY <2>3, <3>1 DEF At
      <3> QED BY <3>2, <3>3 DEF Hidden
    <2>8. data' = Expect(p)'
      BY <2>6, <2>7 DEF Expect
    <2>9. Writing(p)' /\ Command' = Command
      BY <1>0, <2>2 DEF Writing, Target, Key, Command
    <2>10. K = {"BOTH"} => Command' # "PROJECT"
      BY <1>0, <2>9
    <2> QED BY <2>8, <2>9, <2>10, ReadTold
  <1> QED BY <1>1, <1>2, <1>3, PagesStep

\* A removal that has not yet come to the pages.
LEMMA RemovalBegins ==
  ASSUME TypeInv, Shape, Good, Good', [Next]_<<vars, world>>, NEW k, At(k, 4)
  PROVE  Going(k)'
  <1>0. Orderly /\ Up' /\ "crash" \notin world.faults /\ "gazer" \in Clients
    BY ClientFacts DEF Good, Orderly
  <1>1. /\ todo["gazer"] # <<>> /\ Tail(todo["gazer"]) = Rest(k, 3)
        /\ Current("gazer").do = "skip" /\ Current("gazer").yes = <<>>
        /\ \A j : \A m \in 0..4 : At(j, m) => j = k /\ m = 4
    <2>1. 4 \in 0..4 /\ 4 # 0 /\ 4 - 1 = 3
      OBVIOUS
    <2>2. Current("gazer") = Test("skip", k, "deleted", <<>>, <<>>)
      BY <2>1, AtFacts
    <2>3. todo["gazer"] # <<>> /\ Tail(todo["gazer"]) = Rest(k, 3)
      BY <2>1, AtFacts
    <2>4. Current("gazer").do = "skip" /\ Current("gazer").yes = <<>>
      BY <2>2, DoFields
    <2>5. \A j : \A m \in 0..4 : At(j, m) => j = k /\ m = 4
      BY <2>1, AtFacts
    <2> QED BY <2>3, <2>4, <2>5
  <1>2. CASE UNCHANGED event /\ todo'["gazer"] = todo["gazer"]
    BY <1>2 DEF At, Going
  <1>3. CASE Transact("gazer") /\ UNCHANGED event
    <2>1. Following(Current("gazer")) = <<>>
      BY <1>1, PlainFollowing
    <2>2. todo'["gazer"] = <<>> \o Tail(todo["gazer"])
      <3>1. dead' # dead \cup {"gazer"}
        BY <1>0 DEF Up
      <3>2. "gazer" # "chase"
        OBVIOUS
      <3> QED BY <1>0, <1>3, <2>1, <3>1, <3>2, TransactEffect
    <2>3. Tail(todo["gazer"]) \in Seq(Statements(Doer("gazer")))
      BY <1>0, <1>1, CurrentType DEF TypeInv
    <2>4. todo'["gazer"] = Rest(k, 3)
      BY <1>1, <2>2, <2>3, EmptyConcat
    <2>5. At(k, 3)'
      BY <1>3, <2>4 DEF At
    <2>6. ~Del(k)
      <3>1. Del(k) => At(k, 3)
        BY <1>0, OrderlyDel DEF Del
      <3>2. 3 \in 0..4 /\ 3 # 4
        OBVIOUS
      <3> QED BY <1>1, <3>1, <3>2
    <2>7. UNCHANGED serving
      BY <1>3 DEF Transact, webVars, secretaryVars
    <2>8. ~Del(k)'
      BY <2>6, <2>7 DEF Del, Idle, Command, Key
    <2> QED BY <2>5, <2>8 DEF Going
  <1>4. ~(Ask("gazer") /\ Current("gazer").do \in Rewrites) /\ ~Acked("gazer")
    BY <1>1 DEF Rewrites, Acked
  <1>5. ~(~Idle /\ Client = "gazer")
    <2>1. ASSUME ~Idle, Client = "gazer" PROVE FALSE
      <3>1. Current("gazer").do = Command /\ Command \in Commands
        BY <1>0, <2>1, ServedFacts DEF TypeInv, ServingOK
      <3> QED BY <1>1, <3>1 DEF Commands, Rewrites
    <2> QED BY <2>1
  <1>6. ~Restart /\ ~Crash
    BY <1>0, <1>1 DEF Restart, Crash
  <1> QED BY <1>1, <1>2, <1>3, <1>4, <1>5, <1>6, GazerMoves

LEMMA LeavingStep ==
  ASSUME TypeInv, RowsOK', RowsNest', Shape, Good, Good', [Next]_<<vars, world>>,
         NEW p \in Pkgs, p \in db'.pkgs, NEW K \in {Rewrites, {"BOTH"}}, Leaving(p)
  PROVE  Leaving(p)' \/ Told(p, K)'
  <1>0. Orderly /\ "crash" \notin world.faults /\ (Idle => stage = "start")
    BY StageFacts DEF Good, Orderly, TypeInv
  <1>1. PICK k \in Keys : k[1] = p /\ Going(k)
    BY DEF Leaving
  <1>2. ASSUME Going(k)' PROVE Leaving(p)'
    BY <1>1, <1>2 DEF Leaving
  <1>3. CASE At(k, 4)
    BY <1>2, <1>3, RemovalBegins
  <1>4. CASE At(k, 3) /\ ~(Del(k) /\ stage = "write")
    <2>0. 3 \in 1..3 /\ 3 # 2 /\ 3 # 1
      OBVIOUS
    <2>1. CASE At(k, 3)' /\ UNCHANGED event /\ todo'["gazer"] = todo["gazer"]
      <3>1. CASE ~(Del(k)' /\ stage' = "write")
        BY <1>2, <2>1, <3>1 DEF Going
      <3>2. CASE Del(k)' /\ stage' = "write"
        <4>1. ~Restart /\ ~Crash
          <5>1. Restart => stage' = "start"
            BY DEF Restart, Start, ScribeOnce
          <5> QED BY <1>0, <3>2, <5>1 DEF Crash
        <4>2. ~(UNCHANGED <<stage, data, simple, project, index, cache>> /\ (~Idle => UNCHANGED serving))
          <5>1. ASSUME UNCHANGED stage, ~Idle => UNCHANGED serving PROVE FALSE
            <6>1. ~Idle /\ UNCHANGED serving
              BY <1>0, <3>2, <5>1
            <6>2. Del(k)
              BY <3>2, <6>1 DEF Del, Idle, Command, Key
            <6> QED BY <1>4, <3>2, <5>1, <6>2
          <5> QED BY <5>1
        <4>3. Write
          BY <4>1, <4>2, PagesStep
        <4>4. ~Idle'
          BY <3>2 DEF Del, Idle
        <4>5. GetData
          <5>1. ~DeleteVersion
            BY <3>2 DEF DeleteVersion
          <5> QED BY <4>3, <4>4, <5>1, WriteCases
        <4>6. /\ data' = {r \in ProjectData(Target) : r.ver # Key[2]} /\ UNCHANGED serving /\ UNCHANGED db
          BY <4>3, <4>5, WriteCases DEF GetData, secretaryVars
        <4>7. Key = k /\ Target = p /\ Command' = "DEL" /\ Writing(p)'
          BY <1>1, <3>2, <4>6 DEF Del, Key, Target, Command, Writing
        <4>8. data' = Expect(p)'
          <5>1. ProjectData(p)' = ProjectData(p)
            BY <4>6 DEF ProjectData, Status
          <5>2. k = <<p, k[2]>>
            BY <1>1 DEF Keys
          <5>3. \A r : Hidden(<<p, r.ver>>)' <=> r.ver = k[2]
            <6>1. \A j : \A m \in 0..4 : At(j, m)' => j = k /\ m = 3
              <7>1. 3 \in 0..4
                OBVIOUS
              <7>2. At(k, 3)'
                BY <2>1
              <7>3. \A j, m : At(j, m)' => event' = [action |-> "remove", key |-> j] /\ todo'["gazer"] = Rest(j, m)
                BY DEF At
              <7>4. ASSUME NEW j, NEW m \in 0..4, At(j, m)' PROVE j = k /\ m = 3
                <8>1. event' = [action |-> "remove", key |-> j] /\ event' = [action |-> "remove", key |-> k]
                      /\ Rest(j, m) = Rest(k, 3)
                  BY <7>2, <7>3, <7>4
                <8>2. j = k
                  BY <8>1
                <8>3. Len(Rest(k, m)) = m /\ Len(Rest(k, 3)) = 3
                  BY <7>1, RestSteps
                <8> QED BY <8>1, <8>2, <8>3
              <7> QED BY <7>4
            <6>2. 1 \in 0..4 /\ 2 \in 0..4 /\ 3 \in 0..4 /\ 1 # 3 /\ 2 # 3
              OBVIOUS
            <6>3. \A j : Hidden(j)' => j = k
              BY <6>1, <6>2 DEF Hidden
            <6>4. Hidden(k)'
              BY <2>1, <3>2 DEF Hidden
            <6>5. \A v : <<p, v>> = k <=> v = k[2]
              BY <5>2
            <6> QED BY <6>3, <6>4, <6>5
          <5>4. Expect(p)' = {r \in ProjectData(p) : r.ver # k[2]}
            BY <5>1, <5>3 DEF Expect
          <5> QED BY <4>6, <4>7, <5>4
        <4>9. Command' # "PROJECT"
          BY <4>7
        <4> QED BY <4>7, <4>8, <4>9, ReadTold
      <3> QED BY <3>1, <3>2
    <2>2. CASE /\ At(k, 2)' /\ Write /\ ~Idle /\ Idle' /\ Client = "gazer"
               /\ Command = "DEL" /\ Key = k
      <3>1. stage # "write"
        BY <1>4, <2>2 DEF Del
      <3>2. ~DeleteVersion /\ ~GetData
        BY <2>2 DEF DeleteVersion, GetData, secretaryVars, Idle
      <3>3. ~WritePages /\ ~WriteLog
        BY <2>2, <3>1 DEF WritePages, WriteLog
      <3>4. DeletePackage
        BY <2>2, <3>2, <3>3, WriteCases
      <3>5. k[2] = NoVer
        BY <2>2, <3>4 DEF DeletePackage
      <3> QED BY <1>2, <2>2, <3>5 DEF Going
    <2> QED BY <1>0, <1>4, <2>0, <2>1, <2>2, RemovalGoesOn
  <1>5. CASE k[2] = NoVer /\ (At(k, 1) \/ At(k, 2))
    <2>0. 1 \in 1..3 /\ 2 \in 1..3 /\ 1 # 2 /\ 1 # 3 /\ 2 # 3
      OBVIOUS
    <2>1. At(k, 1)' \/ At(k, 2)' \/ db' = Without(k)
      <3>1. CASE At(k, 1)
        BY <1>0, <2>0, <3>1, RemovalGoesOn
      <3>2. CASE At(k, 2)
        BY <1>0, <2>0, <3>2, RemovalGoesOn
      <3> QED BY <1>5, <3>1, <3>2
    <2>2. db' # Without(k)
      <3>1. ASSUME db' = Without(k) PROVE FALSE
        <4>1. db'.pkgs = db.pkgs \ {p}
          BY <1>1, <1>5, <3>1, RowFacts DEF Without, TypeInv
        <4> QED BY <4>1
      <3> QED BY <3>1
    <2> QED BY <1>2, <1>5, <2>1, <2>2 DEF Going
  <1> QED BY <1>1, <1>3, <1>4, <1>5 DEF Going

-----------------------------------------------------------------------------
(* Every package that stays.                                                *)

LEMMA HalfdoneGrows ==
  ASSUME [Next]_<<vars, world>>
  PROVE  halfdone \subseteq halfdone'
  <1>1. CASE \E c \in Clients : Transact(c) \/ Ask(c) \/ Exclude(c) \/ Acked(c)
    BY <1>1 DEF Transact, Ask, Exclude, Acked, history
  <1>2. CASE Due \/ Write \/ SetSerial \/ Reply
    BY <1>2 DEF Due, Write, SetSerial, Reply, history
  <1>3. CASE \E b \in Builds : Built(b) \/ FailedBuild(b) \/ SentBuild(b) \/ SentImport(b)
    BY <1>3 DEF Built, FailedBuild, SentBuild, SentImport, history
  <1>4. CASE (\E e \in PyPIEvents : ReadPyPI(e)) \/ (\E r \in ChaseRequests : HandleImport(r))
    BY <1>4 DEF ReadPyPI, HandleImport, history
  <1>5. CASE Restart \/ Crash
    BY <1>5 DEF Restart, Crash, Start
  <1>6. CASE UNCHANGED <<vars, world>>
    BY <1>6 DEF vars, history
  <1> QED BY <1>1, <1>2, <1>3, <1>4, <1>5, <1>6 DEF Next, Step, Over

LEMMA PagesUpStep ==
  ASSUME TypeInv, Shape, Traces, Scripts, YankOk, PagesUp, [Next]_<<vars, world>>
  PROVE  PagesUp'
  <1>0. TypeInv' /\ Shape'
    BY TypeStep, ShapeStep
  <1> SUFFICES ASSUME Good', NEW p \in db'.pkgs, p \notin halfdone', p \notin late',
                      NEW K \in {Rewrites, {"BOTH"}}
               PROVE  Told(p, K)' \/ Owed(p, K)'
    BY DEF PagesUp
  <1>1. Good /\ p \notin late /\ p \notin halfdone /\ Calm /\ DOMAIN todo = Clients
    BY GoodBefore, DriverFrame, HalfdoneGrows DEF Traces, TypeInv, ScriptsOK
  <1>2. p \in Pkgs /\ RowsOK' /\ RowsNest'
    BY <1>0 DEF TypeInv, Shape, RowsOK, CatalogueTypeOK
  <1>3. CASE p \notin db.pkgs
    <2>1. PICK c \in Clients : Promised(c, p, {"BOTH"})' /\ Promised(c, p, Rewrites)'
      BY <1>1, <1>2, <1>3, NewPackagePaid
    <2> QED BY <2>1 DEF Owed
  <1>4. CASE p \in db.pkgs
    <2>1. Told(p, K) \/ Owed(p, K)
      BY <1>1, <1>4 DEF PagesUp
    <2>2. CASE \E c \in Clients : Promised(c, p, K)
      BY <1>1, <1>2, <2>2, PromisedStep DEF Owed
    <2>3. CASE Awaited(p)
      BY <1>1, <1>2, <2>3, AwaitedStep DEF Owed
    <2>4. CASE Buffered(p, K)
      BY <1>1, <1>2, <2>4, BufferedStep DEF Owed
    <2>5. CASE Served(p, K)
      BY <1>1, <1>2, <2>5, ServedStep DEF Owed
    <2>6. CASE Leaving(p)
      BY <1>1, <1>2, <2>6, LeavingStep DEF Owed
    <2>7. CASE Told(p, K) /\ ~Leaving(p) /\ ~Served(p, K)
      BY <1>1, <1>2, <2>7, ToldStep DEF Owed
    <2> QED BY <2>1, <2>2, <2>3, <2>4, <2>5, <2>6, <2>7 DEF Owed
  <1> QED BY <1>3, <1>4

PagesInv == IndexOk /\ Scripts /\ BuildsKnown /\ YankOk /\ PagesUp

LEMMA PagesInit == Init => PagesInv
  <1> SUFFICES ASSUME Init PROVE PagesInv
    OBVIOUS
  <1>1. /\ db.pkgs = {} /\ index = {} /\ cache = {}
        /\ simple = [p \in Pkgs |-> NoPage]
        /\ todo["chase"] = <<>> /\ todo["gazer"] = <<>> /\ todo["driver"] = <<>>
    BY ClientFacts DEF Init, CatalogueInit, ScribeInit
  <1>2. IndexOk
    BY <1>1 DEF IndexOk
  <1>3. Scripts
    BY <1>1, TidyEmpty DEF Scripts
  <1>4. BuildsKnown
    <2>1. 3 \in 1..3 /\ TRUE \in BOOLEAN
      OBVIOUS
    <2> QED BY <1>1, <2>1, BuildRestSteps DEF BuildsKnown, Building
  <1>5. YankOk
    BY <1>1 DEF YankOk, Yanks
  <1>6. PagesUp
    BY <1>1 DEF PagesUp
  <1> QED BY <1>2, <1>3, <1>4, <1>5, <1>6 DEF PagesInv

LEMMA PagesInvStep ==
  TypeInv /\ Shape /\ Wheels /\ Traces /\ PagesInv /\ [Next]_<<vars, world>> => PagesInv'
  <1> SUFFICES ASSUME TypeInv, Shape, Wheels, Traces, PagesInv, [Next]_<<vars, world>>
               PROVE  PagesInv'
    OBVIOUS
  <1>1. IndexOk' /\ Scripts'
    BY IndexStep, ScriptsStep DEF PagesInv
  <1>2. BuildsKnown' /\ YankOk'
    BY BuildsKnownStep, YankStep DEF PagesInv
  <1>3. PagesUp'
    BY PagesUpStep DEF PagesInv
  <1> QED BY <1>1, <1>2, <1>3 DEF PagesInv

\* When all is done nothing is owed, and nothing is being removed.
LEMMA NothingOwed ==
  ASSUME TypeInv, Settled, NEW p, NEW K
  PROVE  ~Owed(p, K) /\ ~Writing(p) /\ \A k : ~Hidden(k)
  <1>1. \A c \in Clients : ~Promised(c, p, K)
    BY DEF Settled, Promised, Paid
  <1>2. ~Awaited(p) /\ ~Served(p, K) /\ ~Writing(p)
    BY StageFacts DEF Settled, Awaited, Served, Writing, TypeInv
  <1>3. ~Buffered(p, K)
    <2>1. buffer = <<>> /\ DOMAIN buffer = {} /\ ToSet(buffer) = DOMAIN commands
      BY DEF Settled, TypeInv, BufferOK
    <2>2. DOMAIN commands = {}
      BY <2>1 DEF ToSet
    <2> QED BY <2>2 DEF Buffered
  <1>4. \A k, n : ~At(k, n)
    BY DEF Settled, NoEvent, At
  <1>5. ~Leaving(p) /\ \A k : ~Hidden(k)
    BY <1>4 DEF Leaving, Going, Hidden
  <1> QED BY <1>1, <1>2, <1>3, <1>5 DEF Owed

\* When all is done, the pages of every package tell what the database says.
\* Whatever changes the rows behind a page has the request that rewrites it
\* ahead of it in its script; no step drops a request before it is answered,
\* merges it into a weaker one, or takes a removal's place; and the page tells
\* the rows of the moment TheScribe reads them, less those that a removal has
\* taken off the page and not yet out of the database.
THEOREM PagesHold == Spec => []PagesSettle
  <1>1. Spec => [](TypeInv /\ Shape /\ Wheels /\ Traces /\ PagesInv)
    <2>1. Init => TypeInv /\ Shape /\ Wheels /\ Traces /\ PagesInv
      BY TypeInit, ShapeInit, WheelsInit, TracesInit, PagesInit
    <2>2. TypeInv /\ Shape /\ Wheels /\ Traces /\ PagesInv /\ [Next]_<<vars, world>>
            => (TypeInv /\ Shape /\ Wheels /\ Traces /\ PagesInv)'
      BY TypeStep, ShapeStep, WheelsStep, TracesStep, PagesInvStep
    <2> QED BY <2>1, <2>2, PTL DEF Spec
  <1>2. TypeInv /\ Shape /\ Wheels /\ Traces /\ PagesInv => PagesSettle
    <2> SUFFICES ASSUME TypeInv, Shape, PagesInv, Orderly, Settled,
                        NEW p \in db.pkgs, p \notin halfdone, p \notin late
                 PROVE  /\ project[p] = ProjectData(p)
                        /\ simple[p] = Offered(ProjectData(p))
                        /\ world.faults = {} /\ simple[p] # NoPage => p \in index
      BY DEF PagesSettle
    <2>1. Good /\ p \in Pkgs
      BY RowFacts DEF Good, Up, Settled, TypeInv
    <2>2. ~Writing(p) /\ \A k : ~Hidden(k)
      BY NothingOwed
    <2>3. \A K \in {Rewrites, {"BOTH"}} : Told(p, K)
      <3> SUFFICES ASSUME NEW K \in {Rewrites, {"BOTH"}} PROVE Told(p, K)
        OBVIOUS
      <3>1. ~Owed(p, K)
        BY NothingOwed
      <3> QED BY <2>1, <3>1 DEF PagesInv, PagesUp
    <2>4. Expect(p) = ProjectData(p)
      BY <2>2 DEF Expect
    <2>5. Offered(ProjectData(p)) = OffersOf(p)
      BY <2>1, <2>4, OffersAre DEF TypeInv, Shape
    <2>6. simple[p] = OffersOf(p)
      BY <2>2, <2>3 DEF Told, SimpleNow
    <2>7. project[p] = Expect(p)
      <3>1. Rewrites # {"BOTH"}
        BY DEF Rewrites
      <3> QED BY <2>2, <2>3, <3>1 DEF Told, ProjectNow
    <2>8. world.faults = {} /\ simple[p] # NoPage => p \in index
      BY <2>1 DEF PagesInv, IndexOk
    <2> QED BY <2>4, <2>5, <2>6, <2>7, <2>8
  <1> QED BY <1>1, <1>2, PTL
=============================================================================
