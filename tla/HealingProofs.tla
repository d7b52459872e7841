---------------------------- MODULE HealingProofs ----------------------------
(***************************************************************************)
(* What the reader of responses computes, for responses of any length.     *)
(*                                                                         *)
(* The scanner is a recursive function over the response.  Induction is    *)
(* done with sets of numbers, by the least element that is missing.        *)
(***************************************************************************)
EXTENDS AskProperties, FiniteSetTheorems, WellFoundedInduction, TLAPS

-----------------------------------------------------------------------------
(* Numbers. *)

LEMMA LeastNumber ==
  ASSUME NEW S, S \subseteq Nat, S # {}
  PROVE  \E x \in S : \A y \in S : x <= y
<1> DEFINE Less == OpToRel(<, Nat)
<1>1. IsWellFoundedOn(Less, Nat)
  BY NatLessThanWellFounded
<1>2. \A x, y \in Nat : y < x => <<y, x>> \in Less
  BY DEF OpToRel
<1> HIDE DEF Less
<1>3. PICK x \in S : \A y \in S : ~(<<y, x>> \in Less)
  BY <1>1, WFMin
<1>4. ASSUME NEW y \in S PROVE x <= y
  <2>1. x \in Nat /\ y \in Nat
    OBVIOUS
  <2>2. ~(y < x)
    BY <1>2, <1>3, <2>1
  <2>3. QED
    BY <2>1, <2>2
<1>5. QED
  BY <1>4

(* Induction, with a set in the place of the predicate. *)
LEMMA AllNumbers ==
  ASSUME NEW S, 0 \in S, \A n \in Nat : n \in S => n + 1 \in S
  PROVE  Nat \subseteq S
<1>1. SUFFICES ASSUME Nat \ S # {} PROVE FALSE
  OBVIOUS
<1>2. PICK x \in Nat \ S : \A y \in Nat \ S : x <= y
  BY <1>1, LeastNumber
<1>3. x # 0
  BY <1>2
<1>4. x - 1 \in Nat /\ x - 1 \in S
  BY <1>2, <1>3
<1>5. QED
  BY <1>2, <1>4

LEMMA GreatestNumber ==
  ASSUME NEW S, S \subseteq Nat, S # {}, NEW n \in Nat, \A s \in S : s <= n
  PROVE  \E x \in S : \A y \in S : y <= x
<1> DEFINE Distances == {n - s : s \in S}
<1>1. Distances \subseteq Nat /\ Distances # {}
  <2>1. \A s \in S : n - s \in Nat
    OBVIOUS
  <2>2. QED
    BY <2>1
<1>2. PICK d \in Distances : \A e \in Distances : d <= e
  BY <1>1, LeastNumber
<1>3. PICK x \in S : d = n - x
  BY <1>2
<1>4. ASSUME NEW y \in S PROVE y <= x
  <2>1. n - x <= n - y
    BY <1>2, <1>3
  <2>2. QED
    BY <2>1, <1>3
<1>5. QED
  BY <1>4

-----------------------------------------------------------------------------
(* The scanner. *)

(* The scanner is where its definition says, behind each part.              *)
LEMMA ScanUnfolds ==
  ASSUME NEW text \in Seq(Parts)
  PROVE  Scan(text) = [i \in 0 .. Len(text) |->
                         IF i = 0 THEN Outside ELSE ScanPart(Scan(text)[i - 1], text[i])]
<1> DEFINE N == Len(text)
           Runs(g, n) == \A i \in 0 .. n : g[i] = IF i = 0 THEN Outside
                                                  ELSE ScanPart(g[i - 1], text[i])
           S == {n \in Nat : \E g : Runs(g, n)}
<1>1. N \in Nat
  OBVIOUS
<1>2. 0 \in S
  <2>1. Runs([i \in 0 .. 0 |-> Outside], 0)
    OBVIOUS
  <2>2. QED
    BY <2>1
<1>3. ASSUME NEW n \in Nat, n \in S PROVE n + 1 \in S
  <2>1. PICK g : Runs(g, n)
    BY <1>3
  <2>2. DEFINE h == [i \in 0 .. (n + 1) |-> IF i = n + 1 THEN ScanPart(g[n], text[n + 1]) ELSE g[i]]
  <2>3. Runs(h, n + 1)
    <3>1. TAKE i \in 0 .. (n + 1)
    <3>2. CASE i = n + 1
      BY <3>2
    <3>3. CASE i # n + 1
      <4>1. i \in 0 .. n /\ (i # 0 => i - 1 \in 0 .. n)
        BY <3>3
      <4>2. h[i] = g[i] /\ (i # 0 => h[i - 1] = g[i - 1])
        BY <4>1
      <4>3. g[i] = IF i = 0 THEN Outside ELSE ScanPart(g[i - 1], text[i])
        BY <2>1, <4>1
      <4>4. QED
        BY <4>2, <4>3
    <3>4. QED
      BY <3>2, <3>3
  <2>4. QED
    <3> HIDE DEF h, Runs
    <3>1. QED
      BY <2>3
<1>4. N \in S
  <2> HIDE DEF S
  <2>1. QED
    BY <1>1, <1>2, <1>3, AllNumbers
<1>5. PICK g : Runs(g, N)
  BY <1>4
<1>6. DEFINE f == [i \in 0 .. N |-> g[i]]
<1>7. f = [i \in 0 .. N |-> IF i = 0 THEN Outside ELSE ScanPart(f[i - 1], text[i])]
  <2>1. \A i \in 0 .. N : f[i] = IF i = 0 THEN Outside ELSE ScanPart(f[i - 1], text[i])
    BY <1>1, <1>5
  <2>2. QED
    BY <2>1
<1>8. \E s : s = [i \in 0 .. N |-> IF i = 0 THEN Outside ELSE ScanPart(s[i - 1], text[i])]
  BY <1>7
<1>9. Scan(text) = CHOOSE s : s = [i \in 0 .. N |-> IF i = 0 THEN Outside
                                                     ELSE ScanPart(s[i - 1], text[i])]
  BY DEF Scan
<1>10. QED
  BY <1>8, <1>9

(* One part, outside of strings. *)
LEMMA ScanUnquoted ==
  ASSUME NEW d \in Nat, NEW part
  PROVE  LET before == [quoted |-> FALSE, depth |-> d]
         IN /\ part.kind = "open" =>
                 ScanPart(before, part) = [quoted |-> FALSE, depth |-> d + 1]
            /\ part.kind = "close" =>
                 ScanPart(before, part) = [quoted |-> FALSE, depth |-> IF d > 0 THEN d - 1 ELSE 0]
            /\ part.kind \in {"bare", "fenced"} => ScanPart(before, part) = before
<1> DEFINE before == [quoted |-> FALSE, depth |-> d]
           after  == CASE part.kind = "open"               -> d + 1
                       [] part.kind = "close" /\ d > 0 -> d - 1
                       [] OTHER                            -> d
<1>1. part.kind # "quote" => ScanPart(before, part) = [before EXCEPT !.depth = after]
  BY DEF ScanPart
<1>2. /\ part.kind = "open" => after = d + 1
      /\ part.kind = "close" => after = IF d > 0 THEN d - 1 ELSE 0
      /\ part.kind \in {"bare", "fenced"} => after = d
  OBVIOUS
<1>3. ASSUME NEW e \in Nat
      PROVE  [before EXCEPT !.depth = e] = [quoted |-> FALSE, depth |-> e]
  <2> DEFINE x == [before EXCEPT !.depth = e]
  <2>1. x \in [quoted : BOOLEAN, depth : Nat] /\ x.quoted = FALSE /\ x.depth = e
    OBVIOUS
  <2> HIDE DEF x
  <2>2. x = [quoted |-> FALSE, depth |-> e]
    BY <2>1
  <2>3. QED
    BY <2>2 DEF x
<1> HIDE DEF after
<1>4. QED
  BY <1>1, <1>2, <1>3

(* Placeholders and closing braces leave the scanner where it was: it is    *)
(* outside of everything when an object with nothing else ahead begins.     *)
LEMMA UndisturbedScan ==
  ASSUME NEW text \in Seq(Parts), NEW i \in DOMAIN text, IsObject(text[i]), Undisturbed(text, i)
  PROVE  i \in BalancedObjects(text)
<1> DEFINE DepthAt(n) == IF n > 0 /\ text[n].kind = "open" THEN 1 ELSE 0
           Behind(n) == [quoted |-> FALSE, depth |-> DepthAt(n)]
           S == {n \in Nat : n < i => Scan(text)[n] = Behind(n)}
<1>1. Len(text) \in Nat /\ i \in 1 .. Len(text) /\ DOMAIN text = 1 .. Len(text)
  OBVIOUS
<1>2. \A n \in 0 .. Len(text) : Scan(text)[n] = IF n = 0 THEN Outside
                                                ELSE ScanPart(Scan(text)[n - 1], text[n])
  BY ScanUnfolds
<1>3. 0 \in S
  BY <1>1, <1>2 DEF Outside
<1>4. ASSUME NEW n \in Nat, n \in S PROVE n + 1 \in S
  <2>1. SUFFICES ASSUME n + 1 < i PROVE Scan(text)[n + 1] = Behind(n + 1)
    OBVIOUS
  <2>2. Scan(text)[n + 1] = ScanPart(Behind(n), text[n + 1])
    BY <1>1, <1>2, <1>4, <2>1
  <2>3. text[n + 1].kind \in {"bare", "fenced", "open", "close"}
    <3>1. n + 1 \in 1 .. (i - 1) /\ text[n + 1] \in Parts
      BY <1>1, <2>1
    <3>2. text[n + 1].kind # "quote"
      BY <3>1 DEF Undisturbed
    <3>3. QED
      BY <3>1, <3>2 DEF Parts, Marks
  <2>4. n > 0 /\ text[n].kind = "open" => text[n + 1].kind = "close"
    BY <1>1, <2>1 DEF Undisturbed
  <2>5. DepthAt(n) \in {0, 1} /\ (text[n + 1].kind # "close" => DepthAt(n) = 0)
    BY <2>4
  <2>6. DepthAt(n) \in Nat
    BY <2>5
  <2>7. DepthAt(n + 1) = IF text[n + 1].kind = "open" THEN 1 ELSE 0
    OBVIOUS
  <2> HIDE DEF DepthAt
  <2>8. CASE text[n + 1].kind = "open"
    <3>1. DepthAt(n) = 0 /\ DepthAt(n + 1) = DepthAt(n) + 1
      BY <2>5, <2>7, <2>8
    <3>2. QED
      BY <2>2, <2>8, <3>1, ScanUnquoted
  <2>9. CASE text[n + 1].kind = "close"
    <3>1. DepthAt(n + 1) = IF DepthAt(n) > 0 THEN DepthAt(n) - 1 ELSE 0
      BY <2>5, <2>7, <2>9
    <3>2. ScanPart(Behind(n), text[n + 1]) =
            [quoted |-> FALSE, depth |-> IF DepthAt(n) > 0 THEN DepthAt(n) - 1 ELSE 0]
      BY <2>6, <2>9, ScanUnquoted
    <3>3. QED
      BY <2>2, <3>1, <3>2
  <2>10. CASE text[n + 1].kind \in {"bare", "fenced"}
    <3>1. DepthAt(n + 1) = DepthAt(n)
      BY <2>5, <2>7, <2>10
    <3>2. ScanPart(Behind(n), text[n + 1]) = Behind(n)
      BY <2>6, <2>10, ScanUnquoted
    <3>3. QED
      BY <2>2, <3>1, <3>2
  <2>11. QED
    BY <2>3, <2>8, <2>9, <2>10
<1>5. Nat \subseteq S
  <2> HIDE DEF S
  <2>1. QED
    BY <1>3, <1>4, AllNumbers
<1>6. i - 1 \in Nat /\ Scan(text)[i - 1] = Behind(i - 1)
  BY <1>1, <1>5
<1>7. ~(i - 1 > 0 /\ text[i - 1].kind = "open")
  BY <1>1 DEF Undisturbed, IsObject
<1>8. Scan(text)[i - 1] = Outside
  BY <1>6, <1>7 DEF Outside
<1>9. QED
  BY <1>8 DEF BalancedObjects

(* A quotation mark begins or ends a string; nothing else is read in one.   *)
LEMMA ScanStrings ==
  ASSUME NEW q \in BOOLEAN, NEW d \in Nat, NEW part
  PROVE  LET before == [quoted |-> q, depth |-> d]
         IN /\ part.kind = "quote" => ScanPart(before, part) = [quoted |-> ~q, depth |-> d]
            /\ part.kind # "quote" /\ q => ScanPart(before, part) = before
<1> DEFINE before == [quoted |-> q, depth |-> d]
<1>1. part.kind = "quote" => ScanPart(before, part) = [before EXCEPT !.quoted = ~before.quoted]
  BY Zenon DEF ScanPart
<1>2. ASSUME NEW p \in BOOLEAN
      PROVE  [before EXCEPT !.quoted = p] = [quoted |-> p, depth |-> d]
  <2> DEFINE x == [before EXCEPT !.quoted = p]
  <2>1. x \in [quoted : BOOLEAN, depth : Nat] /\ x.quoted = p /\ x.depth = d
    OBVIOUS
  <2> HIDE DEF x
  <2>2. x = [quoted |-> p, depth |-> d]
    BY <2>1
  <2>3. QED
    BY <2>2 DEF x
<1>3. before.quoted = q
  OBVIOUS
<1>4. (~q) \in BOOLEAN
  OBVIOUS
<1>5. part.kind # "quote" /\ before.quoted => ScanPart(before, part) = before
  BY DEF ScanPart
<1> HIDE DEF before
<1>6. part.kind = "quote" => ScanPart(before, part) = [quoted |-> ~q, depth |-> d]
  <2>1. [before EXCEPT !.quoted = ~q] = [quoted |-> ~q, depth |-> d]
    BY <1>2, <1>4, Zenon
  <2>2. QED
    BY <1>1, <1>3, <2>1, Zenon
<1>7. QED
  BY <1>3, <1>5, <1>6, Zenon DEF before

(* Whether the scanner is in a string is a matter of how many quotation     *)
(* marks it has read, odd or even: nothing of what is hidden is read.       *)
LEMMA HiddenIsNotScanned ==
  ASSUME NEW text \in Seq(Parts), NEW i \in DOMAIN text, Hidden(text, i)
  PROVE  i \notin BalancedObjects(text)
<1> DEFINE Quotes(n) == {j \in 1 .. n : text[j].kind = "quote"}
           Odd(n) == Cardinality(Quotes(n)) % 2 = 1
           Behind(n, d) == [quoted |-> Odd(n), depth |-> d]
           Follows(n) == IsFiniteSet(Quotes(n)) /\ \E d \in Nat : Scan(text)[n] = Behind(n, d)
           S == {n \in Nat : n <= Len(text) => Follows(n)}
<1>1. Len(text) \in Nat /\ i \in 1 .. Len(text) /\ DOMAIN text = 1 .. Len(text)
  OBVIOUS
<1>2. \A n \in 0 .. Len(text) : Scan(text)[n] = IF n = 0 THEN Outside
                                                ELSE ScanPart(Scan(text)[n - 1], text[n])
  BY ScanUnfolds
<1>3. Follows(0)
  <2>1. Quotes(0) = {}
    OBVIOUS
  <2>2. IsFiniteSet(Quotes(0)) /\ Cardinality(Quotes(0)) = 0
    BY <2>1, FS_EmptySet
  <2>3. Odd(0) = FALSE
    BY <2>2
  <2>4. Scan(text)[0] = [quoted |-> FALSE, depth |-> 0]
    BY <1>1, <1>2 DEF Outside
  <2> HIDE DEF Odd, Quotes
  <2>5. QED
    BY <2>2, <2>3, <2>4
<1>4. ASSUME NEW n \in Nat, n + 1 <= Len(text), Follows(n)
      PROVE  Follows(n + 1)
  <2> DEFINE part == text[n + 1]
             size == Cardinality(Quotes(n))
  <2>1. PICK d \in Nat : Scan(text)[n] = Behind(n, d)
    BY <1>4
  <2>2. IsFiniteSet(Quotes(n)) /\ size \in Nat
    BY <1>4, FS_CardinalityType
  <2>3. Scan(text)[n + 1] = ScanPart(Behind(n, d), part)
    BY <1>1, <1>2, <1>4, <2>1
  <2>4. Odd(n) \in BOOLEAN
    OBVIOUS
  <2>5. CASE part.kind = "quote"
    <3>1. Quotes(n + 1) = Quotes(n) \cup {n + 1} /\ n + 1 \notin Quotes(n)
      BY <2>5
    <3>2. IsFiniteSet(Quotes(n + 1)) /\ Cardinality(Quotes(n + 1)) = size + 1
      <4> HIDE DEF Quotes
      <4>1. QED
        BY <2>2, <3>1, FS_AddElement
    <3>3. (size + 1) % 2 = 1 <=> ~(size % 2 = 1)
      BY <2>2
    <3>4. Odd(n + 1) = ~Odd(n)
      BY <3>2, <3>3
    <3> HIDE DEF Odd, Quotes, part
    <3>5. Scan(text)[n + 1] = [quoted |-> ~Odd(n), depth |-> d]
      <4>1. ScanPart([quoted |-> Odd(n), depth |-> d], part) = [quoted |-> ~Odd(n), depth |-> d]
        BY <2>4, <2>5, ScanStrings, Zenon
      <4>2. QED
        BY <2>3, <4>1, Zenon
    <3>6. QED
      BY <3>2, <3>4, <3>5
  <2>6. CASE part.kind # "quote"
    <3>1. Quotes(n + 1) = Quotes(n)
      BY <2>6
    <3>2. Odd(n + 1) = Odd(n)
      BY <3>1
    <3>3. part.kind \in {"bare", "fenced", "open", "close"}
      BY <1>1, <1>4, <2>6 DEF Parts, Marks
    <3> HIDE DEF Odd, Quotes, part
    <3>4. ASSUME NEW e \in Nat, Scan(text)[n + 1] = [quoted |-> Odd(n), depth |-> e]
          PROVE  Follows(n + 1)
      BY <2>2, <3>1, <3>2, <3>4
    <3> HIDE DEF Follows
    <3>5. CASE Odd(n)
      <4>1. ScanPart([quoted |-> Odd(n), depth |-> d], part) = [quoted |-> Odd(n), depth |-> d]
        BY <2>4, <2>6, <3>5, ScanStrings, Zenon
      <4>2. Scan(text)[n + 1] = [quoted |-> Odd(n), depth |-> d]
        BY <2>3, <4>1, Zenon
      <4>3. QED
        BY <3>4, <4>2, Zenon
    <3>6. CASE ~Odd(n)
      <4>1. Odd(n) = FALSE
        BY <2>4, <3>6
      <4>2. Scan(text)[n + 1] = ScanPart([quoted |-> FALSE, depth |-> d], part)
        BY <2>3, <4>1, Zenon
      <4>3. PICK e \in Nat : ScanPart([quoted |-> FALSE, depth |-> d], part) =
                              [quoted |-> FALSE, depth |-> e]
        <5>1. d + 1 \in Nat /\ (IF d > 0 THEN d - 1 ELSE 0) \in Nat
          OBVIOUS
        <5>2. CASE part.kind = "open"
          BY <5>1, <5>2, ScanUnquoted
        <5>3. CASE part.kind = "close"
          BY <5>1, <5>3, ScanUnquoted
        <5>4. CASE part.kind \in {"bare", "fenced"}
          BY <5>4, ScanUnquoted
        <5>5. QED
          BY <3>3, <5>2, <5>3, <5>4
      <4>4. Scan(text)[n + 1] = [quoted |-> Odd(n), depth |-> e]
        BY <4>1, <4>2, <4>3, Zenon
      <4>5. QED
        BY <3>4, <4>4, Zenon
    <3>7. QED
      BY <3>5, <3>6
  <2>7. QED
    BY <2>5, <2>6
<1>5. Nat \subseteq S
  <2> HIDE DEF Follows
  <2>1. 0 \in S
    BY <1>3
  <2>2. \A n \in Nat : n \in S => n + 1 \in S
    BY <1>1, <1>4
  <2> HIDE DEF S
  <2>3. QED
    BY <2>1, <2>2, AllNumbers
<1>6. Scan(text)[i - 1].quoted
  <2>1. i - 1 \in Nat /\ i - 1 <= Len(text) /\ Odd(i - 1)
    BY <1>1 DEF Hidden
  <2>2. Follows(i - 1)
    BY <1>5, <2>1
  <2> HIDE DEF Odd
  <2>3. QED
    BY <2>1, <2>2
<1>7. QED
  BY <1>6 DEF BalancedObjects, Outside

-----------------------------------------------------------------------------
(* The candidates. *)

Places(text) == (1 .. 4) \X DOMAIN text

(* Whatever the way of reading, a candidate is an object of the response.   *)
LEMMA CandidatesAreObjects ==
  ASSUME NEW text \in Seq(Parts)
  PROVE  /\ JsonCandidates(text) \subseteq Places(text)
         /\ \A c \in JsonCandidates(text) : IsObject(text[c[2]]) /\ text[c[2]].object \in Objects
<1>1. Fenced(text) \cup Widest(text) \cup BalancedObjects(text) \cup Whole(text) \subseteq
        {i \in DOMAIN text : IsObject(text[i])}
  BY DEF Fenced, Widest, BalancedObjects, Whole, IsObject
<1>2. JsonCandidates(text) \subseteq (1 .. 4) \X {i \in DOMAIN text : IsObject(text[i])}
  BY <1>1 DEF JsonCandidates
<1>3. \A i \in DOMAIN text : IsObject(text[i]) => text[i].object \in Objects
  BY DEF Parts, IsObject, Marks
<1>4. QED
  BY <1>2, <1>3 DEF Places

(* Candidates have a last one: of those read in the last way, the one that  *)
(* stands last.                                                             *)
LEMMA LatestExists ==
  ASSUME NEW text \in Seq(Parts), NEW cs, cs \subseteq Places(text), cs # {}
  PROVE  Latest(cs) \in cs /\ \A d \in cs : InOrder(d, Latest(cs))
<1>1. \A c \in cs : c[1] \in 1 .. 4 /\ c[2] \in 1 .. Len(text) /\ c = <<c[1], c[2]>>
  BY DEF Places
<1>2. PICK k \in {c[1] : c \in cs} : \A j \in {c[1] : c \in cs} : j <= k
  <2>1. {c[1] : c \in cs} \subseteq Nat /\ \A s \in {c[1] : c \in cs} : s <= 4
    BY <1>1
  <2>2. {c[1] : c \in cs} # {}
    OBVIOUS
  <2>3. QED
    BY <2>1, <2>2, GreatestNumber
<1>3. DEFINE row == {c \in cs : c[1] = k}
<1>4. PICK i \in {c[2] : c \in row} : \A j \in {c[2] : c \in row} : j <= i
  <2>1. /\ {c[2] : c \in row} \subseteq Nat
        /\ \A s \in {c[2] : c \in row} : s <= Len(text)
        /\ Len(text) \in Nat
    BY <1>1
  <2>2. {c[2] : c \in row} # {}
    BY <1>2
  <2>3. QED
    BY <2>1, <2>2, GreatestNumber
<1>5. PICK c \in cs : c[1] = k /\ c[2] = i
  BY <1>4
<1>6. \A d \in cs : InOrder(d, c)
  <2>1. TAKE d \in cs
  <2>2. d[1] <= k /\ (d[1] = k => d[2] <= i) /\ d[1] \in Nat /\ k \in Nat
    BY <1>1, <1>2, <1>4
  <2>3. QED
    BY <1>5, <2>2 DEF InOrder
<1>7. QED
  BY <1>6 DEF Latest

(* ... and a first one. *)
LEMMA EarliestExists ==
  ASSUME NEW text \in Seq(Parts), NEW cs, cs \subseteq Places(text), cs # {}
  PROVE  Earliest(cs) \in cs /\ \A d \in cs : InOrder(Earliest(cs), d)
<1>1. \A c \in cs : c[1] \in 1 .. 4 /\ c[2] \in 1 .. Len(text) /\ c = <<c[1], c[2]>>
  BY DEF Places
<1>2. PICK k \in {c[1] : c \in cs} : \A j \in {c[1] : c \in cs} : k <= j
  <2>1. {c[1] : c \in cs} \subseteq Nat /\ {c[1] : c \in cs} # {}
    BY <1>1
  <2>2. QED
    BY <2>1, LeastNumber
<1>3. DEFINE row == {c \in cs : c[1] = k}
<1>4. PICK i \in {c[2] : c \in row} : \A j \in {c[2] : c \in row} : i <= j
  <2>1. {c[2] : c \in row} \subseteq Nat
    BY <1>1
  <2>2. {c[2] : c \in row} # {}
    BY <1>2
  <2>3. QED
    BY <2>1, <2>2, LeastNumber
<1>5. PICK c \in cs : c[1] = k /\ c[2] = i
  BY <1>4
<1>6. \A d \in cs : InOrder(c, d)
  <2> TAKE d \in cs
  <2>1. d[1] \in 1 .. 4 /\ k \in 1 .. 4
    <3>1. PICK e \in cs : k = e[1]
      BY <1>2
    <3>2. QED
      BY <1>1, <3>1
  <2>2. k <= d[1]
    BY <1>2
  <2>3. d[1] = k => i <= d[2]
    BY <1>4
  <2>4. QED
    BY <1>5, <2>1, <2>2, <2>3 DEF InOrder
<1>7. QED
  BY <1>6 DEF Earliest

-----------------------------------------------------------------------------
(* The reading of a response. *)

(* What is parsed is an object of the response that the schema accepts; if  *)
(* nothing is, the faults are those of an object of the response that it    *)
(* refuses, or there was no object to be read.                              *)
THEOREM ReadingIsOfTheResponse ==
  ASSUME NEW text \in Seq(Parts)
  PROVE  /\ ParseOrFaults(text).parsed # None =>
              \E i \in DOMAIN text : /\ ParseOrFaults(text).parsed = text[i].object
                                     /\ text[i].object \in Valid
         /\ ParseOrFaults(text).parsed = None =>
              IF JsonCandidates(text) = {} THEN ParseOrFaults(text).faults = UNPARSEABLE
              ELSE \E i \in DOMAIN text : /\ ParseOrFaults(text).faults = text[i].object
                                          /\ text[i].object \in Objects \ Valid
         /\ ParseOrFaults(text).parsed = None <=> Accepts(text, JsonCandidates(text)) = {}
<1> DEFINE cs == JsonCandidates(text)
           accepted == Accepts(text, cs)
<1>1. cs \subseteq Places(text) /\ \A c \in cs : text[c[2]].object \in Objects
  BY CandidatesAreObjects
<1>2. accepted \subseteq cs /\ \A c \in cs : c \in accepted <=> text[c[2]].object \in Valid
  BY DEF Accepts
<1>3. \A c \in Places(text) : c[2] \in DOMAIN text
  BY DEF Places
<1> HIDE DEF cs, accepted
<1>4. ParseOrFaults(text) =
        IF cs = {} THEN [parsed |-> None, faults |-> UNPARSEABLE]
        ELSE IF accepted # {} THEN [parsed |-> text[Latest(accepted)[2]].object, faults |-> None]
        ELSE [parsed |-> None, faults |-> text[Earliest(cs)[2]].object]
  BY DEF ParseOrFaults, cs, accepted
<1>5. CASE accepted = {}
  <2>1. ParseOrFaults(text).parsed = None
    BY <1>4, <1>5
  <2>2. cs = {} => ParseOrFaults(text).faults = UNPARSEABLE
    BY <1>4
  <2>3. ASSUME cs # {}
        PROVE  \E i \in DOMAIN text : /\ ParseOrFaults(text).faults = text[i].object
                                      /\ text[i].object \in Objects \ Valid
    <3>1. Earliest(cs) \in cs
      BY <1>1, <2>3, EarliestExists
    <3>2. ParseOrFaults(text).faults = text[Earliest(cs)[2]].object
      BY <1>4, <1>5, <2>3
    <3>3. QED
      BY <1>1, <1>2, <1>3, <1>5, <3>1, <3>2
  <2>4. QED
    BY <1>5, <2>1, <2>2, <2>3 DEF cs, accepted
<1>6. CASE accepted # {}
  <2>1. Latest(accepted) \in accepted
    BY <1>1, <1>2, <1>6, LatestExists
  <2>2. cs # {} /\ Latest(accepted) \in cs /\ text[Latest(accepted)[2]].object \in Valid
    BY <1>2, <2>1
  <2>3. ParseOrFaults(text).parsed = text[Latest(accepted)[2]].object
    BY <1>4, <1>6, <2>2
  <2>4. ParseOrFaults(text).parsed # None
    BY <2>2, <2>3, HealingAssumptions
  <2>5. QED
    BY <1>1, <1>3, <1>6, <2>2, <2>3, <2>4 DEF cs, accepted
<1>7. QED
  BY <1>5, <1>6

(* The fence is a second way to the answer: the last valid object, alone in *)
(* one, is parsed whatever marks stand around it, if every other valid      *)
(* object is hidden (healing.py:54-84).  The fences are tried last, but     *)
(* those of the other valid objects stand ahead of it; the widest braces    *)
(* hold two objects unless it is the only one, and the scanner sees none of *)
(* the others.                                                              *)
THEOREM LastFencedIsParsed ==
  ASSUME NEW text \in Seq(Parts),
         NEW i \in DOMAIN text, text[i].object \in Valid, text[i].kind = "fenced",
         \A j \in DOMAIN text : text[j].object \in Valid => j <= i,
         \A j \in DOMAIN text : text[j].object \in Valid /\ j # i => Hidden(text, j)
  PROVE  ParseOrFaults(text).parsed = text[i].object
<1> DEFINE accepted == Accepts(text, JsonCandidates(text))
           last == Latest(accepted)
<1>1. <<1, i>> \in accepted
  BY DEF JsonCandidates, Fenced, Accepts
<1>2. accepted \subseteq Places(text) /\ accepted # {}
  BY <1>1, CandidatesAreObjects DEF Accepts
<1>3. last \in accepted /\ InOrder(<<1, i>>, last)
  BY <1>1, <1>2, LatestExists
<1>4. /\ last \in JsonCandidates(text) /\ last \in Places(text)
      /\ text[last[2]].object \in Valid
  BY <1>2, <1>3 DEF Accepts
<1>5. last[1] \in 1 .. 4 /\ last[2] \in DOMAIN text /\ last = <<last[1], last[2]>>
  BY <1>4 DEF Places
<1>6. ParseOrFaults(text).parsed = text[last[2]].object
  BY <1>2, <1>4 DEF ParseOrFaults
<1> HIDE DEF last
<1>7. DOMAIN text = 1 .. Len(text) /\ Len(text) \in Nat
  OBVIOUS
<1>8. last[2] = i
  <2>1. last[2] <= i
    BY <1>4, <1>5
  <2>2. CASE last[1] = 1
    BY <1>3, <1>5, <1>7, <2>1, <2>2 DEF InOrder
  <2>3. CASE last[1] = 2
    <3>1. last[2] \in Widest(text)
      BY <1>4, <1>5, <2>3 DEF JsonCandidates
    <3>2. i <= last[2]
      BY <3>1 DEF Widest, IsObject
    <3>3. QED
      BY <1>5, <1>7, <2>1, <3>2
  <2>4. CASE last[1] = 3
    <3>1. last[2] \in BalancedObjects(text)
      BY <1>4, <1>5, <2>4 DEF JsonCandidates
    <3>2. ~Hidden(text, last[2])
      BY <1>5, <3>1, HiddenIsNotScanned
    <3>3. QED
      BY <1>4, <1>5, <3>2
  <2>5. CASE last[1] = 4
    <3>1. last[2] \in Whole(text)
      BY <1>4, <1>5, <2>5 DEF JsonCandidates
    <3>2. Len(text) = 1
      BY <3>1 DEF Whole
    <3>3. QED
      BY <1>5, <1>7, <3>2
  <2>6. QED
    BY <1>5, <2>2, <2>3, <2>4, <2>5
<1>9. QED
  BY <1>6, <1>8

(* An object with nothing but placeholders and objects ahead of it is a     *)
(* candidate of the scan.                                                   *)
LEMMA UndisturbedIsRead ==
  ASSUME NEW text \in Seq(Parts), NEW i \in DOMAIN text, IsObject(text[i]), Undisturbed(text, i)
  PROVE  <<3, i>> \in JsonCandidates(text)
BY UndisturbedScan DEF JsonCandidates

(* The last valid object is the answer, fenced or not, unless a stray mark  *)
(* stands ahead of it (healing.py:196-200): the scan reads it, what the     *)
(* scan reads after it is not valid, and only a response of one object has  *)
(* any candidate after those.                                               *)
THEOREM LastValidIsParsed ==
  ASSUME NEW text \in Seq(Parts),
         NEW i \in DOMAIN text, text[i].object \in Valid, Undisturbed(text, i),
         \A j \in DOMAIN text : text[j].object \in Valid => j <= i
  PROVE  ParseOrFaults(text).parsed = text[i].object
<1> DEFINE accepted == Accepts(text, JsonCandidates(text))
           last == Latest(accepted)
<1>1. <<3, i>> \in accepted
  <2>1. IsObject(text[i])
    BY HealingAssumptions DEF Parts, IsObject
  <2>2. QED
    BY <2>1, UndisturbedIsRead DEF Accepts
<1>2. accepted \subseteq Places(text) /\ accepted # {}
  BY <1>1, CandidatesAreObjects DEF Accepts
<1>3. last \in accepted /\ InOrder(<<3, i>>, last)
  BY <1>1, <1>2, LatestExists
<1>4. /\ last \in JsonCandidates(text) /\ last \in Places(text)
      /\ text[last[2]].object \in Valid
  BY <1>2, <1>3 DEF Accepts
<1>5. last[1] \in 1 .. 4 /\ last[2] \in DOMAIN text /\ last = <<last[1], last[2]>>
  BY <1>4 DEF Places
<1>6. last[2] <= i
  BY <1>4, <1>5
<1>7. ParseOrFaults(text).parsed = text[last[2]].object
  BY <1>2, <1>4 DEF ParseOrFaults
<1> HIDE DEF last
<1>8. DOMAIN text = 1 .. Len(text) /\ Len(text) \in Nat
  OBVIOUS
<1>9. CASE last[1] <= 3
  <2>1. last[1] = 3 /\ i <= last[2]
    BY <1>3, <1>5, <1>9 DEF InOrder
  <2>2. last[2] = i
    BY <1>5, <1>6, <1>8, <2>1
  <2>3. QED
    BY <1>7, <2>2
<1>10. CASE last[1] = 4
  <2>1. last[2] \in Whole(text)
    BY <1>4, <1>5, <1>10 DEF JsonCandidates
  <2>2. Len(text) = 1
    BY <2>1 DEF Whole
  <2>3. last[2] = i
    BY <1>5, <1>8, <2>2
  <2>4. QED
    BY <1>7, <2>3
<1>11. QED
  BY <1>5, <1>9, <1>10
=============================================================================
