---------------------------- MODULE ArchiveProofs ---------------------------
(***************************************************************************)
(* What reaches the archive is what the messages hold: the walk over a     *)
(* message finds its attachments, for messages of any size, and the stages *)
(* together keep the promise of MailArchive, for any mails, workers and    *)
(* faults.                                                                 *)
(***************************************************************************)
EXTENDS FilingProofs, Archive, WellFoundedInduction

(* Induction up to N, from the least number that is not in S.              *)
LEMMA CountsUp ==
  ASSUME NEW N \in Nat, NEW S \in SUBSET (0 .. N), 0 \in S,
         \A n \in S : n < N => n + 1 \in S
  PROVE  S = 0 .. N
<1> DEFINE T == (0 .. N) \ S
<1> SUFFICES ASSUME T # {} PROVE FALSE
  OBVIOUS
<1>1. PICK x \in T : \A y \in T : ~(<<y, x>> \in OpToRel(<, Nat))
  <2>1. T \subseteq Nat
    OBVIOUS
  <2>. QED
    BY <2>1, WFMin, NatLessThanWellFounded, Zenon
<1>2. /\ x \in Nat /\ x # 0 /\ x - 1 \in 0 .. N /\ x - 1 < N
      /\ x - 1 < x /\ (x - 1) + 1 = x
  OBVIOUS
<1>3. x - 1 \notin T
  <2>1. x - 1 \in Nat /\ x - 1 < x
    BY <1>2
  <2>2. <<x - 1, x>> \in OpToRel(<, Nat)
    BY <1>2, <2>1, Zenon DEF OpToRel
  <2>. QED
    BY <1>1, <2>2, Zenon
<1>. QED
  BY <1>2, <1>3

(* A function that is the walk (mime.go:64) over the first n parts.        *)
Walk(parts, g, n) ==
  g = [i \in 0 .. n |-> IF i = 0 THEN Nothing ELSE walkPart(parts, g[i-1], i)]

(* There is such a function for the whole message, so what the recursive   *)
(* definition chooses is one.                                              *)
LEMMA WalkDefined ==
  ASSUME NEW parts \in Seq(Part)
  PROVE  walk(parts) = [i \in 0 .. Len(parts) |->
           IF i = 0 THEN Nothing ELSE walkPart(parts, walk(parts)[i-1], i)]
<1> DEFINE N == Len(parts)
           S == {n \in 0 .. N : \E g : Walk(parts, g, n)}
<1>1. 0 \in S
  <2> DEFINE g == [i \in 0 .. 0 |-> Nothing]
  <2>1. Walk(parts, g, 0)
    BY DEF Walk
  <2>. QED
    BY <2>1
<1>2. ASSUME NEW n \in S, n < N PROVE n + 1 \in S
  <2>1. PICK g : Walk(parts, g, n)
    OBVIOUS
  <2> DEFINE last == walkPart(parts, g[n], n + 1)
             h == [i \in 0 .. n + 1 |-> IF i = n + 1 THEN last ELSE g[i]]
  <2>2. Walk(parts, h, n + 1)
    <3>1. \A i \in 0 .. n :
            g[i] = IF i = 0 THEN Nothing ELSE walkPart(parts, g[i-1], i)
      BY <2>1 DEF Walk
    <3> HIDE DEF last
    <3>2. \A i \in 0 .. n + 1 :
            h[i] = IF i = 0 THEN Nothing ELSE walkPart(parts, h[i-1], i)
      <4> SUFFICES ASSUME NEW i \in 0 .. n + 1
                   PROVE  h[i] = IF i = 0 THEN Nothing ELSE walkPart(parts, h[i-1], i)
        OBVIOUS
      <4>1. CASE i = n + 1
        <5>1. /\ h[i] = last /\ i # 0 /\ i - 1 \in 0 .. n + 1 /\ i - 1 # n + 1
              /\ i - 1 = n /\ h[i-1] = g[n]
          BY <4>1
        <5>. QED BY <4>1, <5>1 DEF last
      <4>2. CASE i # n + 1
        BY <3>1, <4>2
      <4>. QED BY <4>1, <4>2
    <3>. QED
      BY <3>2 DEF Walk
  <2>. QED
    BY <2>2
<1>3. N \in S
  <2>1. S = 0 .. N
    <3> HIDE DEF S
    <3>1. S \in SUBSET (0 .. N)
      BY DEF S
    <3>. QED
      BY <1>1, <1>2, <3>1, CountsUp
  <2>2. N \in 0 .. N
    OBVIOUS
  <2>. QED
    BY <2>1, <2>2
<1>4. \E g : Walk(parts, g, N)
  BY <1>3
<1>. QED
  BY <1>4 DEF walk, Walk

-----------------------------------------------------------------------------
(* The invariant of the walk: after n parts it has found what there is to  *)
(* find among them.                                                        *)

Before(S, n) == {i \in S : i <= n}

IsFirst(i, S) == IF S = {} THEN i = 0 ELSE i \in S /\ \A j \in S : i <= j

Finding == [attachments : Seq(Nat), html : Nat, text : Nat,
            failed : BOOLEAN, inside : Nat]

(* Where the walk is after part n: at a part it has walked, or among the   *)
(* parts of an attachment.                                                 *)
Whereabouts(parts, out, n) ==
  IF out.inside = 0
  THEN n = 0 \/ (n \in Reached(parts) /\ ~IsAttachment(parts[n]))
  ELSE \E j \in AttachedParts(parts) :
         /\ j <= n /\ parts[j].depth = out.inside
         /\ \A k \in (j+1)..n : parts[k].depth > out.inside

FoundTo(parts, out, n) ==
  /\ out \in Finding
  /\ out.failed <=> \E i \in Before(Reached(parts), n) : ~parts[i].sound
  /\ ~out.failed =>
       /\ Whereabouts(parts, out, n)
       /\ Enumerates(out.attachments, Before(AttachedParts(parts), n))
       /\ IsFirst(out.html, Before(BodyParts(parts, "text/html"), n))
       /\ IsFirst(out.text, Before(BodyParts(parts, "text/plain"), n))

(* A part of a message has a depth, 1 or more.                             *)
LEMMA PartFacts ==
  ASSUME NEW parts, MessageOK(parts), NEW i \in 1 .. Len(parts)
  PROVE  /\ parts[i] \in Part /\ parts[i].depth \in Nat \ {0}
         /\ DOMAIN parts = 1 .. Len(parts) /\ Len(parts) \in Nat
<1>1. parts \in Seq(Part)
  BY DEF MessageOK
<1>2. parts[i] \in Part /\ DOMAIN parts = 1 .. Len(parts) /\ Len(parts) \in Nat
  BY <1>1
<1>3. parts[i].depth \in Nat
  BY <1>2 DEF Part
<1>4. CASE i = 1
  <2>1. parts[1].depth = 1
    BY Zenon DEF MessageOK
  <2>. QED
    BY <1>2, <1>4, <2>1
<1>5. CASE i # 1
  <2>1. i \in DOMAIN parts /\ i > 1
    BY <1>2, <1>5
  <2>2. parts[i].depth >= 2
    BY <2>1, Zenon DEF MessageOK
  <2>. QED
    BY <1>2, <1>3, <2>2
<1>. QED
  BY <1>4, <1>5

(* The walk passes over a part exactly if an attachment contains it.       *)
LEMMA SkipsInside ==
  ASSUME NEW parts, MessageOK(parts), NEW n \in Nat, n < Len(parts),
         NEW out \in Finding, ~out.failed, Whereabouts(parts, out, n)
  PROVE  Skipped(out, parts[n+1]) <=> n + 1 \notin Reached(parts)
<1> DEFINE d(i) == parts[i].depth
           N == Len(parts)
<1>1. /\ \A i \in 1 .. N : d(i) \in Nat \ {0}
      /\ DOMAIN parts = 1 .. N /\ N \in Nat /\ n + 1 \in 1 .. N
      /\ n # 0 => n \in 1 .. N
  <2>1. parts \in Seq(Part)
    BY DEF MessageOK
  <2>2. Len(parts) \in Nat /\ DOMAIN parts = 1 .. Len(parts)
    BY <2>1
  <2>. QED
    BY <2>2, PartFacts
<1>2. out.inside \in Nat
  BY DEF Finding
<1>3. CASE out.inside = 0
  <2>1. ~Skipped(out, parts[n+1])
    BY <1>3 DEF Skipped
  <2>2. ASSUME NEW i \in Above(parts, n + 1) PROVE ~IsAttachment(parts[i])
    <3>1. i \in 1 .. n /\ \A k \in (i+1) .. (n+1) : d(k) > d(i)
      BY <2>2 DEF Above
    <3>2. n \in Reached(parts) /\ ~IsAttachment(parts[n])
      BY <1>3, <3>1 DEF Whereabouts
    <3>3. CASE i = n
      BY <3>2, <3>3
    <3>4. CASE i # n
      <4>1. i \in 1 .. (n - 1) /\ \A k \in (i+1) .. n : d(k) > d(i)
        BY <3>1, <3>4
      <4>2. i \in Above(parts, n)
        BY <4>1 DEF Above
      <4>. QED
        BY <3>2, <4>2 DEF Reached
    <3>. QED
      BY <3>3, <3>4
  <2>. QED
    BY <1>1, <2>1, <2>2 DEF Reached
<1>4. CASE out.inside # 0
  <2>1. PICK j \in AttachedParts(parts) :
          /\ j <= n /\ d(j) = out.inside
          /\ \A k \in (j+1) .. n : d(k) > out.inside
    BY <1>4 DEF Whereabouts
  <2>2. j \in 1 .. n /\ IsAttachment(parts[j]) /\ j \in Reached(parts)
    BY <1>1, <2>1 DEF AttachedParts, Reached
  <2>3. Skipped(out, parts[n+1]) <=> d(n+1) > out.inside
    BY <1>4 DEF Skipped
  <2>4. CASE d(n+1) > out.inside
    <3>1. \A k \in (j+1) .. (n+1) : d(k) > d(j)
      <4> SUFFICES ASSUME NEW k \in (j+1) .. (n+1) PROVE d(k) > d(j)
        OBVIOUS
      <4>1. k \in (j+1) .. n \/ k = n + 1
        BY <2>2
      <4>. QED
        BY <2>1, <2>4, <4>1
    <3>2. j \in Above(parts, n + 1)
      BY <2>2, <3>1 DEF Above
    <3>. QED
      BY <2>2, <2>3, <2>4, <3>2 DEF Reached
  <2>5. CASE ~(d(n+1) > out.inside)
    <3>1. ASSUME NEW i \in Above(parts, n + 1), IsAttachment(parts[i]) PROVE FALSE
      <4>1. i \in 1 .. n /\ \A k \in (i+1) .. (n+1) : d(k) > d(i)
        BY <3>1 DEF Above
      <4>2. d(n+1) > d(i)
        BY <4>1
      <4>3. i # j
        BY <2>1, <2>5, <4>2
      <4>4. ~(i < j)
        <5> SUFFICES ASSUME i < j PROVE FALSE
          OBVIOUS
        <5>1. i \in 1 .. (j - 1) /\ \A k \in (i+1) .. j : d(k) > d(i)
          BY <2>2, <4>1
        <5>2. i \in Above(parts, j)
          BY <5>1 DEF Above
        <5>. QED
          BY <2>2, <3>1, <5>2 DEF Reached
      <4>5. i \in (j+1) .. n
        BY <2>2, <4>1, <4>3, <4>4
      <4>6. d(i) > out.inside
        BY <2>1, <4>5
      <4>. QED
        BY <1>1, <1>2, <2>5, <4>1, <4>2, <4>6
    <3>2. n + 1 \in Reached(parts)
      BY <1>1, <3>1 DEF Reached
    <3>. QED
      BY <2>3, <2>5, <3>2
  <2>. QED
    BY <2>4, <2>5
<1>. QED
  BY <1>3, <1>4

(* One more number.                                                        *)
LEMMA BeforeNext ==
  ASSUME NEW S \in SUBSET Nat, NEW n \in Nat
  PROVE  Before(S, n + 1) = IF n + 1 \in S THEN Before(S, n) \cup {n + 1}
                                           ELSE Before(S, n)
<1>1. \A j \in S : j <= n + 1 <=> j <= n \/ j = n + 1
  OBVIOUS
<1>2. CASE n + 1 \in S
  BY <1>1, <1>2, Zenon DEF Before
<1>3. CASE n + 1 \notin S
  BY <1>1, <1>3, Zenon DEF Before
<1>. QED
  BY <1>2, <1>3

(* What is first so far stays first; a part is first if there was none.    *)
LEMMA FirstSoFar ==
  ASSUME NEW S \in SUBSET Nat, NEW n \in Nat, NEW i \in Nat, 0 \notin S,
         IsFirst(i, Before(S, n))
  PROVE  /\ n + 1 \notin S \/ i # 0 => IsFirst(i, Before(S, n + 1))
         /\ n + 1 \in S /\ i = 0 => IsFirst(n + 1, Before(S, n + 1))
<1>1. i = 0 <=> Before(S, n) = {}
  BY DEF IsFirst, Before
<1>2. n + 1 \notin S => Before(S, n + 1) = Before(S, n)
  BY BeforeNext
<1>3. n + 1 \in S => Before(S, n + 1) = Before(S, n) \cup {n + 1}
  BY BeforeNext
<1>4. \A j \in Before(S, n) : j \in Nat /\ j < n + 1
  BY DEF Before
<1>5. CASE n + 1 \notin S
  BY <1>2, <1>5
<1>6. CASE n + 1 \in S /\ i # 0
  BY <1>1, <1>3, <1>4, <1>6 DEF IsFirst
<1>7. CASE n + 1 \in S /\ i = 0
  BY <1>1, <1>3, <1>7 DEF IsFirst
<1>. QED
  BY <1>5, <1>6, <1>7

(* The next element is appended.                                           *)
LEMMA EnumeratesNext ==
  ASSUME NEW S \in SUBSET Nat, NEW n \in Nat, NEW s \in Seq(Nat),
         Enumerates(s, Before(S, n))
  PROVE  /\ n + 1 \notin S => Enumerates(s, Before(S, n + 1))
         /\ n + 1 \in S => Enumerates(Append(s, n + 1), Before(S, n + 1))
<1>1. n + 1 \notin S => Before(S, n + 1) = Before(S, n)
  BY BeforeNext
<1>2. ASSUME n + 1 \in S PROVE Enumerates(Append(s, n + 1), Before(S, n + 1))
  <2> DEFINE t == Append(s, n + 1)
  <2>1. /\ t \in Seq(Nat) /\ Len(t) = Len(s) + 1 /\ t[Len(s) + 1] = n + 1
        /\ \A k \in 1 .. Len(s) : t[k] = s[k]
        /\ DOMAIN t = 1 .. (Len(s) + 1) /\ DOMAIN s = 1 .. Len(s) /\ Len(s) \in Nat
    OBVIOUS
  <2> HIDE DEF t
  <2>2. \A k \in 1 .. Len(s) : s[k] \in Nat /\ s[k] \in S /\ s[k] < n + 1
    <3>1. \A k \in DOMAIN s : s[k] \in Before(S, n)
      BY DEF Enumerates
    <3>2. \A j \in Before(S, n) : j \in Nat /\ j \in S /\ j < n + 1
      BY DEF Before
    <3>. QED
      BY <2>1, <3>1, <3>2
  <2>3. \A k, l \in DOMAIN t : k < l => t[k] < t[l]
    <3> SUFFICES ASSUME NEW k \in DOMAIN t, NEW l \in DOMAIN t, k < l
                 PROVE  t[k] < t[l]
      OBVIOUS
    <3>1. k \in 1 .. Len(s)
      BY <2>1
    <3>2. CASE l = Len(s) + 1
      BY <2>1, <2>2, <3>1, <3>2
    <3>3. CASE l # Len(s) + 1
      <4>1. l \in 1 .. Len(s)
        BY <2>1, <3>3
      <4>. QED
        BY <2>1, <3>1, <4>1 DEF Enumerates
    <3>. QED
      BY <3>2, <3>3
  <2>4. {t[k] : k \in DOMAIN t} \subseteq Before(S, n + 1)
    <3> SUFFICES ASSUME NEW k \in DOMAIN t PROVE t[k] \in Before(S, n + 1)
      OBVIOUS
    <3>1. k \in 1 .. Len(s) \/ k = Len(s) + 1
      BY <2>1
    <3>. QED
      BY <1>2, <2>1, <2>2, <3>1 DEF Before
  <2>5. ASSUME NEW i \in Before(S, n + 1) PROVE \E k \in DOMAIN t : t[k] = i
    <3>1. CASE i = n + 1
      BY <2>1, <3>1
    <3>2. CASE i # n + 1
      <4>1. i \in Before(S, n)
        BY <3>2 DEF Before
      <4>2. PICK k \in DOMAIN s : s[k] = i
        BY <4>1 DEF Enumerates
      <4>. QED
        BY <2>1, <4>2
    <3>. QED
      BY <3>1, <3>2
  <2>. QED
    BY <2>3, <2>4, <2>5 DEF Enumerates, t
<1>. QED
  BY <1>1, <1>2

(* What one step of the walk does, for a part it reaches and for others.   *)
Effect(p, i, out, new) ==
  /\ Skipped(out, p) => new = out
  /\ ~Skipped(out, p) =>
       /\ new.failed = ~p.sound
       /\ p.sound =>
            /\ new.inside = IF IsAttachment(p) THEN p.depth ELSE 0
            /\ new.attachments = IF IsAttachment(p) THEN Append(out.attachments, i)
                                                    ELSE out.attachments
            /\ new.html = IF /\ ~IsAttachment(p) /\ ~p.empty
                             /\ p.type = "text/html" /\ out.html = 0
                          THEN i ELSE out.html
            /\ new.text = IF /\ ~IsAttachment(p) /\ ~p.empty
                             /\ p.type = "text/plain" /\ out.text = 0
                          THEN i ELSE out.text

(* walkPart (mime.go:64-145) has that effect, whichever case applies.      *)
LEMMA StepEffect ==
  ASSUME NEW parts, MessageOK(parts), NEW i \in 1 .. Len(parts),
         NEW out \in Finding
  PROVE  /\ walkPart(parts, out, i) \in Finding
         /\ Effect(parts[i], i, out, walkPart(parts, out, i))
<1> DEFINE p   == parts[i]
           new == walkPart(parts, out, i)
           here == [out EXCEPT !.inside = 0]
<1>1. p \in Part /\ i \in Nat
  BY PartFacts
<1>2. /\ p.depth \in Nat /\ p.type \in Types /\ p.empty \in BOOLEAN
      /\ p.sound \in BOOLEAN
  BY <1>1 DEF Part
<1>3. /\ out.attachments \in Seq(Nat) /\ out.html \in Nat /\ out.text \in Nat
      /\ out.failed \in BOOLEAN /\ out.inside \in Nat
  BY DEF Finding
<1>4. /\ here \in Finding /\ here.inside = 0 /\ here.attachments = out.attachments
      /\ here.html = out.html /\ here.text = out.text /\ here.failed = out.failed
  BY DEF Finding
<1> DEFINE broken == [here EXCEPT !.failed = TRUE]
<1>5. broken \in Finding /\ broken.failed = TRUE
  BY <1>4 DEF Finding
<1>6. CASE Skipped(out, p)
  BY <1>6 DEF walkPart, Effect
<1>7. ~Skipped(out, p) => out.failed = FALSE
  BY <1>3 DEF Skipped
<1>8. CASE ~Skipped(out, p) /\ IsAttachment(p)
  <2>1. Append(out.attachments, i) \in Seq(Nat)
    <3>1. i \in Nat /\ out.attachments \in Seq(Nat)
      BY <1>1, <1>3
    <3> HIDE DEF here, new
    <3>. QED
      BY <3>1
  <2>2. PICK a : a = Append(out.attachments, i) /\ a \in Seq(Nat)
    BY <2>1, Zenon
  <2> DEFINE taken == [here EXCEPT !.attachments = a, !.inside = p.depth]
  <2>3. new = IF p.sound THEN taken ELSE broken
    BY <1>4, <1>8, <2>2 DEF walkPart
  <2>4. /\ taken \in Finding /\ taken.inside = p.depth
        /\ taken.attachments = a
        /\ taken.html = out.html /\ taken.text = out.text
        /\ taken.failed = out.failed
    BY <1>2, <1>4, <2>2 DEF Finding
  <2> HIDE DEF taken, broken, new, here
  <2>5. CASE p.sound
    BY <1>2, <1>8, <1>7, <2>2, <2>3, <2>4, <2>5 DEF Effect, new
  <2>6. CASE ~p.sound
    BY <1>2, <1>8, <1>5, <2>3, <2>6 DEF Effect, new
  <2>. QED
    BY <2>5, <2>6 DEF new
<1>9. CASE ~Skipped(out, p) /\ ~IsAttachment(p) /\ p.type = "multipart"
  <2> DEFINE gone == [here EXCEPT !.failed = ~p.sound]
  <2>1. new = gone
    BY <1>9 DEF walkPart
  <2>2. /\ gone \in Finding /\ gone.inside = 0 /\ gone.failed = ~p.sound
        /\ gone.attachments = out.attachments
        /\ gone.html = out.html /\ gone.text = out.text
    BY <1>2, <1>4 DEF Finding
  <2> HIDE DEF gone, new, here
  <2>. QED
    BY <1>9, <2>1, <2>2 DEF Effect, new
<1>10. CASE ~Skipped(out, p) /\ ~IsAttachment(p) /\ p.type # "multipart"
  <2>1. new = Leaf(here, p, i)
    BY <1>10 DEF walkPart
  <2>2. CASE ~p.sound
    <3>1. new = broken
      BY <2>1, <2>2 DEF Leaf
    <3> HIDE DEF new, broken
    <3>. QED
      BY <1>2, <1>10, <1>5, <2>2, <3>1 DEF Effect, new
  <2>3. CASE p.sound /\ ~p.empty /\ p.type = "text/html" /\ out.html = 0
    <3> DEFINE shown == [here EXCEPT !.html = i]
    <3>1. new = shown
      BY <1>4, <2>1, <2>3 DEF Leaf
    <3>2. /\ shown \in Finding /\ shown.inside = 0 /\ shown.failed = out.failed
          /\ shown.attachments = out.attachments
          /\ shown.html = i /\ shown.text = out.text
      BY <1>1, <1>4 DEF Finding
    <3> HIDE DEF new, shown, here
    <3>. QED
      BY <1>10, <1>7, <2>3, <3>1, <3>2 DEF Effect, new
  <2>4. CASE p.sound /\ ~p.empty /\ p.type = "text/plain" /\ out.text = 0
    <3> DEFINE shown == [here EXCEPT !.text = i]
    <3>1. new = shown
      BY <1>4, <2>1, <2>4 DEF Leaf
    <3>2. /\ shown \in Finding /\ shown.inside = 0 /\ shown.failed = out.failed
          /\ shown.attachments = out.attachments
          /\ shown.html = out.html /\ shown.text = i
      BY <1>1, <1>4 DEF Finding
    <3> HIDE DEF new, shown, here
    <3>. QED
      BY <1>10, <1>7, <2>4, <3>1, <3>2 DEF Effect, new
  <2>5. CASE /\ p.sound
             /\ ~(~p.empty /\ p.type = "text/html" /\ out.html = 0)
             /\ ~(~p.empty /\ p.type = "text/plain" /\ out.text = 0)
    <3>1. new = here
      BY <1>4, <2>1, <2>5 DEF Leaf
    <3> HIDE DEF new, here
    <3>. QED
      BY <1>4, <1>10, <1>7, <2>5, <3>1 DEF Effect, new
  <2>. QED
    BY <2>2, <2>3, <2>4, <2>5
<1>. QED
  BY <1>6, <1>8, <1>9, <1>10

(* One more part keeps the invariant.                                      *)
LEMMA FoundNext ==
  ASSUME NEW parts, MessageOK(parts), NEW n \in 0 .. Len(parts), n < Len(parts),
         NEW out, FoundTo(parts, out, n)
  PROVE  FoundTo(parts, walkPart(parts, out, n + 1), n + 1)
<1> DEFINE N == Len(parts)
           R == Reached(parts)
           A == AttachedParts(parts)
           B(type) == BodyParts(parts, type)
<1>1. /\ DOMAIN parts = 1 .. N /\ N \in Nat /\ n + 1 \in 1 .. N /\ n \in Nat
  <2>1. parts \in Seq(Part)
    BY DEF MessageOK
  <2>2. DOMAIN parts = 1 .. Len(parts) /\ Len(parts) \in Nat
    BY <2>1
  <2>. QED
    BY <2>2
<1>2. /\ R \in SUBSET Nat /\ A \in SUBSET Nat /\ A \subseteq R
      /\ \A type : B(type) \in SUBSET Nat /\ 0 \notin B(type) /\ B(type) \subseteq R \ A
  BY <1>1 DEF Reached, AttachedParts, BodyParts
<1>3. out \in Finding
  BY DEF FoundTo
<1> PICK p : p = parts[n+1]
  OBVIOUS
<1> PICK new : new = walkPart(parts, out, n + 1)
  OBVIOUS
<1>4. new \in Finding /\ Effect(p, n + 1, out, new)
  BY <1>1, <1>3, StepEffect
<1>5. /\ out.failed \in BOOLEAN /\ new.failed \in BOOLEAN /\ out.html \in Nat
      /\ out.text \in Nat /\ out.attachments \in Seq(Nat)
  BY <1>3, <1>4 DEF Finding
<1>6. p \in Part /\ p.depth \in Nat \ {0} /\ p.sound \in BOOLEAN /\ p.empty \in BOOLEAN
  <2>1. p \in Part /\ p.depth \in Nat \ {0}
    BY <1>1, PartFacts
  <2>. QED
    BY <2>1 DEF Part
<1>7. n + 1 \in A <=> n + 1 \in R /\ IsAttachment(p)
  BY DEF AttachedParts
<1>8. \A type : n + 1 \in B(type) <=>
        n + 1 \in R /\ ~IsAttachment(p) /\ p.type = type /\ ~p.empty
  BY <1>7 DEF BodyParts
<1>9. CASE out.failed
  <2>1. new = out
    BY <1>4, <1>9 DEF Effect, Skipped
  <2>2. PICK i \in Before(R, n) : ~parts[i].sound
    BY <1>9 DEF FoundTo
  <2>3. i \in Before(R, n + 1)
    BY <1>1, <1>2, <2>2, BeforeNext
  <2>. QED
    BY <1>3, <1>9, <2>1, <2>2, <2>3 DEF FoundTo
<1>10. CASE ~out.failed
  <2>1. /\ Whereabouts(parts, out, n)
        /\ Enumerates(out.attachments, Before(A, n))
        /\ IsFirst(out.html, Before(B("text/html"), n))
        /\ IsFirst(out.text, Before(B("text/plain"), n))
        /\ \A i \in Before(R, n) : parts[i].sound
    BY <1>10 DEF FoundTo
  <2>2. Skipped(out, p) <=> n + 1 \notin R
    BY <1>1, <1>3, <1>10, <2>1, SkipsInside
  <2>3. CASE n + 1 \notin R
    <3>1. new = out
      BY <1>4, <2>2, <2>3 DEF Effect
    <3>2. /\ Before(R, n + 1) = Before(R, n) /\ Before(A, n + 1) = Before(A, n)
          /\ \A type : Before(B(type), n + 1) = Before(B(type), n)
      BY <1>1, <1>2, <2>3, BeforeNext
    <3>3. Whereabouts(parts, out, n + 1)
      <4>1. out.inside # 0 /\ p.depth > out.inside
        BY <1>10, <2>2, <2>3 DEF Skipped
      <4>2. PICK j \in A : /\ j <= n /\ parts[j].depth = out.inside
                           /\ \A k \in (j+1) .. n : parts[k].depth > out.inside
        BY <2>1, <4>1 DEF Whereabouts
      <4>3. \A k \in (j+1) .. (n+1) : k \in (j+1) .. n \/ k = n + 1
        BY <1>1, <1>2
      <4>4. j <= n + 1
        BY <1>1, <1>2, <4>2
      <4>5. \A k \in (j+1) .. (n+1) : parts[k].depth > out.inside
        BY <4>1, <4>2, <4>3
      <4>. QED
        BY <4>1, <4>2, <4>4, <4>5 DEF Whereabouts
    <3>. QED
      BY <1>3, <1>10, <2>1, <3>1, <3>2, <3>3 DEF FoundTo
  <2>4. CASE n + 1 \in R
    <3>1. Before(R, n + 1) = Before(R, n) \cup {n + 1}
      BY <1>1, <1>2, <2>4, BeforeNext
    <3>2. new.failed <=> \E i \in Before(R, n + 1) : ~parts[i].sound
      BY <1>4, <1>6, <2>1, <2>2, <2>4, <3>1 DEF Effect
    <3>3. ASSUME ~new.failed
          PROVE  /\ Whereabouts(parts, new, n + 1)
                 /\ Enumerates(new.attachments, Before(A, n + 1))
                 /\ IsFirst(new.html, Before(B("text/html"), n + 1))
                 /\ IsFirst(new.text, Before(B("text/plain"), n + 1))
      <4>1. /\ new.inside = IF IsAttachment(p) THEN p.depth ELSE 0
            /\ new.attachments = IF IsAttachment(p) THEN Append(out.attachments, n + 1)
                                                    ELSE out.attachments
            /\ new.html = IF n + 1 \in B("text/html") /\ out.html = 0
                          THEN n + 1 ELSE out.html
            /\ new.text = IF n + 1 \in B("text/plain") /\ out.text = 0
                          THEN n + 1 ELSE out.text
        BY <1>4, <1>6, <1>8, <2>2, <2>4, <3>3 DEF Effect
      <4>2. Whereabouts(parts, new, n + 1)
        <5>1. CASE IsAttachment(p)
          <6>1. n + 1 \in A /\ new.inside = p.depth /\ new.inside # 0
            BY <1>6, <1>7, <2>4, <4>1, <5>1
          <6>2. (n+1)+1 .. n+1 = {}
            BY <1>1
          <6>3. n + 1 <= n + 1
            BY <1>1
          <6>. QED
            BY <6>1, <6>2, <6>3 DEF Whereabouts
        <5>2. CASE ~IsAttachment(p)
          BY <2>4, <4>1, <5>2 DEF Whereabouts
        <5>. QED
          BY <5>1, <5>2
      <4>3. Enumerates(new.attachments, Before(A, n + 1))
        BY <1>1, <1>2, <1>5, <1>7, <2>1, <2>4, <4>1, EnumeratesNext
      <4>4. IsFirst(new.html, Before(B("text/html"), n + 1))
        BY <1>1, <1>2, <1>5, <2>1, <4>1, FirstSoFar
      <4>5. IsFirst(new.text, Before(B("text/plain"), n + 1))
        BY <1>1, <1>2, <1>5, <2>1, <4>1, FirstSoFar
      <4>. QED
        BY <4>2, <4>3, <4>4, <4>5
    <3>. QED
      BY <1>4, <3>2, <3>3 DEF FoundTo
  <2>. QED
    BY <2>3, <2>4
<1>. QED
  BY <1>5, <1>9, <1>10

(* So the result of the walk is what is to be found in the message.        *)
LEMMA FoundAll ==
  ASSUME NEW parts, MessageOK(parts)
  PROVE  FoundTo(parts, parseMessage(parts), Len(parts))
<1>1. parts \in Seq(Part) /\ Len(parts) \in Nat /\ DOMAIN parts = 1 .. Len(parts)
  <2>1. parts \in Seq(Part)
    BY DEF MessageOK
  <2>. QED
    BY <2>1
<1> DEFINE w == walk(parts)
           N == Len(parts)
           S == {n \in 0 .. N : FoundTo(parts, w[n], n)}
<1>2. /\ w[0] = Nothing
      /\ \A n \in 0 .. N : n < N => w[n+1] = walkPart(parts, w[n], n + 1)
  <2>1. w = [i \in 0 .. N |-> IF i = 0 THEN Nothing ELSE walkPart(parts, w[i-1], i)]
    BY <1>1, WalkDefined
  <2> HIDE DEF w
  <2>2. \A i \in 0 .. N : w[i] = IF i = 0 THEN Nothing ELSE walkPart(parts, w[i-1], i)
    BY <2>1
  <2>3. ASSUME NEW n \in 0 .. N, n < N PROVE w[n+1] = walkPart(parts, w[n], n + 1)
    <3>1. n + 1 \in 0 .. N /\ n + 1 # 0 /\ (n + 1) - 1 = n
      BY <1>1, <2>3
    <3>. QED
      BY <2>2, <3>1
  <2>4. 0 \in 0 .. N
    BY <1>1
  <2>. QED
    BY <2>2, <2>3, <2>4
<1>3. 0 \in S
  <2>1. ASSUME NEW T, T \subseteq 1 .. N PROVE Before(T, 0) = {}
    <3>1. \A i \in T : ~(i <= 0)
      BY <1>1, <2>1
    <3>. QED
      BY <3>1, Zenon DEF Before
  <2>2. /\ Before(Reached(parts), 0) = {} /\ Before(AttachedParts(parts), 0) = {}
        /\ \A type : Before(BodyParts(parts, type), 0) = {}
    BY <1>1, <2>1 DEF Reached, AttachedParts, BodyParts
  <2>3. Nothing \in Finding /\ Nothing.failed = FALSE /\ Nothing.inside = 0
        /\ Nothing.attachments = <<>> /\ Nothing.html = 0 /\ Nothing.text = 0
    BY DEF Nothing, Finding
  <2>4. Enumerates(<<>>, {})
    BY DEF Enumerates
  <2>5. FoundTo(parts, Nothing, 0)
    BY <2>2, <2>3, <2>4 DEF FoundTo, Whereabouts, IsFirst
  <2>. QED
    BY <1>1, <1>2, <2>5
<1>4. \A n \in S : n < N => n + 1 \in S
  <2> SUFFICES ASSUME NEW n \in S, n < N PROVE n + 1 \in S
    OBVIOUS
  <2>1. n + 1 \in 0 .. N
    BY <1>1
  <2>2. FoundTo(parts, w[n+1], n + 1)
    BY <1>2, FoundNext
  <2>. QED
    BY <2>1, <2>2
<1>5. N \in 0 .. N
  BY <1>1
<1>6. S = 0 .. N
  <2>1. S \in SUBSET (0 .. N)
    OBVIOUS
  <2> HIDE DEF S
  <2>. QED
    BY <1>1, <1>3, <1>4, <2>1, CountsUp
<1>. QED
  BY <1>5, <1>6 DEF parseMessage

(* For every message, of any length and nesting, the walk (mime.go:64-145) *)
(* finds the attachments that are not inside another one, all of them and  *)
(* in order, shows the first HTML part with content or else the first      *)
(* text, and fails exactly if a part it reaches is broken.                 *)
THEOREM WalkFindsAll ==
  ASSUME NEW parts, MessageOK(parts)
  PROVE  WalkedRight(parts)
<1> DEFINE N == Len(parts)
<1> PICK parsed : parsed = parseMessage(parts)
  OBVIOUS
<1>1. N \in Nat /\ DOMAIN parts = 1 .. N
  <2>1. parts \in Seq(Part)
    BY DEF MessageOK
  <2>. QED
    BY <2>1
<1>2. FoundTo(parts, parsed, N)
  BY FoundAll
<1>3. ASSUME NEW S, S \subseteq 1 .. N PROVE Before(S, N) = S
  <2>1. \A i \in S : i <= N
    BY <1>1, <1>3
  <2>. QED
    BY <2>1, Zenon DEF Before
<1>4. /\ Before(Reached(parts), N) = Reached(parts)
      /\ Before(AttachedParts(parts), N) = AttachedParts(parts)
      /\ \A type : Before(BodyParts(parts, type), N) = BodyParts(parts, type)
  BY <1>1, <1>3 DEF Reached, AttachedParts, BodyParts
<1>5. ASSUME NEW S, S \subseteq 1 .. N, NEW i, IsFirst(i, S)
      PROVE  FirstOf(S) = i /\ (i = 0 <=> S = {})
  <2>1. CASE S = {}
    BY <1>5, <2>1 DEF FirstOf, IsFirst
  <2>2. CASE S # {}
    <3>1. i \in S /\ \A j \in S : i <= j
      BY <1>5, <2>2 DEF IsFirst
    <3>2. \A k \in S : (\A j \in S : k <= j) => k = i
      BY <1>1, <1>5, <3>1
    <3>3. FirstOf(S) = i
      BY <2>2, <3>1, <3>2 DEF FirstOf
    <3>. QED
      BY <1>5, <2>2, <3>1, <3>3
  <2>. QED
    BY <2>1, <2>2
<1>6. \A type : BodyParts(parts, type) \subseteq 1 .. N
  BY <1>1 DEF BodyParts, Reached
<1>7. ASSUME ~parsed.failed
      PROVE  Body(parsed) = IF BodyParts(parts, "text/html") # {}
                            THEN FirstOf(BodyParts(parts, "text/html"))
                            ELSE FirstOf(BodyParts(parts, "text/plain"))
  <2>1. /\ IsFirst(parsed.html, BodyParts(parts, "text/html"))
        /\ IsFirst(parsed.text, BodyParts(parts, "text/plain"))
    BY <1>2, <1>4, <1>7 DEF FoundTo
  <2>2. /\ FirstOf(BodyParts(parts, "text/html")) = parsed.html
        /\ parsed.html = 0 <=> BodyParts(parts, "text/html") = {}
        /\ FirstOf(BodyParts(parts, "text/plain")) = parsed.text
    BY <1>5, <1>6, <2>1
  <2>. QED
    BY <2>2 DEF Body
<1>8. parsed.failed <=> \E i \in Reached(parts) : ~parts[i].sound
  BY <1>2, <1>4 DEF FoundTo
<1>9. ~parsed.failed => Enumerates(parsed.attachments, AttachedParts(parts))
  BY <1>2, <1>4 DEF FoundTo
<1>. QED
  BY <1>7, <1>8, <1>9 DEF WalkedRight

-----------------------------------------------------------------------------
(* The theorems on the archive.                                            *)

(* Every message that comes in is walked right (render.go:45, mime.go:64), *)
(* whatever messages these are.                                            *)
THEOREM WalkAlwaysRight == Spec => []WalkIsRight
<1>1. WalkIsRight
  BY ArchiveAssumption, WalkFindsAll DEF WalkIsRight, WalksRight
<1>. QED
  BY <1>1, PTL

(* The parts the handlers count (upload.go:123) are the documents of the   *)
(* message, though they only ever see the names render wrote               *)
(* (render.go:58).                                                         *)
LEMMA PartsAreDocuments ==
  ASSUME NEW m \in Mails
  PROVE  {FileName(m, p) : p \in Parts(m)} = DocumentsOf[m]
<1> PICK parts, found : parts = MessageOf[m] /\ found = parseMessage(parts).attachments
  OBVIOUS
<1>1. MessageOK(parts) /\ ~parseMessage(parts).failed
  BY ArchiveAssumption
<1>2. Enumerates(found, AttachedParts(parts))
  BY <1>1, WalkFindsAll DEF WalkedRight
<1>3. found \in Seq(Nat)
  BY <1>1, FoundAll DEF FoundTo, Finding
<1>4. DOMAIN found = 1 .. Len(found) /\ Len(found) \in Nat
  BY <1>3
<1> DEFINE NameOf(i) == SanitizeFilename(AttachName(parts[i]))
<1>5. Attachments[m] = [k \in 1 .. Len(found) |-> NameOf(found[k])]
  BY ArchiveAssumption DEF NamesParsed
<1>6. Len(Attachments[m]) = Len(found)
  <2>1. Attachments[m] \in Seq(Names)
    BY FilingAssumption
  <2>2. DOMAIN Attachments[m] = 1 .. Len(Attachments[m]) /\ Len(Attachments[m]) \in Nat
    BY <2>1
  <2>3. 1 .. Len(Attachments[m]) = 1 .. Len(found)
    BY <1>5, <2>2, Zenon
  <2>. QED
    BY <1>4, <2>2, <2>3
<1>7. /\ FileName(m, 0) = "email.pdf"
      /\ \A p \in 1 .. Len(found) : FileName(m, p) = NameOf(found[p])
  BY <1>4, <1>5 DEF FileName
<1>8. \A p : p \in Parts(m) <=> p = 0 \/ p \in DOMAIN found
  BY <1>4, <1>6 DEF Parts
<1>9. NamesAttached(parts) = {NameOf(found[k]) : k \in DOMAIN found}
  <2>1. /\ \A k \in DOMAIN found : found[k] \in AttachedParts(parts)
        /\ \A i \in AttachedParts(parts) : \E k \in DOMAIN found : found[k] = i
    BY <1>2 DEF Enumerates
  <2>2. NamesAttached(parts) = {NameOf(i) : i \in AttachedParts(parts)}
    BY DEF NamesAttached
  <2> HIDE DEF NameOf
  <2>. QED
    BY <2>1, <2>2
<1>10. {FileName(m, p) : p \in Parts(m)}
         = {"email.pdf"} \cup {NameOf(found[k]) : k \in DOMAIN found}
  <2>1. \A p \in DOMAIN found : p \in Parts(m) /\ FileName(m, p) = NameOf(found[p])
    BY <1>4, <1>7, <1>8
  <2>2. \A p \in Parts(m) : p = 0 \/ p \in DOMAIN found
    BY <1>8
  <2>3. 0 \in Parts(m) /\ FileName(m, 0) = "email.pdf"
    BY <1>7, <1>8
  <2> HIDE DEF NameOf
  <2>. QED
    BY <2>1, <2>2, <2>3
<1>. QED
  BY <1>9, <1>10 DEF DocumentsOf

(* What is on Drive of the mail of a finished job is its PDF and exactly   *)
(* the attachments of its message (mime.go:92, render.go:58,               *)
(* upload.go:123), for any messages, mails, workers and faults, if each    *)
(* mail has a folder of its own.  Attachments of one name leave one        *)
(* document of that name.                                                  *)
THEOREM ArchiveIsWhole ==
  ASSUME OwnFolder
  PROVE  Spec => []AttachmentsArchived
<1>1. ExactlyItsParts => AttachmentsArchived
  BY PartsAreDocuments DEF ExactlyItsParts, AttachmentsArchived
<1>2. Spec => []ExactlyItsParts
  BY ArchiveIsExact
<1>. QED
  BY <1>1, <1>2, PTL

-----------------------------------------------------------------------------
(* The refinement of MailArchive, step by step.                            *)

(* All files are at the paths of their mails, so all of them are kept.     *)
LEMMA AllKept ==
  ASSUME FilesNamed
  PROVE  Kept = {<<f.mail, f.name>> : f \in files}
BY DEF FilesNamed, Kept, PathTo

(* Three kinds of steps: an upload, the end of a stage, and what the owner *)
(* of the mailbox does not see.                                            *)
LEMMA Seen ==
  ASSUME [Next]_vars
  PROVE  \/ \E x \in Executors : PutFile(x) \/ Return(x)
         \/ UNCHANGED <<stage, files>>
<1>1. ASSUME NEW x \in Executors, Fetch(x) \/ Render(x)
      PROVE  UNCHANGED <<stage, files>>
  BY <1>1 DEF Fetch, Render, WriteAttachment, WritePdf, WriteMeta, driveVars
<1>2. ASSUME NEW x \in Executors, Upload(x), ~PutFile(x)
      PROVE  UNCHANGED <<stage, files>>
  BY <1>2 DEF Upload, CacheGet, ListFolders, CreateFolder, CacheSet,
              FoldersReached, FindFile, driveVars
<1>3. ASSUME NEW x \in Executors, NEW m \in Mails, Take(x, m)
      PROVE  UNCHANGED <<stage, files>>
  BY <1>3 DEF Take, driveVars
<1>4. ASSUME NEW x \in Executors, Interrupted(x) PROVE UNCHANGED <<stage, files>>
  BY <1>4 DEF Interrupted, driveVars
<1>5. ASSUME NEW path \in Paths, CacheExpires(path) PROVE UNCHANGED <<stage, files>>
  BY <1>5 DEF CacheExpires, driveVars
<1>6. ASSUME NEW f \in folders, UserTrashes(f) PROVE UNCHANGED <<stage, files>>
  BY <1>6 DEF UserTrashes
<1>7. CASE UNCHANGED vars
  BY <1>7 DEF vars, driveVars
<1>. QED
  BY <1>1, <1>2, <1>3, <1>4, <1>5, <1>6, <1>7 DEF Next

Closed == {m \in Mails : stage[m] = "done"}

(* An upload keeps one document more, or one that was in the trash again,  *)
(* of a mail that is not closed.                                           *)
LEMMA PutKeeps ==
  ASSUME ExactInv, ExactInv', NEW x \in Executors, PutFile(x)
  PROVE  \/ \E m \in Mails : \E d \in DocumentsOf[m] : Promise!Keep(m, d)
         \/ UNCHANGED Promise!archiveVars
<1> PICK m, i : m = xmail[x] /\ i = xi[x]
  OBVIOUS
<1> DEFINE d == FileName(m, i)
<1>1. m \in Mails /\ i \in Parts(m) /\ xpc[x] = "put"
  BY DEF ExactInv, FilingInv, WalkTypeOK, ExecTypeOK, Typed, PutFile
<1>2. d \in DocumentsOf[m]
  BY <1>1, PartsAreDocuments
<1>3. stage[m] = "upload"
  BY <1>1 DEF ExactInv, NamesInv, WorkersNamed, NamedSoFar
<1> DEFINE new == [id |-> nextId, parent |-> xparent[x], name |-> d, mail |-> m,
                   part |-> OnDisk(m, i)]
<1>4. files' = files \cup {new} /\ stage' = stage
  BY DEF PutFile
<1>5. new.mail = m /\ new.name = d
  OBVIOUS
<1>6. /\ Kept = {<<f.mail, f.name>> : f \in files}
      /\ Kept' = {<<f.mail, f.name>> : f \in files'}
  <2>1. FilesNamed /\ FilesNamed'
    BY DEF ExactInv, NamesInv
  <2>2. Kept = {<<f.mail, f.name>> : f \in files}
    BY <2>1, AllKept
  <2>3. Kept' = {<<f.mail, f.name>> : f \in files'}
    BY <2>1 DEF FilesNamed, Kept, PathTo
  <2>. QED
    BY <2>2, <2>3
<1> HIDE DEF new, d
<1>7. Kept' = Kept \cup {<<m, d>>}
  BY <1>4, <1>5, <1>6, Zenon
<1>8. Closed' = Closed /\ m \notin Closed
  BY <1>3, <1>4 DEF Closed
<1>9. CASE <<m, d>> \in Kept
  <2>1. Kept' = Kept
    BY <1>7, <1>9
  <2>. QED
    BY <1>8, <2>1 DEF Promise!archiveVars, Closed
<1>10. CASE <<m, d>> \notin Kept
  BY <1>1, <1>2, <1>7, <1>8, <1>10 DEF Promise!Keep, Closed
<1>. QED
  BY <1>9, <1>10

(* A stage ends: if it is the last, every document is kept.                *)
LEMMA ReturnCloses ==
  ASSUME ExactInv, ExactInv', NEW x \in Executors, Return(x)
  PROVE  \/ \E m \in Mails : Promise!Close(m)
         \/ UNCHANGED Promise!archiveVars
<1> PICK m : m = xmail[x]
  OBVIOUS
<1>1. /\ m \in Mails /\ stage \in [Mails -> {"fetch", "render", "upload", "done"}]
      /\ stage' = [stage EXCEPT ![m] = NextStage(stage[m])]
      /\ UNCHANGED <<files, folders>>
  BY DEF ExactInv, FilingInv, WalkTypeOK, ExecTypeOK, OutsideTypeOK, Typed, Return,
         driveVars
<1>2. Kept' = Kept
  BY <1>1 DEF Kept, AtPath
<1>3. stage[m] # "done"
  BY DEF ExactInv, NamesInv, WorkersNamed, NamedSoFar, Return
<1>4. CASE stage[m] # "upload"
  <2>1. Closed' = Closed
    BY <1>1, <1>3, <1>4 DEF Closed, NextStage
  <2>. QED
    BY <1>2, <2>1 DEF Promise!archiveVars, Closed
<1>5. CASE stage[m] = "upload"
  <2>1. stage'[m] = "done" /\ \A n \in Mails : n # m => stage'[n] = stage[n]
    BY <1>1, <1>5 DEF NextStage
  <2>2. m \notin Closed /\ Closed' = Closed \cup {m}
    BY <1>1, <1>3, <2>1 DEF Closed
  <2>3. ASSUME NEW d \in DocumentsOf[m] PROVE <<m, d>> \in Kept
    <3>1. PICK p \in Parts(m) : d = FileName(m, p)
      BY <1>1, PartsAreDocuments
    <3>2. PICK f \in files' : f.mail = m /\ f.name = d
      <4>1. NamedTo(m, Total(m))'
        BY <1>1, <2>1 DEF ExactInv, NamesInv, DoneNamed
      <4>2. p < Total(m)
        BY <1>1, PathFacts DEF Parts, Total
      <4>. QED
        BY <3>1, <4>1, <4>2 DEF NamedTo, Total
    <3>3. Kept = {<<g.mail, g.name>> : g \in files}
      BY AllKept DEF ExactInv, NamesInv
    <3>. QED
      BY <1>1, <3>2, <3>3
  <2>. QED
    BY <1>1, <1>2, <2>2, <2>3 DEF Promise!Close, Closed
<1>. QED
  BY <1>4, <1>5

(* The stages together keep the promise of MailArchive (fetch.go:40,       *)
(* render.go:45, upload.go:73): each document of a message is kept at the  *)
(* path of its mail, none is lost, and a mail is closed only with all of   *)
(* them and for good -- for any messages, mails, workers and faults, if    *)
(* each mail has a folder of its own.                                      *)
THEOREM FilingKeepsPromise ==
  ASSUME OwnFolder
  PROVE  Spec => ArchiveKept
<1>1. Init => ExactInv /\ Promise!Init
  <2>1. Init => Kept = {} /\ Closed = {}
    BY DEF Init, Kept, Closed
  <2>. QED
    BY <2>1, ExactInit DEF Promise!Init, Closed
<1>2. ExactInv /\ [Next]_vars => ExactInv'
  BY ExactStep
<1>3. ExactInv /\ ExactInv' /\ [Next]_vars
        => [Promise!Next]_(Promise!archiveVars)
  <2> SUFFICES ASSUME ExactInv, ExactInv', [Next]_vars
               PROVE  Promise!Next \/ UNCHANGED Promise!archiveVars
    OBVIOUS
  <2>1. CASE \E x \in Executors : PutFile(x)
    BY <2>1, PutKeeps DEF Promise!Next
  <2>2. CASE \E x \in Executors : Return(x)
    BY <2>2, ReturnCloses DEF Promise!Next
  <2>3. CASE UNCHANGED <<stage, files>>
    <3>1. /\ Kept = {<<f.mail, f.name>> : f \in files}
          /\ Kept' = {<<f.mail, f.name>> : f \in files'}
      BY AllKept DEF ExactInv, NamesInv, FilesNamed, Kept, PathTo
    <3>2. Kept' = Kept /\ Closed' = Closed
      BY <2>3, <3>1 DEF Closed
    <3>. QED
      BY <3>2 DEF Promise!archiveVars, Closed
  <2>. QED
    BY <2>1, <2>2, <2>3, Seen
<1>. QED
  BY <1>1, <1>2, <1>3, PTL DEF Spec, ArchiveKept, Promise!Spec
=============================================================================
