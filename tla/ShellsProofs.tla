----------------------------- MODULE ShellsProofs -----------------------------
(***************************************************************************)
(* Proofs about Shells, for any shells, books, queries and bounds: how the  *)
(* requests that wait are kept is an invariant of all the parts, and from   *)
(* it what each shows agrees with the server once nothing is under way.    *)
(***************************************************************************)
EXTENDS Shells, SequenceTheorems, FiniteSetTheorems, WellFoundedInduction, TLAPS

-----------------------------------------------------------------------------
(* How requests wait.                                                      *)

IsEntry(e) ==
  e = [op |-> e.op, do |-> e.do, arg |-> e.arg, got |-> e.got, old |-> e.old]
IsRequest(w) == w = [do |-> w.do, arg |-> w.arg, depth |-> w.depth] /\ w.depth \in Nat

IsSeq(s) == s \in Seq(ToSet(s))
Stacked(s) == IsSeq(s) /\ \A e \in ToSet(s) : IsEntry(e)
Wired(q) == IsSeq(q) /\ \A w \in ToSet(q) : IsRequest(w)

\* A request that is waited for is the only one of its place.
Linked(q, s) ==
  \A i \in DOMAIN q :
    LET d == q[i].depth IN
    d # 0 => /\ d \in DOMAIN s /\ s[d].got = None /\ s[d].do = q[i].do
             /\ \A j \in DOMAIN q : q[j].depth = d => j = i

Fits(s) == Stacked(s) /\ Linked(wire, s)
WaitsInv == Fits(stack) /\ Wired(wire)

-----------------------------------------------------------------------------
(* Sequences.                                                              *)

LEMMA SeqShape ==
  ASSUME NEW s, IsSeq(s)
  PROVE  /\ Len(s) \in Nat /\ DOMAIN s = 1 .. Len(s)
         /\ (s = <<>> <=> Len(s) = 0)
         /\ \A i \in 1 .. Len(s) : s[i] \in ToSet(s)
         /\ \A x \in ToSet(s) : \E i \in 1 .. Len(s) : s[i] = x
<1>1. Len(s) \in Nat /\ DOMAIN s = 1 .. Len(s)
  BY LenProperties DEF IsSeq
<1>2. s = <<>> <=> Len(s) = 0
  BY EmptySeq DEF IsSeq
<1> QED
  BY <1>1, <1>2 DEF ToSet

LEMMA SeqMade ==
  ASSUME NEW n \in Nat, NEW S, NEW f \in [1 .. n -> S]
  PROVE  IsSeq(f) /\ Len(f) = n
<1>1. f \in [1 .. n -> ToSet(f)]
  BY DEF ToSet
<1>2. IsSeq(f)
  BY <1>1, SeqDef DEF IsSeq
<1>3. 1 .. n = 1 .. Len(f) /\ Len(f) \in Nat
  BY <1>2, SeqShape
<1> QED
  BY <1>2, <1>3

LEMMA PushSeq ==
  ASSUME NEW s, IsSeq(s), NEW e
  PROVE  /\ IsSeq(Append(s, e)) /\ ToSet(Append(s, e)) = ToSet(s) \cup {e}
         /\ Len(Append(s, e)) = Len(s) + 1 /\ DOMAIN Append(s, e) = 1 .. Len(s) + 1
         /\ Append(s, e)[Len(s) + 1] = e
         /\ \A i \in 1 .. Len(s) : Append(s, e)[i] = s[i]
<1> DEFINE t == Append(s, e)
           S == ToSet(s) \cup {e}
<1>1. s \in Seq(S)
  BY SeqMonotonic DEF IsSeq
<1>2. /\ t \in Seq(S) /\ Len(t) = Len(s) + 1 /\ t[Len(s) + 1] = e
      /\ \A i \in 1 .. Len(s) : t[i] = s[i]
  BY <1>1, AppendProperties
<1>3. Len(s) \in Nat /\ DOMAIN s = 1 .. Len(s) /\ DOMAIN t = 1 .. Len(s) + 1
  BY <1>1, <1>2, LenProperties
<1> HIDE DEF t
<1>4. ToSet(t) = S
  BY <1>2, <1>3 DEF ToSet
<1> QED
  BY <1>2, <1>3, <1>4 DEF t, IsSeq

LEMMA FrontSeq ==
  ASSUME NEW s, IsSeq(s), s # <<>>
  PROVE  /\ IsSeq(Front(s)) /\ ToSet(s) = ToSet(Front(s)) \cup {Last(s)}
         /\ Len(s) \in Nat \ {0} /\ Len(Front(s)) = Len(s) - 1
         /\ Last(s) = s[Len(s)]
         /\ \A i \in 1 .. Len(s) - 1 : Front(s)[i] = s[i]
<1> DEFINE t == Front(s)
<1>1. /\ Len(s) \in Nat \ {0} /\ DOMAIN s = 1 .. Len(s)
      /\ \A i \in 1 .. Len(s) : s[i] \in ToSet(s)
  BY SeqShape
<1>2. /\ t \in Seq(ToSet(s)) /\ Len(t) = Len(s) - 1
      /\ \A i \in 1 .. Len(s) - 1 : t[i] = s[i]
  BY <1>1, SubSeqProperties DEF Front
<1>3. DOMAIN t = 1 .. Len(s) - 1 /\ Last(s) = s[Len(s)]
  BY <1>2, LenProperties DEF Last
<1>4. t \in [1 .. Len(s) - 1 -> ToSet(s)]
  BY <1>2, LenProperties
<1> HIDE DEF t
<1>5. ToSet(s) = ToSet(t) \cup {Last(s)}
  <2>1. \A i \in DOMAIN s : (i \in DOMAIN t /\ t[i] = s[i]) \/ s[i] = Last(s)
    BY <1>1, <1>2, <1>3
  <2>2. \A i \in DOMAIN t : i \in DOMAIN s /\ t[i] = s[i]
    BY <1>1, <1>2, <1>3
  <2>3. Len(s) \in DOMAIN s
    BY <1>1
  <2> QED
    BY <1>3, <2>1, <2>2, <2>3 DEF ToSet
<1>6. IsSeq(t)
  BY <1>1, <1>4, SeqMade
<1> QED
  BY <1>1, <1>2, <1>3, <1>5, <1>6 DEF t

LEMMA TailSeq ==
  ASSUME NEW s, IsSeq(s), s # <<>>
  PROVE  /\ IsSeq(Tail(s)) /\ ToSet(Tail(s)) \subseteq ToSet(s)
         /\ Len(s) \in Nat \ {0} /\ Len(Tail(s)) = Len(s) - 1
         /\ Head(s) = s[1] /\ Head(s) \in ToSet(s)
         /\ \A i \in 1 .. Len(s) - 1 : Tail(s)[i] = s[i + 1]
<1> DEFINE t == Tail(s)
<1>1. /\ Len(s) \in Nat \ {0} /\ DOMAIN s = 1 .. Len(s) /\ Head(s) = s[1]
      /\ \A i \in 1 .. Len(s) : s[i] \in ToSet(s)
  BY SeqShape
<1>2. /\ t \in Seq(ToSet(s)) /\ Len(t) = Len(s) - 1
      /\ \A i \in 1 .. Len(s) - 1 : t[i] = s[i + 1]
  BY HeadTailProperties DEF IsSeq
<1>3. DOMAIN t = 1 .. Len(s) - 1 /\ t \in [1 .. Len(s) - 1 -> ToSet(s)]
  BY <1>2, LenProperties
<1> HIDE DEF t
<1>4. IsSeq(t)
  BY <1>1, <1>3, SeqMade
<1>5. ToSet(t) \subseteq ToSet(s)
  BY <1>1, <1>2, <1>3 DEF ToSet
<1> QED
  BY <1>1, <1>2, <1>4, <1>5 DEF t
-----------------------------------------------------------------------------
(* What the steps of Waits do to the requests that wait.                   *)

Entry(op, do, arg, old) ==
  [op |-> op, do |-> do, arg |-> arg, got |-> None, old |-> old]
Given(e, r) == [op |-> e.op, do |-> e.do, arg |-> e.arg, got |-> r, old |-> e.old]

LEMMA GivenIs == ASSUME NEW e, IsEntry(e), NEW r PROVE [e EXCEPT !.got = r] = Given(e, r)
  BY DEF IsEntry, Given

LEMMA GivenEntry ==
  ASSUME NEW e, NEW r
  PROVE  /\ IsEntry(Given(e, r)) /\ Given(e, r).op = e.op /\ Given(e, r).do = e.do
         /\ Given(e, r).arg = e.arg /\ Given(e, r).got = r /\ Given(e, r).old = e.old
  BY DEF IsEntry, Given

LEMMA EntryIs ==
  ASSUME NEW op, NEW do, NEW arg, NEW old
  PROVE  /\ IsEntry(Entry(op, do, arg, old)) /\ Entry(op, do, arg, old).op = op
         /\ Entry(op, do, arg, old).do = do /\ Entry(op, do, arg, old).arg = arg
         /\ Entry(op, do, arg, old).got = None /\ Entry(op, do, arg, old).old = old
  BY DEF IsEntry, Entry

LEMMA SendFits ==
  ASSUME Wired(wire), NEW s, Fits(s), NEW op, NEW do, NEW arg, NEW old,
         SendOn(s, op, do, arg, old)
  PROVE  /\ WaitsInv'
         /\ ToSet(stack') = ToSet(s) \cup {Entry(op, do, arg, old)}
         /\ stack' # <<>> /\ Len(stack') = Len(s) + 1
         /\ \A i \in 1 .. Len(s) : stack'[i] = s[i]
         /\ stack'[Len(s) + 1] = Entry(op, do, arg, old)
         /\ \A w \in ToSet(wire') : w \in ToSet(wire) \/ (w.do = do /\ w.arg = arg)
<1> DEFINE e == Entry(op, do, arg, old)
           w == [do |-> do, arg |-> arg, depth |-> Len(s) + 1]
<1>1. stack' = Append(s, e) /\ wire' = Append(wire, w)
  BY DEF SendOn, Entry
<1>2. /\ IsEntry(e) /\ e.got = None /\ e.do = do
      /\ Len(s) \in Nat /\ DOMAIN s = 1 .. Len(s)
      /\ DOMAIN wire = 1 .. Len(wire) /\ Len(wire) \in Nat
      /\ \A i \in 1 .. Len(wire) : IsRequest(wire[i])
  BY EntryIs, SeqShape DEF Fits, Stacked, Wired
<1>3. IsRequest(w) /\ w.depth = Len(s) + 1 /\ w.do = do /\ w.arg = arg
  BY <1>2 DEF IsRequest
<1> HIDE DEF e, w
<1>4. /\ IsSeq(stack') /\ ToSet(stack') = ToSet(s) \cup {e} /\ Len(stack') = Len(s) + 1
      /\ DOMAIN stack' = 1 .. Len(s) + 1 /\ stack'[Len(s) + 1] = e
      /\ \A i \in 1 .. Len(s) : stack'[i] = s[i]
  BY <1>1, PushSeq DEF Fits, Stacked
<1>5. /\ IsSeq(wire') /\ ToSet(wire') = ToSet(wire) \cup {w}
      /\ DOMAIN wire' = 1 .. Len(wire) + 1 /\ wire'[Len(wire) + 1] = w
      /\ \A i \in 1 .. Len(wire) : wire'[i] = wire[i]
  BY <1>1, PushSeq DEF Wired
<1>6. Stacked(stack') /\ Wired(wire')
  BY <1>2, <1>3, <1>4, <1>5 DEF Fits, Stacked, Wired
<1>7. Linked(wire', stack')
  <2>1. Linked(wire, s)
    BY DEF Fits
  <2>2. \A i \in 1 .. Len(wire) : wire[i].depth \in Nat /\ wire[i].depth # Len(s) + 1
    BY <1>2, <2>1 DEF Linked, IsRequest
  <2> SUFFICES ASSUME NEW i \in DOMAIN wire', wire'[i].depth # 0
               PROVE  LET d == wire'[i].depth IN
                      /\ d \in DOMAIN stack' /\ stack'[d].got = None
                      /\ stack'[d].do = wire'[i].do
                      /\ \A j \in DOMAIN wire' : wire'[j].depth = d => j = i
    BY DEF Linked
  <2>3. CASE i = Len(wire) + 1
    BY <1>2, <1>3, <1>4, <1>5, <2>2, <2>3
  <2>4. CASE i \in 1 .. Len(wire)
    <3>1. /\ wire[i].depth \in 1 .. Len(s) /\ s[wire[i].depth].got = None
          /\ s[wire[i].depth].do = wire[i].do
          /\ \A j \in 1 .. Len(wire) : wire[j].depth = wire[i].depth => j = i
      BY <1>2, <1>5, <2>1, <2>4 DEF Linked
    <3> QED
      BY <1>2, <1>3, <1>4, <1>5, <2>2, <2>4, <3>1, SMTT(30)
  <2> QED
    BY <1>2, <1>5, <2>3, <2>4
<1>8. stack' # <<>>
  BY <1>2, <1>4, SeqShape
<1>9. WaitsInv'
  BY <1>6, <1>7 DEF WaitsInv, Fits
<1>10. \A x \in ToSet(wire') : x \in ToSet(wire) \/ (x.do = do /\ x.arg = arg)
  BY <1>3, <1>5
<1> QED
  BY <1>4, <1>8, <1>9, <1>10 DEF e

LEMMA UnderFits ==
  ASSUME WaitsInv, stack # <<>>, Innermost.got # None
  PROVE  /\ Fits(Under) /\ ToSet(stack) = ToSet(Under) \cup {Innermost}
         /\ IsEntry(Innermost)
         /\ Len(stack) \in Nat \ {0} /\ Len(Under) = Len(stack) - 1
         /\ Innermost = stack[Len(stack)]
         /\ \A i \in 1 .. Len(stack) - 1 : Under[i] = stack[i]
<1>1. /\ IsSeq(Under) /\ ToSet(stack) = ToSet(Under) \cup {Innermost}
      /\ Len(stack) \in Nat \ {0} /\ Len(Under) = Len(stack) - 1
      /\ Innermost = stack[Len(stack)]
      /\ \A i \in 1 .. Len(stack) - 1 : Under[i] = stack[i]
  BY FrontSeq DEF WaitsInv, Fits, Stacked, Under, Innermost
<1>2. Stacked(Under) /\ IsEntry(Innermost)
  BY <1>1 DEF WaitsInv, Fits, Stacked
<1>3. DOMAIN stack = 1 .. Len(stack) /\ DOMAIN Under = 1 .. Len(stack) - 1
  BY <1>1, SeqShape DEF WaitsInv, Fits, Stacked
<1>4. Linked(wire, Under)
  BY <1>1, <1>3 DEF WaitsInv, Fits, Linked
<1> QED
  BY <1>1, <1>2, <1>4 DEF Fits

LEMMA ReplyFits ==
  ASSUME Wired(wire), NEW s, Fits(s), NEW r, r # None, wire # <<>>, ReplyTo(s, r)
  PROVE  /\ WaitsInv' /\ Len(stack') = Len(s) /\ (stack' = <<>> <=> s = <<>>)
         /\ ToSet(wire') \subseteq ToSet(wire) /\ Head(wire) \in ToSet(wire)
         /\ \/ stack' = s
            \/ LET d == Head(wire).depth IN
               /\ d # 0 /\ d \in 1 .. Len(s) /\ s[d].got = None
               /\ s[d].do = Head(wire).do
               /\ s[d] \in ToSet(s) /\ stack'[d] = Given(s[d], r)
               /\ ToSet(stack') \subseteq ToSet(s) \cup {Given(s[d], r)}
               /\ \A i \in 1 .. Len(s) : i # d => stack'[i] = s[i]
<1> DEFINE d == Head(wire).depth
           n == Len(s)
           m == Len(wire)
<1>1. /\ n \in Nat /\ DOMAIN s = 1 .. n /\ (s = <<>> <=> n = 0)
      /\ \A i \in 1 .. n : s[i] \in ToSet(s) /\ IsEntry(s[i])
  BY SeqShape DEF Fits, Stacked
<1>2. /\ IsSeq(wire') /\ ToSet(wire') \subseteq ToSet(wire)
      /\ m \in Nat \ {0} /\ Len(wire') = m - 1
      /\ Head(wire) = wire[1] /\ Head(wire) \in ToSet(wire)
      /\ \A i \in 1 .. m - 1 : wire'[i] = wire[i + 1]
  BY TailSeq DEF ReplyTo, Wired
<1>3. Wired(wire') /\ DOMAIN wire = 1 .. m /\ DOMAIN wire' = 1 .. m - 1 /\ d \in Nat
  BY <1>2, SeqShape DEF Wired, IsRequest
<1>4. \A i \in DOMAIN wire' : LET c == wire'[i].depth IN
         c # 0 => /\ c # d /\ c \in 1 .. n /\ s[c].got = None /\ s[c].do = wire'[i].do
                  /\ \A j \in DOMAIN wire' : wire'[j].depth = c => j = i
  <2>1. Linked(wire, s)
    BY DEF Fits
  <2> SUFFICES ASSUME NEW i \in 1 .. m - 1, wire[i + 1].depth # 0
               PROVE  LET c == wire[i + 1].depth IN
                      /\ c # d /\ c \in 1 .. n /\ s[c].got = None
                      /\ s[c].do = wire[i + 1].do
                      /\ \A j \in 1 .. m - 1 : wire[j + 1].depth = c => j = i
    BY <1>2, <1>3
  <2>2. i + 1 \in 1 .. m /\ 1 \in 1 .. m /\ i + 1 # 1
    BY <1>2
  <2>3. \A j \in 1 .. m - 1 : j + 1 \in 1 .. m /\ (j + 1 = i + 1 => j = i)
    BY <1>2
  <2> QED
    BY <1>1, <1>2, <1>3, <2>1, <2>2, <2>3 DEF Linked
<1>5. CASE d = 0
  <2>1. stack' = s
    BY <1>5 DEF ReplyTo, Late
  <2>2. Linked(wire', s)
    BY <1>1, <1>4 DEF Linked
  <2>3. WaitsInv'
    BY <1>3, <2>1, <2>2 DEF WaitsInv, Fits
  <2> QED
    BY <1>2, <2>1, <2>3
<1>6. CASE d # 0
  <2>1. d \in 1 .. n /\ s[d].got = None /\ s[d].do = Head(wire).do
    BY <1>1, <1>2, <1>3, <1>6 DEF Fits, Linked
  <2>2. stack' = [s EXCEPT ![d].got = r]
    BY <1>6 DEF ReplyTo, Late
  <2>3. stack' = [i \in 1 .. n |-> IF i = d THEN Given(s[d], r) ELSE s[i]]
    <3>1. [s[d] EXCEPT !.got = r] = Given(s[d], r)
      BY <1>1, <2>1, GivenIs
    <3>2. s = [i \in 1 .. n |-> s[i]]
      BY <1>1, LenProperties DEF Fits, Stacked, IsSeq
    <3> QED
      BY <2>1, <2>2, <3>1, <3>2
  <2>4. /\ \A i \in 1 .. n : i # d => stack'[i] = s[i]
        /\ stack'[d] = Given(s[d], r) /\ DOMAIN stack' = 1 .. n
    BY <2>1, <2>3
  <2>5. stack' \in [1 .. n -> ToSet(s) \cup {Given(s[d], r)}]
    BY <1>1, <2>3
  <2>6. IsSeq(stack') /\ Len(stack') = n
    BY <1>1, <2>5, SeqMade
  <2>7. ToSet(stack') \subseteq ToSet(s) \cup {Given(s[d], r)}
    BY <2>5 DEF ToSet
  <2>8. Stacked(stack')
    BY <2>6, <2>7, GivenEntry DEF Fits, Stacked
  <2>9. Linked(wire', stack')
    BY <1>4, <2>4 DEF Linked
  <2>10. WaitsInv' /\ (stack' = <<>> <=> s = <<>>)
    BY <1>1, <1>3, <2>6, <2>8, <2>9, SeqShape DEF WaitsInv, Fits
  <2> QED
    BY <1>1, <1>2, <1>6, <2>1, <2>4, <2>6, <2>7, <2>10
<1> QED
  BY <1>5, <1>6
LEMMA TimesOutFits ==
  ASSUME WaitsInv, NEW i \in DOMAIN stack, TimesOut(i)
  PROVE  /\ WaitsInv' /\ Len(stack') = Len(stack) /\ (stack' = <<>> <=> stack = <<>>)
         /\ stack[i] \in ToSet(stack) /\ stack[i].got = None
         /\ stack'[i] = Given(stack[i], Failed)
         /\ ToSet(stack') \subseteq ToSet(stack) \cup {Given(stack[i], Failed)}
         /\ \A j \in 1 .. Len(stack) : j # i => stack'[j] = stack[j]
         /\ \A w \in ToSet(wire') : \E v \in ToSet(wire) : w.do = v.do /\ w.arg = v.arg /\
                                       w.depth \in {0, v.depth}
<1> DEFINE n == Len(stack)
           m == Len(wire)
<1>1. /\ n \in Nat /\ DOMAIN stack = 1 .. n /\ (stack = <<>> <=> n = 0)
      /\ \A j \in 1 .. n : stack[j] \in ToSet(stack) /\ IsEntry(stack[j])
  BY SeqShape DEF WaitsInv, Fits, Stacked
<1>2. /\ m \in Nat /\ DOMAIN wire = 1 .. m
      /\ \A j \in 1 .. m : wire[j] \in ToSet(wire) /\ IsRequest(wire[j])
  BY SeqShape DEF WaitsInv, Wired
<1> DEFINE Cut(v) == [do |-> v.do, arg |-> v.arg, depth |-> IF v.depth = i THEN 0 ELSE v.depth]
<1>3. /\ wire' = [j \in 1 .. m |-> Cut(wire[j])]
      /\ stack[i].got = None
      /\ stack' = [stack EXCEPT ![i].got = Failed]
  <2>1. \A j \in 1 .. m : IF wire[j].depth = i THEN [wire[j] EXCEPT !.depth = 0] = Cut(wire[j])
                          ELSE wire[j] = Cut(wire[j])
    BY <1>2 DEF IsRequest
  <2> QED
    BY <1>2, <2>1 DEF TimesOut
<1>4. \A j \in 1 .. m : /\ wire'[j].do = wire[j].do /\ wire'[j].arg = wire[j].arg
                        /\ wire'[j].depth = (IF wire[j].depth = i THEN 0 ELSE wire[j].depth)
                        /\ IsRequest(wire'[j])
  BY <1>2, <1>3 DEF IsRequest
<1>5. IsSeq(wire') /\ DOMAIN wire' = 1 .. m
  <2>1. wire' \in [1 .. m -> ToSet(wire')]
    BY <1>3 DEF ToSet
  <2> QED
    BY <1>2, <2>1, SeqMade
<1>6. /\ Wired(wire')
      /\ \A w \in ToSet(wire') : \E v \in ToSet(wire) : w.do = v.do /\ w.arg = v.arg /\
                                    w.depth \in {0, v.depth}
  BY <1>2, <1>4, <1>5 DEF Wired, ToSet
<1>7. stack' = [j \in 1 .. n |-> IF j = i THEN Given(stack[i], Failed) ELSE stack[j]]
  <2>1. [stack[i] EXCEPT !.got = Failed] = Given(stack[i], Failed)
    BY <1>1, GivenIs
  <2>2. stack = [j \in 1 .. n |-> stack[j]]
    BY <1>1, LenProperties DEF WaitsInv, Fits, Stacked, IsSeq
  <2> QED
    BY <1>1, <1>3, <2>1, <2>2
<1>8. /\ \A j \in 1 .. n : j # i => stack'[j] = stack[j]
      /\ stack'[i] = Given(stack[i], Failed) /\ DOMAIN stack' = 1 .. n
      /\ stack' \in [1 .. n -> ToSet(stack) \cup {Given(stack[i], Failed)}]
  BY <1>1, <1>7
<1>9. IsSeq(stack') /\ Len(stack') = n
  BY <1>1, <1>8, SeqMade
<1>10. ToSet(stack') \subseteq ToSet(stack) \cup {Given(stack[i], Failed)}
  BY <1>8 DEF ToSet
<1>11. Stacked(stack')
  BY <1>9, <1>10, GivenEntry DEF WaitsInv, Fits, Stacked
<1>12. Linked(wire', stack')
  <2>1. Linked(wire, stack)
    BY DEF WaitsInv, Fits
  <2> QED
    BY <1>1, <1>2, <1>4, <1>5, <1>8, <2>1 DEF Linked
<1>13. WaitsInv' /\ (stack' = <<>> <=> stack = <<>>)
  BY <1>1, <1>6, <1>9, <1>11, <1>12, SeqShape DEF WaitsInv, Fits
<1> QED
  BY <1>1, <1>3, <1>6, <1>8, <1>9, <1>10, <1>13

\* What is waited for is given up, and nothing is on its way.
LEMMA LoseFits ==
  ASSUME WaitsInv, Lose
  PROVE  /\ WaitsInv' /\ Len(stack') = Len(stack) /\ (stack' = <<>> <=> stack = <<>>)
         /\ \A i \in 1 .. Len(stack) :
              \/ stack'[i] = stack[i]
              \/ stack[i].got = None /\ stack'[i] = Given(stack[i], Failed)
         /\ \A e \in ToSet(stack') :
              e \in ToSet(stack) \/ \E o \in ToSet(stack) : e = Given(o, Failed)
         /\ ToSet(wire') = {}
<1> DEFINE n == Len(stack)
           New(e) == IF e.got = None THEN Given(e, Failed) ELSE e
<1>1. /\ n \in Nat /\ DOMAIN stack = 1 .. n /\ (stack = <<>> <=> n = 0)
      /\ \A j \in 1 .. n : stack[j] \in ToSet(stack) /\ IsEntry(stack[j])
  BY SeqShape DEF WaitsInv, Fits, Stacked
<1>2. stack' = [j \in 1 .. n |-> New(stack[j])] /\ wire' = <<>>
  <2>1. \A j \in 1 .. n : [stack[j] EXCEPT !.got = Failed] = Given(stack[j], Failed)
    BY <1>1, GivenIs
  <2> QED
    BY <1>1, <2>1 DEF Lose
<1>3. \A j \in 1 .. n : stack'[j] = New(stack[j])
  BY <1>2
<1>4. IsSeq(stack') /\ Len(stack') = n /\ DOMAIN stack' = 1 .. n
  <2>1. stack' \in [1 .. n -> ToSet(stack')]
    BY <1>2 DEF ToSet
  <2> QED
    BY <1>1, <2>1, SeqMade
<1>5. \A j \in 1 .. n : IsEntry(stack'[j])
  BY <1>1, <1>3, GivenEntry
<1>6. Stacked(stack') /\ (stack' = <<>> <=> stack = <<>>)
  BY <1>1, <1>4, <1>5, SeqShape DEF Stacked
<1>7. /\ Wired(wire') /\ Linked(wire', stack') /\ ToSet(wire') = {}
  BY <1>2, EmptySeq DEF Wired, IsSeq, Linked, ToSet
<1>8. \A e \in ToSet(stack') :
        e \in ToSet(stack) \/ \E o \in ToSet(stack) : e = Given(o, Failed)
  BY <1>1, <1>3, <1>4 DEF ToSet
<1> QED
  BY <1>3, <1>4, <1>6, <1>7, <1>8 DEF WaitsInv, Fits

LEMMA EndsFits ==
  ASSUME WaitsInv, stack # <<>>, Innermost.got # None, NEW signals, Ends(signals)
  PROVE  WaitsInv' /\ stack' = Under /\ wire' = wire
BY UnderFits DEF Ends, WaitsInv, Fits

LEMMA IdleFits == ASSUME WaitsInv, UNCHANGED <<stack, wire>> PROVE WaitsInv'
BY DEF WaitsInv, Fits, Stacked, Wired, IsSeq, Linked

\* A request that nobody waits for is sent.
LEMMA PostFits ==
  ASSUME WaitsInv, UNCHANGED stack, NEW do, NEW arg,
         wire' = Append(wire, [do |-> do, arg |-> arg, depth |-> 0])
  PROVE  /\ WaitsInv'
         /\ \A w \in ToSet(wire') : w \in ToSet(wire) \/ (w.do = do /\ w.depth = 0)
<1> DEFINE w == [do |-> do, arg |-> arg, depth |-> 0]
<1>1. IsRequest(w) /\ w.depth = 0 /\ w.do = do
  BY DEF IsRequest
<1>2. IsSeq(wire) /\ Len(wire) \in Nat /\ DOMAIN wire = 1 .. Len(wire)
  BY SeqShape DEF WaitsInv, Wired
<1> HIDE DEF w
<1>3. /\ IsSeq(wire') /\ ToSet(wire') = ToSet(wire) \cup {w}
      /\ DOMAIN wire' = 1 .. Len(wire) + 1 /\ wire'[Len(wire) + 1] = w
      /\ \A i \in 1 .. Len(wire) : wire'[i] = wire[i]
  BY <1>2, PushSeq DEF w
<1>4. Wired(wire')
  BY <1>1, <1>3 DEF WaitsInv, Wired
<1>5. Linked(wire', stack)
  <2>1. Linked(wire, stack)
    BY DEF WaitsInv, Fits
  <2>2. \A i \in DOMAIN wire' :
          wire'[i].depth # 0 => i \in DOMAIN wire /\ wire'[i] = wire[i]
    BY <1>1, <1>2, <1>3
  <2> QED
    BY <2>1, <2>2 DEF Linked
<1> QED
  BY <1>1, <1>3, <1>4, <1>5 DEF WaitsInv, Fits

\* Entries are marked.
LEMMA MarkedFits ==
  ASSUME Fits(stack), NEW s, s = [i \in DOMAIN stack |-> s[i]],
         \A i \in DOMAIN stack :
           IsEntry(s[i]) /\ s[i].got = stack[i].got /\ s[i].do = stack[i].do
  PROVE  /\ Fits(s) /\ Len(s) = Len(stack) /\ DOMAIN s = DOMAIN stack
         /\ \A e \in ToSet(s) : \E i \in DOMAIN stack : e = s[i] /\ stack[i] \in ToSet(stack)
         /\ \A o \in ToSet(stack) : \E i \in DOMAIN stack : o = stack[i] /\ s[i] \in ToSet(s)
<1>1. Len(stack) \in Nat /\ DOMAIN stack = 1 .. Len(stack)
  BY SeqShape DEF Fits, Stacked
<1>2. s \in [1 .. Len(stack) -> ToSet(s)]
  BY <1>1 DEF ToSet
<1>3. IsSeq(s) /\ Len(s) = Len(stack) /\ DOMAIN s = DOMAIN stack
  BY <1>1, <1>2, SeqMade
<1>4. Stacked(s)
  BY <1>3 DEF Stacked, ToSet
<1>5. Linked(wire, s)
  BY <1>3 DEF Fits, Linked
<1> QED
  BY <1>3, <1>4, <1>5 DEF Fits, ToSet

LEMMA AgedIs ==
  ASSUME NEW e, IsEntry(e), NEW x
  PROVE  /\ IsEntry([e EXCEPT !.old = x]) /\ [e EXCEPT !.old = x].op = e.op
         /\ [e EXCEPT !.old = x].do = e.do /\ [e EXCEPT !.old = x].arg = e.arg
         /\ [e EXCEPT !.old = x].got = e.got /\ [e EXCEPT !.old = x].old = x
BY DEF IsEntry

LEMMA StackEntries ==
  ASSUME Fits(stack)
  PROVE  \A i \in DOMAIN stack : IsEntry(stack[i])
BY DEF Fits, Stacked, ToSet

LEMMA OvertakenFits == ASSUME Fits(stack) PROVE Fits(Overtaken(stack))
<1>1. \A i \in DOMAIN stack :
        /\ IsEntry(Overtaken(stack)[i]) /\ Overtaken(stack)[i].got = stack[i].got
        /\ Overtaken(stack)[i].do = stack[i].do
  BY StackEntries, AgedIs DEF Overtaken
<1>2. Overtaken(stack) = [i \in DOMAIN stack |-> Overtaken(stack)[i]]
  BY DEF Overtaken
<1> QED
  BY <1>1, <1>2, MarkedFits

LEMMA OverrunFits ==
  ASSUME Fits(stack), NEW ps
  PROVE  /\ Fits(Overrun(ps)) /\ Len(Overrun(ps)) = Len(stack)
         /\ \A i \in DOMAIN stack : Overrun(ps)[i].arg = stack[i].arg
         /\ \A e \in ToSet(Overrun(ps)) : \E o \in ToSet(stack) :
              /\ e.op = o.op /\ e.do = o.do /\ e.arg = o.arg /\ e.got = o.got
              /\ \/ e.old = TRUE
                 \/ /\ e.old = o.old
                    /\ o.op \notin {"panel", "refresh"} \/ o.arg.panel \notin ps \/ o.got = None
         /\ \A o \in ToSet(stack) : \E e \in ToSet(Overrun(ps)) : e.op = o.op /\ e.arg = o.arg
<1> DEFINE s == Overrun(ps)
<1>1. \A i \in DOMAIN stack :
        /\ IsEntry(s[i]) /\ s[i].got = stack[i].got /\ s[i].do = stack[i].do
        /\ s[i].op = stack[i].op /\ s[i].arg = stack[i].arg
        /\ \/ s[i].old = TRUE
           \/ /\ s[i].old = stack[i].old
              /\ \/ stack[i].op \notin {"panel", "refresh"}
                 \/ stack[i].arg.panel \notin ps
                 \/ stack[i].got = None
  BY StackEntries, AgedIs, ZenonT(40) DEF Overrun
<1>2. s = [i \in DOMAIN stack |-> s[i]]
  BY DEF Overrun
<1> HIDE DEF s
<1>3. /\ Fits(s) /\ Len(s) = Len(stack) /\ DOMAIN s = DOMAIN stack
      /\ \A e \in ToSet(s) : \E i \in DOMAIN stack : e = s[i] /\ stack[i] \in ToSet(stack)
      /\ \A o \in ToSet(stack) : \E i \in DOMAIN stack : o = stack[i] /\ s[i] \in ToSet(s)
  BY <1>1, <1>2, MarkedFits
<1>4. \A e \in ToSet(s) : \E o \in ToSet(stack) :
        /\ e.op = o.op /\ e.do = o.do /\ e.arg = o.arg /\ e.got = o.got
        /\ \/ e.old = TRUE
           \/ /\ e.old = o.old
              /\ \/ o.op \notin {"panel", "refresh"}
                 \/ o.arg.panel \notin ps
                 \/ o.got = None
  BY <1>1, <1>3
<1>5. \A o \in ToSet(stack) : \E e \in ToSet(s) : e.op = o.op /\ e.arg = o.arg
  BY <1>1, <1>3
<1> QED
  BY <1>1, <1>3, <1>4, <1>5 DEF s

\* Of the requests that wait, one that asked for do or more than one has been given
\* a reply of R; none has come or gone.
Filled(do, R) ==
  /\ Len(stack') = Len(stack) /\ (stack' = <<>> <=> stack = <<>>)
  /\ \A e \in ToSet(stack') :
       \/ e \in ToSet(stack)
       \/ \E o \in ToSet(stack), r \in R :
            o.got = None /\ (r = Failed \/ o.do = do) /\ e = Given(o, r)
  /\ \A o \in ToSet(stack) : \E e \in ToSet(stack') : e.op = o.op /\ e.arg = o.arg
  /\ \A i \in 1 .. Len(stack) : stack'[i].op = stack[i].op
  /\ \A w \in ToSet(wire') :
       w.depth # 0 => \E v \in ToSet(wire) : v.depth # 0 /\ v.arg = w.arg

LEMMA RepliesDiffer ==
  /\ None.is = "none" /\ Failed.is = "no" /\ Failed # None
  /\ \A x : Ok(x).is = "ok" /\ Ok(x).data = x /\ Ok(x) # None
<1>1. None.is = "none" /\ Failed.is = "no" /\ \A x : Ok(x).is = "ok" /\ Ok(x).data = x
  BY DEF None, Failed, Ok
<1> QED
  BY <1>1

LEMMA FilledIf ==
  ASSUME WaitsInv, WaitsInv', Len(stack') = Len(stack), NEW do, NEW R,
         \A i \in 1 .. Len(stack) :
           \/ stack'[i] = stack[i]
           \/ \E r \in R : /\ stack[i].got = None /\ (r = Failed \/ stack[i].do = do)
                           /\ stack'[i] = Given(stack[i], r),
         \A w \in ToSet(wire') :
           w.depth # 0 => \E v \in ToSet(wire) : v.depth # 0 /\ v.arg = w.arg
  PROVE  Filled(do, R)
<1>1. /\ Len(stack) \in Nat /\ DOMAIN stack = 1 .. Len(stack) /\ DOMAIN stack' = 1 .. Len(stack)
      /\ (stack = <<>> <=> Len(stack) = 0) /\ (stack' = <<>> <=> Len(stack') = 0)
  <2>1. IsSeq(stack) /\ IsSeq(stack)'
    BY DEF WaitsInv, Fits, Stacked
  <2>2. IsSeq(stack')
    BY <2>1 DEF IsSeq
  <2> QED
    BY <2>1, <2>2, SeqShape
<1>2. \A i \in 1 .. Len(stack) : stack'[i].op = stack[i].op /\ stack'[i].arg = stack[i].arg
  BY GivenEntry
<1>3. \A e \in ToSet(stack') :
       \/ e \in ToSet(stack)
       \/ \E o \in ToSet(stack), r \in R :
            o.got = None /\ (r = Failed \/ o.do = do) /\ e = Given(o, r)
  <2> SUFFICES ASSUME NEW i \in 1 .. Len(stack)
               PROVE  \/ stack'[i] \in ToSet(stack)
                      \/ \E o \in ToSet(stack), r \in R :
                           o.got = None /\ (r = Failed \/ o.do = do) /\ stack'[i] = Given(o, r)
    BY <1>1 DEF ToSet
  <2>1. stack[i] \in ToSet(stack)
    BY <1>1 DEF ToSet
  <2> QED
    BY <2>1
<1>4. \A o \in ToSet(stack) : \E e \in ToSet(stack') : e.op = o.op /\ e.arg = o.arg
  BY <1>1, <1>2 DEF ToSet
<1> QED
  BY <1>1, <1>2, <1>3, <1>4 DEF Filled

LEMMA ServedFits ==
  ASSUME WaitsInv, NEW do, Asked(do), NEW x, Answer(x) \/ Refuse \/ ReplyTo(stack, Ok(x))
  PROVE  WaitsInv' /\ Filled(do, {Failed, Ok(x)})
<1>1. PICK r \in {Failed, Ok(x)} : ReplyTo(stack, r)
  BY DEF Answer, Refuse
<1>2. r # None /\ wire # <<>> /\ Head(wire).do = do
  BY RepliesDiffer DEF Asked
<1>3. Wired(wire) /\ Fits(stack) /\ Len(stack) \in Nat
  BY SeqShape DEF WaitsInv, Fits, Stacked
<1>4. /\ WaitsInv' /\ Len(stack') = Len(stack)
      /\ ToSet(wire') \subseteq ToSet(wire)
      /\ \/ stack' = stack
         \/ LET d == Head(wire).depth IN
            /\ d \in 1 .. Len(stack) /\ stack[d].got = None /\ stack[d].do = do
            /\ stack'[d] = Given(stack[d], r)
            /\ \A i \in 1 .. Len(stack) : i # d => stack'[i] = stack[i]
  BY <1>1, <1>2, <1>3, ReplyFits
<1>5. \A i \in 1 .. Len(stack) :
        \/ stack'[i] = stack[i]
        \/ \E y \in {Failed, Ok(x)} : /\ stack[i].got = None /\ (y = Failed \/ stack[i].do = do)
                                      /\ stack'[i] = Given(stack[i], y)
  BY <1>4
<1> QED
  BY <1>4, <1>5, FilledIf

LEMMA FaultFits ==
  ASSUME WaitsInv, Lose \/ \E i \in DOMAIN stack : TimesOut(i)
  PROVE  WaitsInv' /\ Filled("", {Failed})
<1>1. CASE Lose
  <2>1. /\ WaitsInv' /\ Len(stack') = Len(stack) /\ ToSet(wire') = {}
        /\ \A i \in 1 .. Len(stack) :
              \/ stack'[i] = stack[i]
              \/ stack[i].got = None /\ stack'[i] = Given(stack[i], Failed)
    BY <1>1, LoseFits
  <2> QED
    BY <2>1, FilledIf
<1>2. ASSUME NEW i \in DOMAIN stack, TimesOut(i)
      PROVE  WaitsInv' /\ Filled("", {Failed})
  <2>1. /\ WaitsInv' /\ Len(stack') = Len(stack) /\ stack[i].got = None
        /\ stack'[i] = Given(stack[i], Failed)
        /\ \A j \in 1 .. Len(stack) : j # i => stack'[j] = stack[j]
        /\ \A w \in ToSet(wire') : \E v \in ToSet(wire) :
             w.do = v.do /\ w.arg = v.arg /\ w.depth \in {0, v.depth}
    BY <1>2, TimesOutFits
  <2>2. \A j \in 1 .. Len(stack) :
          \/ stack'[j] = stack[j]
          \/ stack[j].got = None /\ stack'[j] = Given(stack[j], Failed)
    BY <2>1
  <2>3. \A w \in ToSet(wire') :
          w.depth # 0 => \E v \in ToSet(wire) : v.depth # 0 /\ v.arg = w.arg
    BY <2>1
  <2> QED
    BY <2>1, <2>2, <2>3, FilledIf
<1> QED
  BY <1>1, <1>2

-----------------------------------------------------------------------------
(* Every step keeps them well.                                             *)

LEMMA SendWaits ==
  ASSUME WaitsInv, NEW op, NEW do, NEW arg, NEW old,
         \/ SendOn(stack, op, do, arg, old)
         \/ SendOn(Under, op, do, arg, old) /\ stack # <<>> /\ Innermost.got # None
  PROVE  WaitsInv'
<1>1. Wired(wire) /\ Fits(stack)
  BY DEF WaitsInv
<1> QED
  BY <1>1, UnderFits, SendFits

LEMMA ElsewhereWaits ==
  ASSUME WaitsInv, NEW s, Fits(s), stack' = s, UNCHANGED wire
  PROVE  WaitsInv'
BY DEF WaitsInv, Fits, Stacked, IsSeq, Linked, Wired

LEMMA ModeratorClientWaits == WaitsInv /\ ModeratorClient => WaitsInv'
<1> SUFFICES ASSUME WaitsInv, ModeratorClient PROVE WaitsInv'
  OBVIOUS
<1>1. CASE ReadFigures \/ \E do \in {"block", "unblock", "delete"} : ChangeUser(do)
  BY <1>1, SendWaits DEF ReadFigures, ReadUsers, ReadBooks, ChangeUser, AskUsers, Send
<1>2. CASE UsersReturn
  BY <1>2, SendWaits, EndsFits DEF UsersReturn, Returned, SendNext
<1>3. CASE ChangeReturns \/ BooksReturn \/ RemoveReturns \/ ModerateReturns \/ EditReturns
  BY <1>3, EndsFits DEF ChangeReturns, BooksReturn, RemoveReturns, ModerateReturns,
     EditReturns, Returned
<1>4. ASSUME NEW b \in Books,
             \/ DeleteBook(b) \/ UpdateBookInfo(b)
             \/ \E active \in BOOLEAN : SetBookStatus(b, active)
             \/ \E op \in {"reviews", "details"} : ShowBook(op, b)
      PROVE  WaitsInv'
  BY <1>4, SendWaits DEF DeleteBook, UpdateBookInfo, SetBookStatus, ShowBook, Send
<1>5. ASSUME NEW op, ShowReturns(op) PROVE WaitsInv'
  BY <1>5, EndsFits DEF ShowReturns, Returned
<1>6. CASE ReadOpinions
  BY <1>6, SendWaits, IdleFits DEF ReadOpinions, Send, Idle
<1>7. CASE OpinionsReturn
  <2>1. stack # <<>> /\ Innermost.got # None
    BY <1>7 DEF OpinionsReturn, Returned
  <2>2. \A left, out, old, kept, stale : Collect(left, out, old, kept, stale) => WaitsInv'
    <3> SUFFICES ASSUME NEW left, NEW out, NEW old, NEW kept, NEW stale,
                        Collect(left, out, old, kept, stale)
                 PROVE  WaitsInv'
      OBVIOUS
    <3>1. \/ Ends(FALSE)
          \/ \E arg, late : SendNext("opinions", "reviews", arg, late)
      BY DEF Collect
    <3> QED
      BY <2>1, <3>1, SendWaits, EndsFits DEF SendNext
  <2> QED
    BY <1>7, <2>2 DEF OpinionsReturn
<1> QED
  BY <1>1, <1>2, <1>3, <1>4, <1>5, <1>6, <1>7 DEF ModeratorClient

LEMMA ModeratorServerWaits == WaitsInv /\ ModeratorServer => WaitsInv'
<1> SUFFICES ASSUME WaitsInv, ModeratorServer PROVE WaitsInv'
  OBVIOUS
<1>1. Fits(Overtaken(stack)) /\ Wired(wire)
  BY OvertakenFits DEF WaitsInv
<1>2. \A do, names : Asked(do) /\ Changed(names) => WaitsInv'
  <2> SUFFICES ASSUME NEW do, NEW names, Asked(do), Changed(names) PROVE WaitsInv'
    OBVIOUS
  <2>1. wire # <<>> /\ ReplyTo(Overtaken(stack), Ok(0)) /\ Ok(0) # None
    BY RepliesDiffer DEF Asked, Changed
  <2> QED
    BY <1>1, <2>1, ReplyFits
<1>3. \A do, as : HandleUser(do, as) => WaitsInv'
  BY <1>2, ServedFits DEF HandleUser
<1>4. \A do, becomes : HandleBook(do, becomes) => WaitsInv'
  BY <1>2, ServedFits DEF HandleBook
<1>5. CASE HandleBlockUser \/ HandleUnblockUser \/ HandleDeleteUser \/ HandleModerateBook
           \/ HandleRemoveBookByAdmin
  BY <1>3, <1>4, <1>5 DEF HandleBlockUser, HandleUnblockUser, HandleDeleteUser,
     HandleModerateBook, HandleRemoveBookByAdmin
<1>6. CASE HandleGetUsersList \/ HandleAllBooks \/ HandleReviews \/ HandleEditBook
  BY <1>6, ServedFits DEF HandleGetUsersList, HandleAllBooks, HandleReviews, HandleEditBook
<1>7. CASE OthersModerate
  BY <1>1, <1>7, ElsewhereWaits DEF OthersModerate, Elsewhere
<1> QED
  BY <1>5, <1>6, <1>7 DEF ModeratorServer

LEMMA MonitorWaits == WaitsInv /\ MonitorNext => WaitsInv'
<1> SUFFICES ASSUME WaitsInv, MonitorNext PROVE WaitsInv'
  OBVIOUS
<1>1. ASSUME NEW p, ReadPanel(p) PROVE WaitsInv'
  BY <1>1, SendWaits DEF ReadPanel, Send
<1>2. CASE PanelReturns \/ KickReturns
  BY <1>2, EndsFits DEF PanelReturns, KickReturns, Returned
<1>3. CASE RefreshServer
  BY <1>3, OverrunFits, SendFits DEF RefreshServer, WaitsInv
<1>4. CASE RefreshReturns
  BY <1>4, SendWaits, EndsFits DEF RefreshReturns, Returned, SendNext
<1>5. CASE ClearLogs
  BY <1>5, IdleFits DEF ClearLogs, Idle
<1>6. CASE DisconnectClient
  BY <1>6, SendWaits DEF DisconnectClient, Send
<1>7. ASSUME NEW topic, HandleGetServerFigures(topic) PROVE WaitsInv'
  BY <1>7, ServedFits DEF HandleGetServerFigures
<1>8. CASE HandleKick
  BY <1>8, ServedFits DEF HandleKick
<1>9. CASE FiguresChange
  BY <1>9, ElsewhereWaits DEF FiguresChange, Elsewhere, WaitsInv
<1> QED
  BY <1>1, <1>2, <1>3, <1>4, <1>5, <1>6, <1>7, <1>8, <1>9 DEF MonitorNext

LEMMA ReaderWaits == WaitsInv /\ ReaderNext => WaitsInv'
<1> SUFFICES ASSUME WaitsInv, ReaderNext PROVE WaitsInv'
  OBVIOUS
<1>1. CASE (\E b \in Readable : OpenBook(b)) \/ (\E p \in 1..MaxPage : TurnPage(p))
           \/ TurnBlindly \/ PdfReady
  BY <1>1, IdleFits DEF OpenBook, TurnPage, TurnBlindly, TurnTo, PdfReady, Idle
<1>2. CASE StartOpen
  BY <1>2, SendWaits DEF StartOpen, Send
<1>3. CASE OpenReturns \/ DownloadReturns
  BY <1>3, SendWaits, EndsFits DEF OpenReturns, DownloadReturns, Returned, SendNext
<1>4. CASE CloseBook
  BY <1>4, IdleFits, PostFits DEF CloseBook
<1>5. CASE HandleGetBookDetails \/ HandleDownloadBookPdf \/ HandleSyncStudyPage
  BY <1>5, ServedFits DEF HandleGetBookDetails, HandleDownloadBookPdf, HandleSyncStudyPage
<1> QED
  BY <1>1, <1>2, <1>3, <1>4, <1>5 DEF ReaderNext

LEMMA SearchWaits == WaitsInv /\ SearchNext => WaitsInv'
<1> SUFFICES ASSUME WaitsInv, SearchNext PROVE WaitsInv'
  OBVIOUS
<1>1. CASE \/ \E q \in Queries : SetQuery(q) \/ SelectSuggestion(q)
           \/ \E g \in Genres : ToggleGenre(g)
           \/ ClearFilters \/ DebounceFires \/ SearchNow
  BY <1>1, IdleFits DEF SetQuery, SelectSuggestion, ToggleGenre, ClearFilters, DebounceFires,
     SearchNow, Start, Quietly, Idle
<1>2. CASE OnAsyncReady
  BY <1>2, SendWaits DEF OnAsyncReady, Send
<1>3. CASE SearchReturns \/ ResultsParsed
  BY <1>3, SendWaits, EndsFits DEF SearchReturns, ResultsParsed, Returned, SendNext, Show
<1>4. CASE HandleSearchBooks \/ HandleOwned
  BY <1>4, ServedFits DEF HandleSearchBooks, HandleOwned
<1> QED
  BY <1>1, <1>2, <1>3, <1>4 DEF SearchNext

LEMMA DiscountedFits ==
  ASSUME Fits(stack)
  PROVE  /\ Fits(Discounted) /\ Len(Discounted) = Len(stack)
         /\ \A i \in 1 .. Len(stack) : Discounted[i].op = stack[i].op
         /\ \A e \in ToSet(Discounted) : \E o \in ToSet(stack) :
              /\ IsEntry(o)
              /\ e = IF o.op = "parse" THEN [o EXCEPT !.arg.behind = TRUE]
                     ELSE [o EXCEPT !.old = @ \/ (o.op \in {"sections", "related", "books"}
                                                 /\ o.got # None)]
         /\ \A o \in ToSet(stack) : \E e \in ToSet(Discounted) : e.op = o.op
<1> DEFINE s == Discounted
           New(o) == IF o.op = "parse" THEN [o EXCEPT !.arg.behind = TRUE]
                         ELSE [o EXCEPT !.old = @ \/ (o.op \in {"sections", "related", "books"}
                                                     /\ o.got # None)]
<1>1. \A i \in DOMAIN stack : s[i] = New(stack[i])
  BY DEF Discounted
<1>2. \A o : IsEntry(o) => /\ IsEntry(New(o)) /\ New(o).got = o.got
                           /\ New(o).do = o.do /\ New(o).op = o.op
  BY DEF IsEntry
<1>3. s = [i \in DOMAIN stack |-> s[i]]
  BY DEF Discounted
<1>4. \A i \in DOMAIN stack : IsEntry(stack[i])
  BY StackEntries
<1>5. DOMAIN stack = 1 .. Len(stack)
  BY SeqShape DEF Fits, Stacked
<1> HIDE DEF s, New
<1>6. /\ Fits(s) /\ Len(s) = Len(stack) /\ DOMAIN s = DOMAIN stack
      /\ \A e \in ToSet(s) : \E i \in DOMAIN stack : e = s[i] /\ stack[i] \in ToSet(stack)
      /\ \A o \in ToSet(stack) : \E i \in DOMAIN stack : o = stack[i] /\ s[i] \in ToSet(s)
  BY <1>1, <1>2, <1>3, <1>4, MarkedFits
<1>7. \A e \in ToSet(s) : \E o \in ToSet(stack) : IsEntry(o) /\ e = New(o)
  BY <1>1, <1>4, <1>6
<1>8. \A o \in ToSet(stack) : \E e \in ToSet(s) : e.op = o.op
  BY <1>1, <1>2, <1>4, <1>6
<1>9. \A i \in 1 .. Len(stack) : s[i].op = stack[i].op
  BY <1>1, <1>2, <1>4, <1>5
<1> QED
  BY <1>6, <1>7, <1>8, <1>9 DEF s, New

LEMMA CheckedOutFits ==
  ASSUME Fits(stack)
  PROVE  /\ Fits(CheckedOut) /\ Len(CheckedOut) = Len(stack)
         /\ \A i \in 1 .. Len(stack) : CheckedOut[i].op = stack[i].op
         /\ \A e \in ToSet(CheckedOut) : \E o \in ToSet(stack) :
              /\ IsEntry(o)
              /\ e = [o EXCEPT !.old = @ \/ o.op = "books"
                                 \/ (o.op \in {"resume", "parse", "known"} /\ o.got # None)]
         /\ \A o \in ToSet(stack) : \E e \in ToSet(CheckedOut) : e.op = o.op
<1> DEFINE s == CheckedOut
           New(o) == [o EXCEPT !.old = @ \/ o.op = "books"
                                 \/ (o.op \in {"resume", "parse", "known"} /\ o.got # None)]
<1>1. \A i \in DOMAIN stack : s[i] = New(stack[i])
  BY DEF CheckedOut
<1>2. \A o : IsEntry(o) => /\ IsEntry(New(o)) /\ New(o).got = o.got
                           /\ New(o).do = o.do /\ New(o).op = o.op
  BY DEF IsEntry
<1>3. s = [i \in DOMAIN stack |-> s[i]]
  BY DEF CheckedOut
<1>4. \A i \in DOMAIN stack : IsEntry(stack[i])
  BY StackEntries
<1>5. DOMAIN stack = 1 .. Len(stack)
  BY SeqShape DEF Fits, Stacked
<1> HIDE DEF s, New
<1>6. /\ Fits(s) /\ Len(s) = Len(stack) /\ DOMAIN s = DOMAIN stack
      /\ \A e \in ToSet(s) : \E i \in DOMAIN stack : e = s[i] /\ stack[i] \in ToSet(stack)
      /\ \A o \in ToSet(stack) : \E i \in DOMAIN stack : o = stack[i] /\ s[i] \in ToSet(s)
  BY <1>1, <1>2, <1>3, <1>4, MarkedFits
<1>7. \A e \in ToSet(s) : \E o \in ToSet(stack) : IsEntry(o) /\ e = New(o)
  BY <1>1, <1>4, <1>6
<1>8. \A o \in ToSet(stack) : \E e \in ToSet(s) : e.op = o.op
  BY <1>1, <1>2, <1>4, <1>6
<1>9. \A i \in 1 .. Len(stack) : s[i].op = stack[i].op
  BY <1>1, <1>2, <1>4, <1>5
<1> QED
  BY <1>6, <1>7, <1>8, <1>9 DEF s, New

LEMMA FillWaits ==
  ASSUME WaitsInv, NEW s, Fits(s), NEW left, NEW names, NEW o, Fill(s, left, names, o)
  PROVE  WaitsInv'
<1>1. \/ stack' = s /\ wire' = wire
      \/ \E op, do, arg : SendOn(s, op, do, arg, FALSE)
  BY DEF Fill, Stays
<1> QED
  BY <1>1, SendFits, ElsewhereWaits DEF WaitsInv

LEMMA LoadWaits ==
  ASSUME WaitsInv, NEW s, Fits(s), NEW o, LoadWave1(s, o) \/ RefreshFor(s, o)
  PROVE  WaitsInv'
<1>1. \/ LoadWave1(s, o)
      \/ stack' = s /\ wire' = wire
  BY DEF RefreshFor, Stays
<1>2. CASE LoadWave1(s, o)
  <2>1. \/ \E left, names, x : Fill(s, left, names, x)
        \/ SendOn(s, "resume", "library", <<>>, FALSE)
    BY <1>2 DEF LoadWave1
  <2> QED
    BY <2>1, FillWaits, SendFits DEF WaitsInv
<1> QED
  BY <1>1, <1>2, ElsewhereWaits

LEMMA HomeWaits == WaitsInv /\ HomeNext => WaitsInv'
<1> SUFFICES ASSUME WaitsInv, HomeNext PROVE WaitsInv'
  OBVIOUS
<1>1. /\ Fits(stack) /\ Fits(Discounted) /\ Fits(CheckedOut)
      /\ stack # <<>> /\ Innermost.got # None => Fits(Under)
  BY DiscountedFits, CheckedOutFits, UnderFits DEF WaitsInv
<1>2. CASE RefreshTimer \/ EventComes \/ CheckoutSucceeded
  BY <1>1, <1>2, LoadWaits DEF RefreshTimer, EventComes, CheckoutSucceeded
<1>3. CASE LoadWave2
  BY <1>1, <1>3, FillWaits DEF LoadWave2
<1>4. CASE Expire
  BY <1>4, IdleFits DEF Expire, Idle
<1>5. CASE SectionsReturn
  BY <1>1, <1>5, SendWaits, FillWaits DEF SectionsReturn, Returned
<1>6. CASE ParseReturns
  <2>1. Fits(Under)
    BY <1>1, <1>6 DEF ParseReturns, Returned
  <2>2. TryAgain("parse") \/ \E left, names, o : Fill(Under, left, names, o)
    BY <1>6 DEF ParseReturns
  <2> QED
    BY <1>6, <2>1, <2>2, SendWaits, FillWaits DEF TryAgain, SendNext, ParseReturns, Returned
<1>7. CASE ResumeReturns \/ ResumeBooksReturn
  BY <1>1, <1>7, SendWaits, FillWaits DEF ResumeReturns, ResumeBooksReturn, Returned
<1>8. CASE ReadRelated \/ RelatedReturn
  BY <1>8, SendWaits, EndsFits DEF ReadRelated, RelatedReturn, Returned, SendNext
<1>9. CASE KnownReturn
  BY <1>9, SendWaits, EndsFits DEF KnownReturn, Returned, TryAgain, SendNext
<1>10. CASE HandleGetHomeSections \/ HandleGetBooksByIds \/ HandleGetLibrary
  BY <1>10, ServedFits DEF HandleGetHomeSections, HandleGetBooksByIds, HandleGetLibrary
<1>11. CASE ApplyDiscount
  BY <1>1, <1>11, ElsewhereWaits DEF ApplyDiscount, Elsewhere
<1> QED
  BY <1>2, <1>3, <1>4, <1>5, <1>6, <1>7, <1>8, <1>9, <1>10, <1>11 DEF HomeNext

LEMMA RefreshWaits ==
  ASSUME WaitsInv, RefreshFigures, UNCHANGED wire
  PROVE  WaitsInv'
BY OverrunFits, ElsewhereWaits DEF RefreshFigures, WaitsInv

LEMMA WaitsStep == WaitsInv /\ [Next]_vars => WaitsInv'
<1> SUFFICES ASSUME WaitsInv, [Next]_vars PROVE WaitsInv'
  OBVIOUS
<1>1. CASE Moderate \/ Watch \/ Read \/ Browse \/ Find
  BY <1>1, ModeratorClientWaits, ModeratorServerWaits, MonitorWaits, ReaderWaits, HomeWaits,
     SearchWaits DEF Moderate, Watch, Read, Browse, Find
<1>2. CASE AdminRefresh
  BY <1>2, RefreshWaits DEF AdminRefresh
<1>3. CASE Disconnect \/ GiveUp
  BY <1>3, FaultFits DEF Disconnect, GiveUp
<1>4. CASE UNCHANGED vars
  BY <1>4, IdleFits DEF vars, waits
<1> QED
  BY <1>1, <1>2, <1>3, <1>4 DEF Next

LEMMA InitWaits == Init => WaitsInv
<1> SUFFICES ASSUME stack = <<>>, wire = <<>> PROVE WaitsInv
  BY DEF Init, WaitsInit
<1>1. ToSet(<<>>) = {} /\ DOMAIN <<>> = {} /\ IsSeq(<<>>)
  BY EmptySeq DEF ToSet, IsSeq
<1> QED
  BY <1>1 DEF WaitsInv, Fits, Stacked, Wired, Linked

-----------------------------------------------------------------------------
(* The search page.                                                        *)

SearchEntry(e) ==
  /\ \/ e.op = "search" /\ e.do = "search"
     \/ /\ e.op = "parse" /\ e.do = "owned"
        /\ e.arg = [query |-> e.arg.query, again |-> e.arg.again]
  /\ e.op = "search" /\ e.got.is = "ok" => e.got.data = e.arg
  /\ debounce \/ skipped \/ e.arg.query = crit.query

\* One search waits at most, for the words of now unless another is scheduled or
\* has been dropped.
SearchPage ==
  /\ crit = [query |-> crit.query, genre |-> crit.genre]
  /\ Len(stack) <= 1 /\ (stack # <<>> <=> busy = "run")
  /\ \A e \in ToSet(stack) : SearchEntry(e)
  /\ \A w \in ToSet(wire), e \in ToSet(stack) : w.depth # 0 => w.arg = e.arg
  /\ searching => busy # "no"
  /\ busy = "no" /\ searched /\ ~ debounce => found \in {Nothing, crit} \/ skipped

SearchInv == IF shell = "search" THEN SearchPage ELSE SearchInit

LEMMA SearchCrit ==
  ASSUME crit = [query |-> crit.query, genre |-> crit.genre]
  PROVE  /\ \A q : [crit EXCEPT !.query = q] = [query |-> q, genre |-> crit.genre]
         /\ \A g : [crit EXCEPT !.genre = g] = [query |-> crit.query, genre |-> g]
         /\ Unfiltered = [query |-> Unfiltered.query, genre |-> Unfiltered.genre]
<1>1. Unfiltered = [query |-> Unfiltered.query, genre |-> Unfiltered.genre]
  BY SearchAssumption
<1> QED
  BY <1>1

\* The only request that waits.
LEMMA SendAlone ==
  ASSUME Wired(wire), NEW s, Fits(s), ToSet(s) = {}, \A w \in ToSet(wire) : w.depth = 0,
         NEW op, NEW do, NEW arg, NEW old, SendOn(s, op, do, arg, old)
  PROVE  /\ stack' # <<>> /\ Len(stack') = Len(s) + 1
         /\ \A e \in ToSet(stack') : e.op = op /\ e.do = do /\ e.arg = arg /\ e.got = None
         /\ \A w \in ToSet(wire') : w.depth # 0 => w.arg = arg
<1>1. /\ ToSet(stack') = ToSet(s) \cup {Entry(op, do, arg, old)}
      /\ stack' # <<>> /\ Len(stack') = Len(s) + 1
      /\ \A w \in ToSet(wire') : w \in ToSet(wire) \/ (w.do = do /\ w.arg = arg)
  BY SendFits
<1> QED
  BY <1>1, EntryIs

LEMMA SearchStep == WaitsInv /\ SearchPage /\ SearchNext => SearchPage'
<1> SUFFICES ASSUME WaitsInv, SearchPage, SearchNext PROVE SearchPage'
  OBVIOUS
<1>a. /\ crit = [query |-> crit.query, genre |-> crit.genre]
      /\ Len(stack) \in Nat /\ Len(stack) <= 1 /\ (stack = <<>> <=> Len(stack) = 0)
      /\ \A e \in ToSet(stack) : SearchEntry(e) /\ IsEntry(e)
  BY SeqShape DEF SearchPage, WaitsInv, Fits, Stacked
<1>1. CASE \/ \E q \in Queries : SetQuery(q)
           \/ \E g \in Genres : ToggleGenre(g)
           \/ ClearFilters
  <2>1. /\ crit' = [query |-> crit'.query, genre |-> crit'.genre] /\ debounce' = TRUE
        /\ UNCHANGED <<stack, wire, searched, searching, busy, found, skipped>>
    BY <1>1, <1>a, SearchCrit DEF SetQuery, ToggleGenre, ClearFilters, Quietly, Idle, page
  <2>2. \A e \in ToSet(stack) : SearchEntry(e)'
    BY <1>a, <2>1 DEF SearchEntry
  <2> QED
    BY <2>1, <2>2 DEF SearchPage
<1>2. CASE DebounceFires \/ SearchNow \/ \E q \in Queries : SelectSuggestion(q)
  <2>1. /\ crit' = [query |-> crit'.query, genre |-> crit'.genre]
        /\ searching' /\ busy' = (IF busy = "no" THEN "timer" ELSE busy)
        /\ skipped' = (busy = "run") /\ UNCHANGED <<stack, wire, found>>
    BY <1>2, <1>a, SearchCrit DEF DebounceFires, SearchNow, SelectSuggestion, Start, Quietly,
       Idle
  <2>2. \A e \in ToSet(stack) : SearchEntry(e)'
    <3>1. ToSet(stack) # {} => busy = "run"
      BY DEF SearchPage, ToSet
    <3> QED
      BY <1>a, <2>1, <3>1 DEF SearchEntry
  <2>3. busy' # "no"
    BY <2>1
  <2> QED
    BY <2>1, <2>2, <2>3 DEF SearchPage
<1>3. CASE OnAsyncReady
  <2>0. PICK arg, no : arg = [query |-> crit.query] /\ no = FALSE
    OBVIOUS
  <2>1. /\ SendOn(stack, "search", "search", arg, no)
        /\ busy = "timer" /\ busy' = "run"
        /\ UNCHANGED <<crit, debounce, searching, searched, skipped>>
    BY <1>3, <2>0 DEF OnAsyncReady, Send
  <2>2. /\ stack = <<>> /\ Len(stack) = 0 /\ ToSet(stack) = {}
        /\ Wired(wire) /\ Fits(stack)
    BY <1>a, <2>1 DEF SearchPage, WaitsInv, ToSet
  <2>3. \A w \in ToSet(wire) : w.depth = 0
    BY <1>a, <2>2 DEF Fits, Linked, ToSet
  <2>4. /\ stack' # <<>> /\ Len(stack') = Len(stack) + 1
        /\ \A e \in ToSet(stack') :
             e.op = "search" /\ e.do = "search" /\ e.arg = arg /\ e.got = None
        /\ \A w \in ToSet(wire') : w.depth # 0 => w.arg = arg
    <3>1. /\ ToSet(stack) = {} /\ Wired(wire) /\ Fits(stack)
          /\ SendOn(stack, "search", "search", arg, no)
      BY <2>1, <2>2
    <3> QED
      BY <2>3, <3>1, SendAlone
  <2>5. \A e \in ToSet(stack') : SearchEntry(e)'
    BY <2>0, <2>1, <2>4, RepliesDiffer DEF SearchEntry
  <2> QED
    BY <1>a, <2>1, <2>2, <2>4, <2>5 DEF SearchPage
<1>4. CASE SearchReturns \/ ResultsParsed
  <2>0. stack # <<>> /\ Innermost.got # None /\ (Returned("search") \/ Returned("parse"))
    BY <1>4 DEF SearchReturns, ResultsParsed, Returned
  <2>1. /\ Fits(Under) /\ Len(Under) = 0 /\ Len(stack) = 1 /\ Innermost \in ToSet(stack)
    BY <1>a, <2>0, UnderFits
  <2>2. /\ Under = <<>> /\ ToSet(Under) = {} /\ SearchEntry(Innermost) /\ busy = "run"
        /\ \A w \in ToSet(wire) : w.depth = 0
    <3>1. Under = <<>>
      BY <2>1, SeqShape DEF Fits, Stacked
    <3> QED
      BY <1>a, <2>0, <2>1, <3>1 DEF SearchPage, Fits, Linked, ToSet
  <2>3. ASSUME NEW arg, SendNext("parse", "owned", arg, FALSE), UNCHANGED searchVars,
               arg = [query |-> arg.query, again |-> arg.again],
               arg.query = Innermost.arg.query
        PROVE  SearchPage'
    <3>0. \E no : SendOn(Under, "parse", "owned", arg, no)
      BY <2>3 DEF SendNext
    <3>1. /\ stack' # <<>> /\ Len(stack') = Len(Under) + 1
          /\ \A e \in ToSet(stack') : e.op = "parse" /\ e.do = "owned" /\ e.arg = arg
          /\ \A w \in ToSet(wire') : w.depth # 0 => w.arg = arg
      <4>1. /\ ToSet(Under) = {} /\ Wired(wire) /\ Fits(Under)
            /\ \A w \in ToSet(wire) : w.depth = 0
        BY <2>1, <2>2 DEF WaitsInv
      <4> QED
        BY <3>0, <4>1, SendAlone
    <3>2. \A e \in ToSet(stack') : SearchEntry(e)'
      BY <2>2, <2>3, <3>1 DEF SearchEntry, searchVars
    <3> QED
      BY <1>a, <2>1, <2>2, <2>3, <3>1, <3>2 DEF SearchPage, searchVars
  <2>4. ASSUME NEW results, Show(results),
               \/ results = Nothing
               \/ results = [query |-> Innermost.arg.query, genre |-> crit.genre]
        PROVE  SearchPage'
    <3>1. /\ stack' = <<>> /\ ToSet(stack') = {} /\ Len(stack') = 0
          /\ busy' = "no" /\ searching' = FALSE /\ found' = results
          /\ UNCHANGED <<crit, debounce, searched, skipped>>
      BY <2>1, <2>2, <2>4 DEF Show, Ends
    <3>2. found' \in {Nothing, crit} \/ skipped \/ debounce
      BY <1>a, <2>2, <2>4, <3>1 DEF SearchEntry
    <3> QED
      BY <1>a, <3>1, <3>2 DEF SearchPage
  <2>5. CASE SearchReturns
    <3>1. Worked => Got.query = Innermost.arg.query
      BY <2>2, <2>5 DEF SearchReturns, Returned, SearchEntry, Worked, Got
    <3>2. CASE Worked /\ ~ known
      BY <2>3, <2>5, <3>1, <3>2 DEF SearchReturns
    <3>3. CASE ~ (Worked /\ ~ known)
      BY <2>4, <2>5, <3>1, <3>3 DEF SearchReturns
    <3> QED
      BY <3>2, <3>3
  <2>6. CASE ResultsParsed
    <3>1. Innermost.arg = [query |-> Innermost.arg.query, again |-> Innermost.arg.again]
      BY <2>2, <2>6 DEF ResultsParsed, Returned, SearchEntry
    <3>2. CASE ~ Worked /\ Innermost.arg.again
      <4>0. PICK no : no = FALSE
        OBVIOUS
      <4> DEFINE arg == [Innermost.arg EXCEPT !.again = no]
      <4>1. /\ arg = [query |-> arg.query, again |-> arg.again]
            /\ arg.query = Innermost.arg.query
        BY <3>1
      <4>2. SendNext("parse", "owned", arg, FALSE) /\ UNCHANGED searchVars
        BY <2>6, <3>2, <4>0 DEF ResultsParsed
      <4> HIDE DEF arg
      <4> QED
        BY <2>3, <4>1, <4>2
    <3>3. CASE ~ (~ Worked /\ Innermost.arg.again)
      BY <2>4, <2>6, <3>3 DEF ResultsParsed
    <3> QED
      BY <3>2, <3>3
  <2> QED
    BY <1>4, <2>5, <2>6
<1>5. CASE HandleSearchBooks \/ HandleOwned
  <2>1. PICK r : /\ ReplyTo(stack, r) /\ wire # <<>> /\ r # None /\ UNCHANGED searchVars
                 /\ \/ Head(wire).do = "search" /\ r = Ok(Head(wire).arg)
                    \/ Head(wire).do = "owned"
    BY <1>5, RepliesDiffer DEF HandleSearchBooks, HandleOwned, Asked, Answer, Arg
  <2> DEFINE d == Head(wire).depth
             g == Given(stack[d], r)
  <2>2. /\ Len(stack') = Len(stack) /\ (stack' = <<>> <=> stack = <<>>)
        /\ ToSet(wire') \subseteq ToSet(wire) /\ Head(wire) \in ToSet(wire)
        /\ \/ stack' = stack
           \/ /\ d # 0 /\ stack[d].do = Head(wire).do /\ stack[d] \in ToSet(stack)
              /\ ToSet(stack') \subseteq ToSet(stack) \cup {g}
    BY <2>1, ReplyFits DEF WaitsInv
  <2>3. ASSUME d # 0, stack[d].do = Head(wire).do, stack[d] \in ToSet(stack)
        PROVE  SearchEntry(g) /\ g.arg = stack[d].arg
    <3>1. g.op = stack[d].op /\ g.do = stack[d].do /\ g.arg = stack[d].arg /\ g.got = r
      BY GivenEntry
    <3>2. SearchEntry(stack[d]) /\ Head(wire).arg = stack[d].arg
      BY <2>2, <2>3 DEF SearchPage
    <3>3. g.op = "search" /\ g.got.is = "ok" => g.got.data = g.arg
      BY <2>1, <2>3, <3>1, <3>2, RepliesDiffer DEF SearchEntry
    <3> HIDE DEF g
    <3> QED
      BY <3>1, <3>2, <3>3 DEF SearchEntry
  <2> HIDE DEF g, d
  <2>4. \A e \in ToSet(stack') :
          SearchEntry(e) /\ \E o \in ToSet(stack) : e.arg = o.arg
    BY <1>a, <2>2, <2>3
  <2>5. \A e \in ToSet(stack') : SearchEntry(e)'
    BY <2>1, <2>4 DEF SearchEntry, searchVars
  <2> QED
    BY <1>a, <2>1, <2>2, <2>4, <2>5 DEF SearchPage, searchVars
<1> QED
  BY <1>1, <1>2, <1>3, <1>4, <1>5 DEF SearchNext

\* A wait that ends without a reply leaves the page as it is.
LEMMA SearchFilled ==
  ASSUME SearchPage, Filled("", {Failed}), UNCHANGED searchVars
  PROVE  SearchPage'
<1>1. \A e \in ToSet(stack') : SearchEntry(e) /\ \E o \in ToSet(stack) : e.arg = o.arg
  <2> SUFFICES ASSUME NEW e \in ToSet(stack'), e \notin ToSet(stack)
               PROVE  SearchEntry(e) /\ \E o \in ToSet(stack) : e.arg = o.arg
    BY DEF SearchPage
  <2>1. PICK o \in ToSet(stack) : e = Given(o, Failed)
    BY DEF Filled
  <2>2. e.op = o.op /\ e.do = o.do /\ e.arg = o.arg /\ e.got.is = "no"
    <3>1. e.op = o.op /\ e.do = o.do /\ e.arg = o.arg /\ e.got = Failed
      BY <2>1, GivenEntry
    <3> QED
      BY <3>1, RepliesDiffer
  <2>3. SearchEntry(o)
    BY DEF SearchPage
  <2> QED
    BY <2>2, <2>3 DEF SearchEntry
<1>2. \A e \in ToSet(stack') : SearchEntry(e)'
  BY <1>1 DEF SearchEntry, searchVars
<1>3. \A w \in ToSet(wire'), e \in ToSet(stack') : w.depth # 0 => w.arg = e.arg
  BY <1>1 DEF SearchPage, Filled
<1> QED
  BY <1>2, <1>3 DEF SearchPage, Filled, searchVars

LEMMA SearchInvStep == WaitsInv /\ SearchInv /\ [Next]_vars => SearchInv'
<1> SUFFICES ASSUME WaitsInv, SearchInv, [Next]_vars PROVE SearchInv'
  OBVIOUS
<1>1. CASE Find
  BY <1>1, SearchStep DEF Find, SearchInv
<1>2. CASE Disconnect \/ GiveUp
  BY <1>2, FaultFits, SearchFilled DEF Disconnect, GiveUp, otherThanHome, SearchInv, SearchInit,
     searchVars
<1>3. CASE Moderate \/ Watch \/ AdminRefresh \/ Read \/ Browse
  <2>1. UNCHANGED <<shell, searchVars>> /\ shell # "search"
    BY <1>3 DEF Moderate, Watch, AdminRefresh, Read, Browse, otherThanHome
  <2> QED
    BY <2>1 DEF SearchInv, SearchInit, searchVars
<1>4. CASE UNCHANGED vars
  BY <1>4 DEF vars, waits, otherThanHome, SearchInv, SearchPage, SearchEntry, SearchInit, searchVars
<1> QED
  BY <1>1, <1>2, <1>3, <1>4 DEF Next

LEMMA InitSearch == Init => SearchInv
<1> SUFFICES ASSUME stack = <<>>, wire = <<>>, SearchInit PROVE SearchInv
  BY DEF Init, WaitsInit
<1>1. /\ ToSet(stack) = {} /\ Len(stack) = 0
      /\ crit = [query |-> crit.query, genre |-> crit.genre]
  BY SearchAssumption DEF SearchInit, ToSet
<1> QED
  BY <1>1 DEF SearchInv, SearchPage, SearchInit

LEMMA SearchSafe == WaitsInv /\ SearchInv => ResultsMatch
BY DEF SearchInv, SearchPage, SearchInit, ResultsMatch, AtRest

\* The results that the search page shows when nothing is under way are those of
\* its criteria (SearchViewModel over BookService::search).
THEOREM ResultsAreOfTheCriteria == Spec => []ResultsMatch
<1>1. Init => WaitsInv /\ SearchInv
  BY InitWaits, InitSearch
<1>2. WaitsInv /\ SearchInv /\ [Next]_vars => (WaitsInv /\ SearchInv)'
  BY WaitsStep, SearchInvStep
<1> QED
  BY <1>1, <1>2, SearchSafe, PTL DEF Spec

-----------------------------------------------------------------------------
(* The administrator's figures.                                            *)

Service(p) == IF p \in Eager THEN "admin" ELSE "server"
IsPanel(e) == e.op \in {"panel", "refresh"}

\* A reply that is not old came after the last refresh.
MonitorEntry(e) ==
  /\ \/ e.op = "kick" /\ e.do = "kick"
     \/ /\ IsPanel(e) /\ e.do # "kick"
        /\ e.arg = [panel |-> e.arg.panel] /\ e.arg.panel \in Panels
  /\ e.op = "refresh" => e.arg.panel \in {"logs", "clients"}
  /\ IsPanel(e) /\ e.got.is = "ok" =>
       e.got.data \in Nat /\ (e.old = TRUE \/ e.got.data >= since[Service(e.arg.panel)])

\* A panel is not valid, or fresh, or it is being read.
PanelFine(p) ==
  \/ ~ panel[p].clean \/ panel[p].seen = 0 \/ p \in outrun
  \/ panel[p].seen >= since[Service(p)]
  \/ p \in Eager /\ \E e \in ToSet(stack) : e.op = "panel" /\ e.arg.panel = p

MonitorKept ==
  /\ figures \in Nat /\ since \in [{"admin", "server"} -> 0 .. figures]
  /\ panel \in [Panels -> [seen : Nat, clean : BOOLEAN]]
  /\ \A e \in ToSet(stack) : MonitorEntry(e)
  /\ \A p \in Panels : PanelFine(p)

MonitorInv ==
  IF shell = "monitor" THEN MonitorKept
  ELSE /\ panel \in [Panels -> [seen : Nat, clean : BOOLEAN]]
       /\ \A p \in Panels : ~ panel[p].clean

LEMMA MonitorSendStep ==
  ASSUME WaitsInv, MonitorKept, NEW p \in Panels, ReadPanel(p)
  PROVE  MonitorKept'
<1>1. /\ panel' \in [Panels -> [seen : Nat, clean : BOOLEAN]]
      /\ \A q \in Panels : panel'[q].seen = panel[q].seen
      /\ \A q \in Panels : q # p => panel'[q] = panel[q]
      /\ p \notin Eager => ~ panel'[p].clean
      /\ UNCHANGED <<figures, since, outrun>>
  <2>1. PICK c \in BOOLEAN : (c <=> p \in Eager) /\ panel' = [panel EXCEPT ![p].clean = c]
    <3>1. panel' = [panel EXCEPT ![p].clean = (p \in Eager)]
      BY DEF ReadPanel
    <3>2. CASE p \in Eager
      <4>1. (p \in Eager) = TRUE
        BY <3>2
      <4>2. panel' = [panel EXCEPT ![p].clean = TRUE]
        BY <3>1, <4>1, Zenon
      <4> QED
        BY <3>2, <4>2, Zenon
    <3>3. CASE p \notin Eager
      <4>1. (p \in Eager) = FALSE
        BY <3>3
      <4>2. panel' = [panel EXCEPT ![p].clean = FALSE]
        BY <3>1, <4>1, Zenon
      <4> QED
        BY <3>3, <4>2, Zenon
    <3> QED
      BY <3>2, <3>3
  <2>2. /\ panel' \in [Panels -> [seen : Nat, clean : BOOLEAN]] /\ panel'[p].clean = c
        /\ \A q \in Panels : panel'[q].seen = panel[q].seen
        /\ \A q \in Panels : q # p => panel'[q] = panel[q]
    BY <2>1 DEF MonitorKept
  <2>3. p \notin Eager => ~ panel'[p].clean
    <3> SUFFICES ASSUME p \notin Eager PROVE ~ panel'[p].clean
      OBVIOUS
    <3>1. c = FALSE
      BY <2>1
    <3> QED
      BY <2>2, <3>1
  <2> QED
    BY <2>2, <2>3 DEF ReadPanel
<1>2. \E do, arg, old : /\ SendOn(stack, "panel", do, arg, old) /\ do # "kick"
                        /\ arg = [panel |-> p]
  BY DEF ReadPanel, Send, Topic
<1>3. PICK e : /\ ToSet(stack') = ToSet(stack) \cup {e} /\ e.op = "panel" /\ e.do # "kick"
               /\ e.arg = [panel |-> p] /\ e.got.is = "none"
  BY <1>2, SendFits, EntryIs, RepliesDiffer DEF WaitsInv
<1>4. MonitorEntry(e)
  BY <1>3 DEF MonitorEntry, IsPanel
<1>5. \A o \in ToSet(stack') : MonitorEntry(o)'
  BY <1>1, <1>3, <1>4 DEF MonitorKept, MonitorEntry
<1>6. \A q \in Panels : PanelFine(q)'
  <2> SUFFICES ASSUME NEW q \in Panels PROVE PanelFine(q)'
    OBVIOUS
  <2>1. CASE q = p
    BY <1>1, <1>3, <2>1 DEF PanelFine
  <2>2. CASE q # p
    BY <1>1, <1>3, <2>2 DEF PanelFine, MonitorKept
  <2> QED
    BY <2>1, <2>2
<1> QED
  BY <1>1, <1>5, <1>6 DEF MonitorKept

\* A reply for panel p is kept: the panel is fresh, or known to have been outrun.
LEMMA KeptReply ==
  ASSUME MonitorKept, Worked, MonitorEntry(Innermost), IsPanel(Innermost),
         NEW p \in Panels, Innermost.arg.panel = p, KeepReply(p), UNCHANGED <<figures, since>>
  PROVE  /\ panel' \in [Panels -> [seen : Nat, clean : BOOLEAN]]
         /\ \A q \in Panels : q # p => panel'[q] = panel[q] /\ (q \in outrun' <=> q \in outrun)
         /\ p \in outrun' \/ panel'[p].seen >= since[Service(p)]
<1>1. Got \in Nat /\ (Innermost.old = TRUE \/ Got >= since[Service(p)])
  BY DEF MonitorEntry, Worked, Got
<1>2. panel' = [panel EXCEPT ![p] = [seen |-> Got, clean |-> @.clean \/ p \in Lazy]]
  BY DEF KeepReply
<1>3. /\ panel' \in [Panels -> [seen : Nat, clean : BOOLEAN]] /\ panel'[p].seen = Got
      /\ \A q \in Panels : q # p => panel'[q] = panel[q]
  BY <1>1, <1>2 DEF MonitorKept
<1>4. outrun' = outrun \cup {p} \/ (Innermost.old # TRUE /\ outrun' = outrun \ {p})
  BY DEF KeepReply
<1> QED
  BY <1>1, <1>3, <1>4

LEMMA InvalidFacts ==
  ASSUME MonitorKept, NEW ps, panel' = Invalid(ps)
  PROVE  /\ panel' \in [Panels -> [seen : Nat, clean : BOOLEAN]]
         /\ \A q \in Panels : /\ q \in ps => ~ panel'[q].clean
                              /\ q \notin ps => panel'[q] = panel[q]
BY DEF MonitorKept, Invalid

\* The answer of the innermost request leaves the stack.
LEMMA MonitorTop ==
  ASSUME WaitsInv, MonitorKept, stack # <<>>, Innermost.got # None
  PROVE  /\ MonitorEntry(Innermost) /\ ToSet(stack) = ToSet(Under) \cup {Innermost}
         /\ \A e \in ToSet(Under) : MonitorEntry(e)
BY UnderFits DEF MonitorKept

LEMMA MonitorEndsStep ==
  ASSUME WaitsInv, MonitorKept, PanelReturns \/ KickReturns
  PROVE  MonitorKept'
<1>1. /\ stack # <<>> /\ Innermost.got # None /\ stack' = Under
      /\ UNCHANGED <<figures, since>>
  BY DEF PanelReturns, KickReturns, Returned, Ends
<1>2. /\ MonitorEntry(Innermost) /\ ToSet(stack) = ToSet(stack') \cup {Innermost}
      /\ \A e \in ToSet(stack') : MonitorEntry(e)
  BY <1>1, MonitorTop
<1>3. \A e \in ToSet(stack') : MonitorEntry(e)'
  BY <1>1, <1>2 DEF MonitorEntry
<1>4. CASE PanelReturns
  <2> DEFINE p == Innermost.arg.panel
  <2>1. Innermost.op = "panel" /\ p \in Panels
    BY <1>2, <1>4 DEF PanelReturns, Returned, MonitorEntry, IsPanel
  <2>2. /\ panel' \in [Panels -> [seen : Nat, clean : BOOLEAN]]
        /\ \A q \in Panels : q # p => panel'[q] = panel[q] /\ (q \in outrun' <=> q \in outrun)
        /\ \/ p \in outrun' \/ panel'[p].seen >= since[Service(p)]
           \/ panel'[p].seen = 0 \/ ~ panel'[p].clean
           \/ p \notin Eager /\ panel'[p] = panel[p] /\ (p \in outrun' <=> p \in outrun)
    <3>1. CASE Worked
      BY <1>1, <1>2, <1>4, <2>1, <3>1, KeptReply DEF PanelReturns, IsPanel
    <3>2. CASE ~ Worked
      <4>1. outrun' = outrun
        BY <1>4, <3>2 DEF PanelReturns
      <4>2. CASE p = "auditLog"
        <5>1. panel' = [panel EXCEPT !["auditLog"].seen = 0]
          BY <1>4, <3>2, <4>2 DEF PanelReturns
        <5> QED
          BY <2>1, <4>1, <4>2, <5>1 DEF MonitorKept
      <4>3. CASE p = "systemHealth"
        <5>1. panel' = Invalid({p})
          BY <1>4, <3>2, <4>3 DEF PanelReturns
        <5>2. PICK ps : ps = {p}
          OBVIOUS
        <5>3. panel' = Invalid(ps)
          BY <5>1, <5>2
        <5>4. /\ panel' \in [Panels -> [seen : Nat, clean : BOOLEAN]]
              /\ \A q \in Panels : /\ q \in ps => ~ panel'[q].clean
                                   /\ q \notin ps => panel'[q] = panel[q]
          BY <5>3, InvalidFacts
        <5> QED
          BY <2>1, <4>1, <5>2, <5>4
      <4>4. CASE p \notin {"auditLog", "systemHealth"}
        <5>1. panel' = panel
          BY <1>4, <3>2, <4>4 DEF PanelReturns
        <5> QED
          BY <4>1, <4>4, <5>1 DEF MonitorKept, Eager
      <4> QED
        BY <4>2, <4>3, <4>4
    <3> QED
      BY <3>1, <3>2
  <2> HIDE DEF p
  <2>3. \A q \in Panels : PanelFine(q)'
    <3> SUFFICES ASSUME NEW q \in Panels PROVE PanelFine(q)'
      OBVIOUS
    <3>1. PanelFine(q)
      BY DEF MonitorKept
    <3>2. CASE q # p
      <4>1. \A e \in ToSet(stack) : e.op = "panel" /\ e.arg.panel = q => e \in ToSet(stack')
        BY <1>2, <3>2 DEF p
      <4> QED
        BY <1>1, <2>2, <3>1, <3>2, <4>1 DEF PanelFine
    <3>3. CASE q = p
      BY <1>1, <2>2, <3>1, <3>3 DEF PanelFine
    <3> QED
      BY <3>2, <3>3
  <2> QED
    BY <1>1, <1>3, <2>2, <2>3 DEF MonitorKept
<1>5. CASE KickReturns
  <2>1. /\ panel' \in [Panels -> [seen : Nat, clean : BOOLEAN]] /\ outrun' = outrun
        /\ \A q \in Panels : panel'[q] = panel[q] \/ ~ panel'[q].clean
    BY <1>5, InvalidFacts DEF KickReturns, MonitorKept
  <2>2. \A e \in ToSet(stack) : e.op = "panel" => e \in ToSet(stack')
    BY <1>2, <1>5 DEF KickReturns, Returned
  <2>3. \A q \in Panels : PanelFine(q)'
    BY <1>1, <2>1, <2>2 DEF MonitorKept, PanelFine
  <2> QED
    BY <1>1, <1>3, <2>1, <2>3 DEF MonitorKept
<1> QED
  BY <1>4, <1>5

\* A refresh of the service of panels ps: the replies that came before it are old.
LEMMA RefreshedEntries ==
  ASSUME WaitsInv, MonitorKept, NEW s \in {"admin", "server"}, NEW ps,
         ps = {p \in Panels : Service(p) = s}, since' = [since EXCEPT ![s] = figures]
  PROVE  /\ Fits(Overrun(ps)) /\ since' \in [{"admin", "server"} -> 0 .. figures]
         /\ \A q \in Panels : q \notin ps => since'[Service(q)] = since[Service(q)]
         /\ \A e \in ToSet(Overrun(ps)) : MonitorEntry(e)'
         /\ \A o \in ToSet(stack) : \E e \in ToSet(Overrun(ps)) : e.op = o.op /\ e.arg = o.arg
<1>1. /\ since' \in [{"admin", "server"} -> 0 .. figures]
      /\ \A q \in Panels : q \notin ps => since'[Service(q)] = since[Service(q)]
  BY DEF MonitorKept, Service
<1>2. /\ Fits(Overrun(ps))
      /\ \A o \in ToSet(stack) : \E e \in ToSet(Overrun(ps)) : e.op = o.op /\ e.arg = o.arg
  BY OverrunFits DEF WaitsInv
<1>3. ASSUME NEW e \in ToSet(Overrun(ps)) PROVE MonitorEntry(e)'
  <2>1. PICK o \in ToSet(stack) :
          /\ e.op = o.op /\ e.do = o.do /\ e.arg = o.arg /\ e.got = o.got
          /\ \/ e.old = TRUE
             \/ /\ e.old = o.old
                /\ o.op \notin {"panel", "refresh"} \/ o.arg.panel \notin ps \/ o.got = None
    BY OverrunFits DEF WaitsInv
  <2>2. MonitorEntry(o)
    BY DEF MonitorKept
  <2>3. CASE e.old = TRUE
    BY <2>1, <2>2, <2>3 DEF MonitorEntry, IsPanel
  <2>4. CASE e.old = o.old /\ (~ IsPanel(o) \/ o.got = None)
    <3>1. IsPanel(e) => e.got.is = "none"
      BY <2>1, <2>4, RepliesDiffer DEF IsPanel
    <3> QED
      BY <2>1, <2>2, <3>1 DEF MonitorEntry, IsPanel
  <2>5. CASE e.old = o.old /\ IsPanel(o) /\ o.arg.panel \notin ps
    <3>1. o.arg.panel \in Panels /\ since'[Service(o.arg.panel)] = since[Service(o.arg.panel)]
      BY <1>1, <2>2, <2>5 DEF MonitorEntry, IsPanel
    <3> QED
      BY <2>1, <2>2, <2>5, <3>1 DEF MonitorEntry, IsPanel
  <2> QED
    BY <2>1, <2>3, <2>4, <2>5 DEF IsPanel
<1> QED
  BY <1>1, <1>2, <1>3

LEMMA ServerRefreshStep == ASSUME WaitsInv, MonitorKept, RefreshServer PROVE MonitorKept'
<1>1. /\ \A p \in Lazy : Service(p) = "server"
      /\ \A p \in Panels : Service(p) = "server" => p \in Lazy
      /\ Lazy \subseteq Panels
  BY DEF Service, Eager, Lazy, Panels
<1>2. PICK ps : ps = Lazy
  OBVIOUS
<1>3. /\ panel' = Invalid(ps) /\ since' = [since EXCEPT !["server"] = figures]
      /\ UNCHANGED <<figures, outrun>>
  BY <1>2 DEF RefreshServer
<1>4. PICK s, no, arg : /\ SendOn(s, "refresh", "logs", arg, no) /\ s = Overrun(ps)
                        /\ arg = [panel |-> "logs"]
  BY <1>2 DEF RefreshServer
<1>5. /\ Fits(s) /\ since' \in [{"admin", "server"} -> 0 .. figures]
      /\ \A q \in Panels : q \notin ps => since'[Service(q)] = since[Service(q)]
      /\ \A e \in ToSet(s) : MonitorEntry(e)'
      /\ \A o \in ToSet(stack) : \E e \in ToSet(s) : e.op = o.op /\ e.arg = o.arg
  <2>1. ps = {p \in Panels : Service(p) = "server"}
    BY <1>1, <1>2
  <2> QED
    BY <1>3, <1>4, <2>1, RefreshedEntries
<1>6. PICK e : /\ ToSet(stack') = ToSet(s) \cup {e} /\ e.op = "refresh" /\ e.do = "logs"
               /\ e.arg = arg /\ e.got.is = "none"
  BY <1>4, <1>5, SendFits, EntryIs, RepliesDiffer DEF WaitsInv
<1>7. MonitorEntry(e)'
  BY <1>4, <1>6 DEF MonitorEntry, IsPanel, Panels, Lazy
<1>8. /\ panel' \in [Panels -> [seen : Nat, clean : BOOLEAN]]
      /\ \A q \in Panels : /\ q \in ps => ~ panel'[q].clean
                           /\ q \notin ps => panel'[q] = panel[q]
  BY <1>3, InvalidFacts
<1>9. \A q \in Panels : PanelFine(q)'
  <2> SUFFICES ASSUME NEW q \in Panels, q \notin ps PROVE PanelFine(q)'
    BY <1>8 DEF PanelFine
  <2>1. PanelFine(q) /\ panel'[q] = panel[q] /\ since'[Service(q)] = since[Service(q)]
    BY <1>5, <1>8 DEF MonitorKept
  <2>2. (\E o \in ToSet(stack) : o.op = "panel" /\ o.arg.panel = q)
        => \E o \in ToSet(stack') : o.op = "panel" /\ o.arg.panel = q
    BY <1>5, <1>6
  <2> QED
    BY <1>3, <2>1, <2>2 DEF PanelFine
<1> QED
  BY <1>3, <1>5, <1>6, <1>7, <1>8, <1>9 DEF MonitorKept

LEMMA AdminRefreshStep ==
  ASSUME WaitsInv, MonitorKept, RefreshFigures
  PROVE  MonitorKept'
<1>1. /\ \A p \in Eager : Service(p) = "admin"
      /\ \A p \in Panels : Service(p) = "admin" => p \in Eager
      /\ Eager \subseteq Panels
  BY DEF Service, Eager, Lazy, Panels
<1>2. PICK ps : ps = Eager
  OBVIOUS
<1>3. /\ panel' = Invalid(ps) /\ since' = [since EXCEPT !["admin"] = figures]
      /\ stack' = Overrun(ps) /\ UNCHANGED <<figures, outrun>>
  BY <1>2 DEF RefreshFigures
<1>5. /\ since' \in [{"admin", "server"} -> 0 .. figures]
      /\ \A q \in Panels : q \notin ps => since'[Service(q)] = since[Service(q)]
      /\ \A e \in ToSet(stack') : MonitorEntry(e)'
      /\ \A o \in ToSet(stack) : \E e \in ToSet(stack') : e.op = o.op /\ e.arg = o.arg
  <2>1. ps = {p \in Panels : Service(p) = "admin"}
    BY <1>1, <1>2
  <2> QED
    BY <1>3, <2>1, RefreshedEntries
<1>8. /\ panel' \in [Panels -> [seen : Nat, clean : BOOLEAN]]
      /\ \A q \in Panels : /\ q \in ps => ~ panel'[q].clean
                           /\ q \notin ps => panel'[q] = panel[q]
  BY <1>3, InvalidFacts
<1>9. \A q \in Panels : PanelFine(q)'
  <2> SUFFICES ASSUME NEW q \in Panels, q \notin ps PROVE PanelFine(q)'
    BY <1>8 DEF PanelFine
  <2>1. PanelFine(q) /\ panel'[q] = panel[q] /\ since'[Service(q)] = since[Service(q)]
    BY <1>5, <1>8 DEF MonitorKept
  <2> QED
    BY <1>2, <1>3, <2>1 DEF PanelFine
<1> QED
  BY <1>3, <1>5, <1>8, <1>9 DEF MonitorKept

LEMMA RefreshReturnsStep == ASSUME WaitsInv, MonitorKept, RefreshReturns PROVE MonitorKept'
<1>1. /\ stack # <<>> /\ Innermost.got # None /\ Innermost.op = "refresh"
      /\ UNCHANGED <<figures, since>>
  BY DEF RefreshReturns, Returned
<1>2. /\ MonitorEntry(Innermost) /\ ToSet(stack) = ToSet(Under) \cup {Innermost}
      /\ \A e \in ToSet(Under) : MonitorEntry(e)
  BY <1>1, MonitorTop
<1>3. PICK p \in {"logs", "clients"} : p = Innermost.arg.panel
  BY <1>1, <1>2 DEF MonitorEntry
<1>4. /\ ToSet(Under) \subseteq ToSet(stack')
      /\ \A e \in ToSet(stack') : MonitorEntry(e)
  <2>1. CASE Ends(TRUE)
    BY <1>2, <2>1 DEF Ends
  <2>2. CASE SendNext("refresh", "clients", [panel |-> "clients"], FALSE)
    <3>1. PICK no, arg : SendOn(Under, "refresh", "clients", arg, no) /\ arg = [panel |-> "clients"]
      BY <2>2 DEF SendNext
    <3>2. PICK e : /\ ToSet(stack') = ToSet(Under) \cup {e} /\ e.op = "refresh"
                   /\ e.do = "clients" /\ e.arg = arg /\ e.got.is = "none"
      BY <1>1, <3>1, UnderFits, SendFits, EntryIs, RepliesDiffer DEF WaitsInv
    <3>3. MonitorEntry(e)
      BY <3>1, <3>2 DEF MonitorEntry, IsPanel, Panels, Lazy
    <3> QED
      BY <1>2, <3>2, <3>3
  <2> QED
    BY <2>1, <2>2 DEF RefreshReturns
<1>5. \A e \in ToSet(stack') : MonitorEntry(e)'
  BY <1>1, <1>4 DEF MonitorEntry
<1>6. /\ panel' \in [Panels -> [seen : Nat, clean : BOOLEAN]]
      /\ \A q \in Panels : q # p => panel'[q] = panel[q] /\ (q \in outrun' <=> q \in outrun)
      /\ \/ p \in outrun' \/ panel'[p].seen >= since[Service(p)]
         \/ panel'[p] = panel[p] /\ outrun' = outrun
  <2>1. p \in Panels /\ p \notin Eager
    BY DEF Panels, Lazy, Eager
  <2>2. CASE Worked
    BY <1>1, <1>2, <1>3, <2>1, <2>2, KeptReply DEF RefreshReturns, IsPanel
  <2>3. CASE ~ Worked
    BY <2>3 DEF RefreshReturns, MonitorKept
  <2> QED
    BY <2>2, <2>3
<1>7. \A e \in ToSet(stack) : e.op = "panel" => e \in ToSet(stack')
  BY <1>1, <1>2, <1>4
<1>8. \A q \in Panels : PanelFine(q)'
  <2> SUFFICES ASSUME NEW q \in Panels PROVE PanelFine(q)'
    OBVIOUS
  <2>1. PanelFine(q)
    BY DEF MonitorKept
  <2>2. CASE q # p
    BY <1>1, <1>6, <1>7, <2>1, <2>2 DEF PanelFine
  <2>3. CASE q = p
    BY <1>1, <1>6, <1>7, <2>1, <2>3 DEF PanelFine
  <2> QED
    BY <2>2, <2>3
<1> QED
  BY <1>1, <1>5, <1>6, <1>8 DEF MonitorKept

\* A wait ends, or the server answers: a reply shows the figures as they are.
LEMMA MonitorFilled ==
  ASSUME MonitorKept, NEW do, NEW x, Filled(do, {Failed, Ok(x)}), do # "kick" => x = figures,
         UNCHANGED monitorVars
  PROVE  MonitorKept'
<1>1. \A e \in ToSet(stack') : MonitorEntry(e)
  <2> SUFFICES ASSUME NEW e \in ToSet(stack'), e \notin ToSet(stack) PROVE MonitorEntry(e)
    BY DEF MonitorKept
  <2>1. PICK o \in ToSet(stack), r \in {Failed, Ok(x)} :
          (r = Failed \/ o.do = do) /\ e = Given(o, r)
    BY DEF Filled
  <2>2. e.op = o.op /\ e.do = o.do /\ e.arg = o.arg /\ e.got = r
    BY <2>1, GivenEntry
  <2>3. MonitorEntry(o)
    BY DEF MonitorKept
  <2>4. IsPanel(e) /\ e.got.is = "ok" => e.got.data = figures
    BY <2>1, <2>2, <2>3, RepliesDiffer DEF MonitorEntry, IsPanel
  <2>5. e.op = "kick" \/ e.arg.panel \in Panels
    BY <2>2, <2>3 DEF MonitorEntry
  <2>6. \A p \in Panels : since[Service(p)] \in 0 .. figures /\ figures \in Nat
    BY DEF MonitorKept, Service
  <2> QED
    BY <2>2, <2>3, <2>4, <2>5, <2>6 DEF MonitorEntry, IsPanel
<1>2. \A e \in ToSet(stack') : MonitorEntry(e)'
  BY <1>1 DEF MonitorEntry, monitorVars
<1>3. \A q \in Panels : PanelFine(q)'
  <2> SUFFICES ASSUME NEW q \in Panels PROVE PanelFine(q)'
    OBVIOUS
  <2>1. PanelFine(q)
    BY DEF MonitorKept
  <2>2. (\E o \in ToSet(stack) : o.op = "panel" /\ o.arg.panel = q)
        => \E o \in ToSet(stack') : o.op = "panel" /\ o.arg.panel = q
    BY DEF Filled
  <2> QED
    BY <2>1, <2>2 DEF PanelFine, monitorVars
<1> QED
  BY <1>2, <1>3 DEF MonitorKept, monitorVars

LEMMA MonitorKeptStep == ASSUME WaitsInv, MonitorKept, MonitorNext PROVE MonitorKept'
<1>1. CASE \E p \in Panels : ReadPanel(p)
  BY <1>1, MonitorSendStep
<1>2. CASE PanelReturns \/ KickReturns
  BY <1>2, MonitorEndsStep
<1>3. CASE RefreshServer
  BY <1>3, ServerRefreshStep
<1>4. CASE RefreshReturns
  BY <1>4, RefreshReturnsStep
<1>5. CASE ClearLogs
  <2>1. PICK yes : yes = TRUE
    OBVIOUS
  <2>2. panel' = [panel EXCEPT !["logs"] = [seen |-> 0, clean |-> yes]]
    BY <1>5, <2>1 DEF ClearLogs
  <2>3. /\ panel' \in [Panels -> [seen : Nat, clean : BOOLEAN]] /\ panel'["logs"].seen = 0
        /\ \A q \in Panels : q # "logs" => panel'[q] = panel[q]
    BY <2>1, <2>2 DEF MonitorKept, Panels, Lazy
  <2>4. /\ UNCHANGED <<figures, since, stack>> /\ outrun' = outrun \ {"logs"}
    BY <1>5 DEF ClearLogs, Idle
  <2>5. \A q \in Panels : PanelFine(q)'
    BY <2>3, <2>4 DEF PanelFine, MonitorKept
  <2>6. \A e \in ToSet(stack') : MonitorEntry(e)'
    BY <2>4 DEF MonitorKept, MonitorEntry
  <2> QED
    BY <2>3, <2>4, <2>5, <2>6 DEF MonitorKept
<1>6. CASE DisconnectClient
  <2>1. PICK no, arg : SendOn(stack, "kick", "kick", arg, no) /\ UNCHANGED monitorVars
    BY <1>6 DEF DisconnectClient, Send
  <2>2. PICK e : ToSet(stack') = ToSet(stack) \cup {e} /\ e.op = "kick" /\ e.do = "kick"
    BY <2>1, SendFits, EntryIs DEF WaitsInv
  <2>3. \A o \in ToSet(stack') : MonitorEntry(o)'
    BY <2>1, <2>2 DEF MonitorKept, MonitorEntry, IsPanel, monitorVars
  <2>4. \A q \in Panels : PanelFine(q)'
    BY <2>1, <2>2 DEF MonitorKept, PanelFine, monitorVars
  <2> QED
    BY <2>1, <2>3, <2>4 DEF MonitorKept, monitorVars
<1>7. CASE \/ \E topic \in {"logs", "health", "clients"} : HandleGetServerFigures(topic)
           \/ HandleKick
  <2>1. PICK do, x : /\ Asked(do) /\ Answer(x) /\ UNCHANGED monitorVars
                     /\ do # "kick" => x = figures
    BY <1>7 DEF HandleGetServerFigures, HandleKick
  <2>2. Filled(do, {Failed, Ok(x)})
    BY <2>1, ServedFits
  <2> QED
    BY <2>1, <2>2, MonitorFilled
<1>8. CASE FiguresChange
  <2>1. figures' = figures + 1 /\ UNCHANGED <<panel, since, outrun, stack>>
    BY <1>8 DEF FiguresChange, Elsewhere
  <2>2. /\ figures' \in Nat /\ since' \in [{"admin", "server"} -> 0 .. figures']
    BY <2>1 DEF MonitorKept
  <2>3. \A o \in ToSet(stack') : MonitorEntry(o)'
    BY <2>1 DEF MonitorKept, MonitorEntry
  <2>4. \A q \in Panels : PanelFine(q)'
    BY <2>1 DEF MonitorKept, PanelFine
  <2> QED
    BY <2>1, <2>2, <2>3, <2>4 DEF MonitorKept
<1> QED
  BY <1>1, <1>2, <1>3, <1>4, <1>5, <1>6, <1>7, <1>8 DEF MonitorNext

LEMMA MonitorInvStep == WaitsInv /\ MonitorInv /\ [Next]_vars => MonitorInv'
<1> SUFFICES ASSUME WaitsInv, MonitorInv, [Next]_vars PROVE MonitorInv'
  OBVIOUS
<1>1. CASE Watch
  BY <1>1, MonitorKeptStep DEF Watch, MonitorInv
<1>2. CASE AdminRefresh
  <2>1. CASE shell = "monitor"
    BY <1>2, <2>1, AdminRefreshStep DEF AdminRefresh, MonitorInv
  <2>2. CASE shell # "monitor"
    <3>1. panel' = Invalid(Eager) /\ UNCHANGED shell
      BY <1>2 DEF AdminRefresh, RefreshFigures
    <3>2. /\ panel' \in [Panels -> [seen : Nat, clean : BOOLEAN]]
          /\ \A p \in Panels : ~ panel'[p].clean
      BY <2>2, <3>1 DEF MonitorInv, Invalid
    <3> QED
      BY <2>2, <3>1, <3>2 DEF MonitorInv
  <2> QED
    BY <2>1, <2>2
<1>3. CASE Disconnect \/ GiveUp
  <2>1. UNCHANGED <<shell, monitorVars>> /\ Filled("", {Failed})
    BY <1>3, FaultFits DEF Disconnect, GiveUp, otherThanHome
  <2>2. \A do, x : Filled(do, {Failed, Ok(x)})
    <3> SUFFICES ASSUME NEW do, NEW x PROVE Filled(do, {Failed, Ok(x)})
      OBVIOUS
    <3>1. \A e \in ToSet(stack') :
            \/ e \in ToSet(stack)
            \/ \E o \in ToSet(stack) : o.got = None /\ e = Given(o, Failed)
      BY <2>1 DEF Filled
    <3> QED
      BY <2>1, <3>1 DEF Filled
  <2>3. Filled("kick", {Failed, Ok(0)})
    BY <2>2
  <2>4. MonitorKept => MonitorKept'
    BY <2>1, <2>3, MonitorFilled
  <2> QED
    BY <2>1, <2>4 DEF MonitorInv, monitorVars
<1>4. CASE Moderate \/ Read \/ Browse \/ Find
  <2>1. UNCHANGED <<shell, monitorVars>> /\ shell # "monitor"
    BY <1>4 DEF Moderate, Find, Read, Browse, otherThanHome
  <2> QED
    BY <2>1 DEF MonitorInv, monitorVars
<1>5. CASE UNCHANGED vars
  <2>1. UNCHANGED <<shell, figures, since, panel, outrun, stack>>
    BY <1>5 DEF vars, waits, otherThanHome, monitorVars
  <2>2. MonitorKept => MonitorKept'
    BY <2>1 DEF MonitorKept, MonitorEntry, PanelFine
  <2> QED
    BY <2>1, <2>2 DEF MonitorInv
<1> QED
  BY <1>1, <1>2, <1>3, <1>4, <1>5 DEF Next

LEMMA InitMonitor == Init => MonitorInv
<1> SUFFICES ASSUME stack = <<>>, MonitorInit PROVE MonitorInv
  BY DEF Init, WaitsInit
<1>1. PICK no : no = FALSE
  OBVIOUS
<1>2. /\ figures = 1 /\ since = [admin |-> 1, server |-> 1] /\ ToSet(stack) = {}
      /\ panel = [p \in Panels |-> [seen |-> 0, clean |-> no]]
  <2>1. ToSet(stack) = {}
    BY DEF ToSet
  <2>2. /\ figures = 1 /\ since = [admin |-> 1, server |-> 1]
        /\ panel = [p \in Panels |-> [seen |-> 0, clean |-> no]]
    BY <1>1, Zenon DEF MonitorInit
  <2> QED
    BY <2>1, <2>2
<1>3. /\ panel \in [Panels -> [seen : Nat, clean : BOOLEAN]]
      /\ \A p \in Panels : ~ panel[p].clean
  BY <1>1, <1>2
<1>4. figures \in Nat /\ since \in [{"admin", "server"} -> 0 .. figures]
  BY <1>2
<1> QED
  BY <1>2, <1>3, <1>4 DEF MonitorInv, MonitorKept, PanelFine

LEMMA MonitorSafe == WaitsInv /\ MonitorInv => FiguresFresh
<1> SUFFICES ASSUME MonitorInv, stack = <<>>, NEW p \in Panels
             PROVE  \/ ~ panel[p].clean \/ panel[p].seen = 0 \/ p \in outrun
                    \/ panel[p].seen >= since[Service(p)]
  BY DEF FiguresFresh, AtRest, Service
<1>1. ToSet(stack) = {}
  BY DEF ToSet
<1> QED
  BY <1>1 DEF MonitorInv, MonitorKept, PanelFine

\* A panel that counts as valid when nothing is under way shows the server's
\* figures from after the last refresh of its service, or is known to have been
\* outrun by one (AdminService, ServerService).
THEOREM PanelsAreFresh == Spec => []FiguresFresh
<1>1. Init => WaitsInv /\ MonitorInv
  BY InitWaits, InitMonitor
<1>2. WaitsInv /\ MonitorInv /\ [Next]_vars => (WaitsInv /\ MonitorInv)'
  BY WaitsStep, MonitorInvStep
<1> QED
  BY <1>1, <1>2, MonitorSafe, PTL DEF Spec

-----------------------------------------------------------------------------
(* The reader.                                                             *)

Downloading == \E e \in ToSet(stack) : e.op = "download"

ReaderEntry(e) ==
  e.op \in {"open", "download"} /\ e.arg = [book |-> e.arg.book] /\ e.arg.book \in Readable

ReaderTypes ==
  /\ opening \in Seq(Readable) /\ crossed \in BOOLEAN /\ loading \in BOOLEAN
  /\ reading \in [id : Readable \cup {NoBook}, pdf : Readable \cup {NoBook},
                  page : Nat \ {0}, count : Nat]
  /\ view \in [pdf : Readable \cup {NoBook}, ready : BOOLEAN]
  /\ lastPages \in [Readable -> Nat \ {0}]

\* What the view and the page show, but for the wait for a download: the book's
\* file is not yet known in it.
ViewAgrees ==
  /\ view.pdf = reading.pdf
  /\ \/ crossed \/ reading.id = NoBook
     \/ reading.page \in {lastPages[reading.id], reading.count}
  /\ view.pdf # NoBook /\ ~ view.ready => reading.count \in {0, PageCounts[view.pdf]}

ReaderKept ==
  /\ \A e \in ToSet(stack) : ReaderEntry(e)
  /\ ReaderTypes
  /\ loading => opening # <<>> \/ stack # <<>>
  /\ \A b \in Readable : b \in strayed \/ lastPages[b] <= PageCounts[b]
  /\ crossed \/ reading.pdf \in {NoBook, reading.id}
  /\ Downloading \/ ViewAgrees
  /\ view.ready => view.pdf # NoBook

ReaderInv == IF shell = "reader" THEN ReaderKept ELSE ReaderInit

\* The view changes its file, or keeps it as it is.
LEMMA ShowingFits ==
  ASSUME ReaderKept, NEW pdf \in Readable \cup {NoBook}
  PROVE  /\ Showing(pdf) \in [pdf : Readable \cup {NoBook}, ready : BOOLEAN]
         /\ Showing(pdf).pdf = pdf /\ (Showing(pdf).ready => pdf # NoBook)
<1>1. CASE view.pdf = pdf
  BY <1>1 DEF Showing, ReaderKept, ReaderTypes
<1>2. CASE view.pdf # pdf
  <2>1. PICK no \in BOOLEAN : no = FALSE
    OBVIOUS
  <2>2. Showing(pdf) = [pdf |-> pdf, ready |-> no]
    BY <1>2, <2>1 DEF Showing
  <2> QED
    BY <2>1, <2>2
<1> QED
  BY <1>1, <1>2

LEMMA ReaderTop ==
  ASSUME WaitsInv, ReaderKept, stack # <<>>, Innermost.got # None
  PROVE  /\ ReaderEntry(Innermost) /\ ToSet(stack) = ToSet(Under) \cup {Innermost}
         /\ \A e \in ToSet(Under) : ReaderEntry(e)
BY UnderFits DEF ReaderKept

LEMMA ReaderOpens ==
  ASSUME WaitsInv, ReaderKept, (\E b \in Readable : OpenBook(b)) \/ StartOpen
  PROVE  ReaderKept'
<1>1. CASE \E b \in Readable : OpenBook(b)
  <2>1. PICK b \in Readable : opening' = Append(opening, b)
    BY <1>1 DEF OpenBook
  <2>2. /\ opening' \in Seq(Readable) /\ opening' # <<>>
    BY <2>1 DEF ReaderKept, ReaderTypes
  <2>3. loading' = TRUE /\ UNCHANGED <<stack, reading, view, lastPages, crossed, strayed>>
    BY <1>1 DEF OpenBook, Idle
  <2>4. loading' \in BOOLEAN
    BY <2>3
  <2> QED
    BY <2>2, <2>3, <2>4 DEF ReaderKept, ReaderTypes, ViewAgrees, Downloading, ReaderEntry
<1>2. CASE StartOpen
  <2>1. PICK no, arg : /\ SendOn(stack, "open", "open", arg, no)
                       /\ arg = [book |-> Head(opening)]
    BY <1>2 DEF StartOpen, Send
  <2>2. /\ opening # <<>> /\ opening' = Tail(opening)
        /\ UNCHANGED <<reading, view, lastPages, loading, crossed, strayed>>
    BY <1>2 DEF StartOpen
  <2>3. Head(opening) \in Readable /\ opening' \in Seq(Readable)
    BY <2>2 DEF ReaderKept, ReaderTypes
  <2>4. PICK e : /\ ToSet(stack') = ToSet(stack) \cup {e} /\ e.op = "open" /\ e.arg = arg
                 /\ stack' # <<>>
    BY <2>1, SendFits, EntryIs DEF WaitsInv
  <2>5. \A o \in ToSet(stack') : ReaderEntry(o)'
    <3>1. ReaderEntry(e)
      <4>1. e.arg.book = Head(opening) /\ e.arg = [book |-> e.arg.book]
        BY <2>1, <2>4
      <4> QED
        BY <2>3, <2>4, <4>1 DEF ReaderEntry
    <3> QED
      BY <2>4, <3>1 DEF ReaderEntry, ReaderKept
  <2>6. Downloading' \/ ViewAgrees'
    BY <2>2, <2>4 DEF ReaderKept, Downloading, ViewAgrees
  <2> QED
    BY <2>2, <2>3, <2>4, <2>5, <2>6 DEF ReaderKept, ReaderTypes
<1> QED
  BY <1>1, <1>2

LEMMA OpenReturnsStep == ASSUME WaitsInv, ReaderKept, OpenReturns PROVE ReaderKept'
<1>1. /\ stack # <<>> /\ Innermost.got # None /\ Innermost.op = "open"
      /\ UNCHANGED <<view, lastPages, opening, strayed>>
  BY DEF OpenReturns, Returned
<1>2. /\ ReaderEntry(Innermost) /\ ToSet(stack) = ToSet(Under) \cup {Innermost}
      /\ \A e \in ToSet(Under) : ReaderEntry(e)
  BY <1>1, ReaderTop
<1>3. PICK b \in Readable : Innermost.arg = [book |-> b] /\ Innermost.arg.book = b
  BY <1>2 DEF ReaderEntry
<1>4. CASE Worked
  <2>1. crossed' = FALSE
    BY <1>4, Zenon DEF OpenReturns
  <2>2. /\ reading' = [reading EXCEPT !.id = b, !.pdf = NoBook]
        /\ UNCHANGED loading
    BY <1>3, <1>4 DEF OpenReturns
  <2>3. /\ reading' \in [id : Readable \cup {NoBook}, pdf : Readable \cup {NoBook},
                         page : Nat \ {0}, count : Nat]
        /\ reading'.pdf = NoBook
    BY <2>2 DEF ReaderKept, ReaderTypes
  <2>4. PICK no, arg : SendOn(Under, "download", "download", arg, no) /\ arg = Innermost.arg
    BY <1>4 DEF OpenReturns, SendNext
  <2>5. PICK e : /\ ToSet(stack') = ToSet(Under) \cup {e} /\ e.op = "download"
                 /\ e.arg = arg /\ stack' # <<>>
    BY <1>1, <2>4, UnderFits, SendFits, EntryIs DEF WaitsInv
  <2>6. Downloading' /\ \A o \in ToSet(stack') : ReaderEntry(o)'
    BY <1>2, <1>3, <2>4, <2>5 DEF Downloading, ReaderEntry
  <2>7. crossed' \in BOOLEAN
    BY <2>1
  <2> QED
    BY <1>1, <2>2, <2>3, <2>5, <2>6, <2>7 DEF ReaderKept, ReaderTypes
<1>5. CASE ~ Worked
  <2>1. crossed' = crossed
    BY <1>5 DEF OpenReturns, ReaderKept, ReaderTypes
  <2>2. loading' = FALSE /\ stack' = Under /\ UNCHANGED reading
    BY <1>5 DEF OpenReturns, Ends
  <2>3. loading' \in BOOLEAN
    BY <2>2
  <2>4. \A e \in ToSet(stack') : ReaderEntry(e)'
    BY <1>2, <2>2 DEF ReaderEntry
  <2>5. Downloading' \/ ViewAgrees'
    BY <1>1, <1>2, <2>1, <2>2 DEF ReaderKept, Downloading, ViewAgrees
  <2> QED
    BY <1>1, <2>1, <2>2, <2>3, <2>4, <2>5 DEF ReaderKept, ReaderTypes
<1> QED
  BY <1>4, <1>5

LEMMA DownloadReturnsStep == ASSUME WaitsInv, ReaderKept, DownloadReturns PROVE ReaderKept'
<1>1. /\ stack # <<>> /\ Innermost.got # None /\ stack' = Under /\ loading' = FALSE
      /\ UNCHANGED <<lastPages, opening, strayed>>
  BY DEF DownloadReturns, Returned, Ends
<1>2. /\ ReaderEntry(Innermost) /\ \A e \in ToSet(Under) : ReaderEntry(e)
  BY <1>1, ReaderTop
<1>3. PICK b \in Readable : Innermost.arg.book = b
  BY <1>2 DEF ReaderEntry
<1>4. reading' = [reading EXCEPT !.pdf = IF Worked THEN b ELSE @,
                                 !.page = lastPages[b], !.count = 0]
  BY <1>3 DEF DownloadReturns
<1>5. /\ reading' \in [id : Readable \cup {NoBook}, pdf : Readable \cup {NoBook},
                       page : Nat \ {0}, count : Nat]
      /\ reading'.pdf = (IF Worked THEN b ELSE reading.pdf) /\ reading'.id = reading.id
      /\ reading'.page = lastPages[b] /\ reading'.count = 0
  BY <1>4 DEF ReaderKept, ReaderTypes
<1>6. /\ crossed' \in BOOLEAN
      /\ ~ crossed' => reading.id = b /\ (Worked \/ ~ crossed)
  BY <1>3 DEF DownloadReturns
<1>7. /\ view' \in [pdf : Readable \cup {NoBook}, ready : BOOLEAN]
      /\ view'.pdf = reading'.pdf /\ (view'.ready => view'.pdf # NoBook)
  <2>1. view' = Showing(reading'.pdf) /\ reading'.pdf \in Readable \cup {NoBook}
    BY <1>5 DEF DownloadReturns
  <2> QED
    BY <2>1, ShowingFits
<1>8. crossed' \/ reading'.pdf \in {NoBook, reading'.id}
  BY <1>5, <1>6 DEF ReaderKept
<1>9. ViewAgrees'
  BY <1>1, <1>5, <1>6, <1>7 DEF ViewAgrees
<1>10. \A e \in ToSet(stack') : ReaderEntry(e)'
  BY <1>1, <1>2 DEF ReaderEntry
<1>11. loading' \in BOOLEAN
  BY <1>1
<1> QED
  BY <1>1, <1>5, <1>6, <1>7, <1>8, <1>9, <1>10, <1>11 DEF ReaderKept, ReaderTypes

LEMMA CloseBookStep == ASSUME ReaderKept, CloseBook PROVE ReaderKept'
<1>1. /\ reading' = Closed /\ view' = Showing(NoBook) /\ crossed' = FALSE
      /\ UNCHANGED <<stack, lastPages, opening, loading, strayed>>
  BY DEF CloseBook
<1>2. /\ reading' \in [id : Readable \cup {NoBook}, pdf : Readable \cup {NoBook},
                       page : Nat \ {0}, count : Nat]
      /\ reading'.id = NoBook /\ reading'.pdf = NoBook
  BY <1>1 DEF Closed
<1>3. /\ view' \in [pdf : Readable \cup {NoBook}, ready : BOOLEAN]
      /\ view'.pdf = NoBook /\ ~ view'.ready
  BY <1>1, ShowingFits
<1>4. crossed' \in BOOLEAN
  BY <1>1
<1> QED
  BY <1>1, <1>2, <1>3, <1>4 DEF ReaderKept, ReaderTypes, ViewAgrees, Downloading, ReaderEntry

\* A page is turned to that the view shows, or else the book has strayed.
LEMMA TurnToStep ==
  ASSUME ReaderKept, NEW p \in Nat, TurnTo(p), view.ready => p <= PageCounts[view.pdf]
  PROVE  ReaderKept'
<1>1. /\ p >= 1 /\ reading' = [reading EXCEPT !.page = p]
      /\ UNCHANGED <<stack, view, opening, loading, crossed>>
  BY DEF TurnTo, Idle
<1>2. /\ reading' \in [id : Readable \cup {NoBook}, pdf : Readable \cup {NoBook},
                       page : Nat \ {0}, count : Nat]
      /\ reading'.id = reading.id /\ reading'.pdf = reading.pdf
      /\ reading'.page = p /\ reading'.count = reading.count
  <2>1. /\ p \in Nat \ {0}
        /\ reading \in [id : Readable \cup {NoBook}, pdf : Readable \cup {NoBook},
                       page : Nat \ {0}, count : Nat]
    BY <1>1 DEF ReaderKept, ReaderTypes
  <2> QED
    BY <1>1, <2>1
<1>3. /\ lastPages' \in [Readable -> Nat \ {0}]
      /\ reading.id = NoBook \/ p = lastPages'[reading.id]
      /\ \A b \in Readable : b \in strayed' \/ lastPages'[b] <= PageCounts[b]
  <2>1. CASE reading.id = NoBook
    BY <2>1 DEF TurnTo, ReaderKept, ReaderTypes
  <2>2. CASE reading.id # NoBook
    <3>1. /\ reading.id \in Readable /\ lastPages' = [lastPages EXCEPT ![reading.id] = p]
      BY <2>2 DEF TurnTo, ReaderKept, ReaderTypes
    <3>2. /\ lastPages' \in [Readable -> Nat \ {0}] /\ lastPages'[reading.id] = p
          /\ \A b \in Readable : b # reading.id => lastPages'[b] = lastPages[b]
      BY <1>1, <3>1 DEF ReaderKept, ReaderTypes
    <3>3. \/ strayed' = strayed /\ view = [pdf |-> reading.id, ready |-> TRUE]
          \/ strayed' = strayed \cup {reading.id}
      BY <2>2 DEF TurnTo
    <3>4. view = [pdf |-> reading.id, ready |-> TRUE] => view.pdf = reading.id /\ view.ready
      OBVIOUS
    <3>5. reading.id \in strayed' \/ lastPages'[reading.id] <= PageCounts[reading.id]
      BY <3>2, <3>3, <3>4
    <3> QED
      BY <3>1, <3>2, <3>3, <3>5 DEF ReaderKept
  <2> QED
    BY <2>1, <2>2
<1> QED
  BY <1>1, <1>2, <1>3 DEF ReaderKept, ReaderTypes, ViewAgrees, Downloading, ReaderEntry

LEMMA PdfReadyStep == ASSUME ReaderKept, PdfReady PROVE ReaderKept'
<1>1. /\ view.pdf # NoBook /\ ~ view.ready
      /\ UNCHANGED <<stack, lastPages, opening, loading, crossed, strayed>>
  BY DEF PdfReady, Idle
<1>2. PICK n \in Nat \ {0} : n = PageCounts[view.pdf]
  BY <1>1, ReaderAssumption DEF ReaderKept, ReaderTypes
<1>3. reading' = [reading EXCEPT !.count = n, !.page = IF @ > n THEN n ELSE @]
  BY <1>2 DEF PdfReady
<1>4. /\ reading' \in [id : Readable \cup {NoBook}, pdf : Readable \cup {NoBook},
                       page : Nat \ {0}, count : Nat]
      /\ reading'.id = reading.id /\ reading'.pdf = reading.pdf /\ reading'.count = n
      /\ reading'.page \in {reading.page, n} /\ reading'.page <= n
  <2>1. /\ reading \in [id : Readable \cup {NoBook}, pdf : Readable \cup {NoBook},
                       page : Nat \ {0}, count : Nat]
    BY DEF ReaderKept, ReaderTypes
  <2>2. PICK k : k = IF reading.page > n THEN n ELSE reading.page
    OBVIOUS
  <2>3. k \in {reading.page, n} /\ k \in Nat \ {0} /\ k <= n
    BY <2>1, <2>2
  <2>4. reading' = [reading EXCEPT !.count = n, !.page = k]
    BY <1>3, <2>2
  <2> QED
    BY <2>1, <2>3, <2>4
<1>5. /\ view' \in [pdf : Readable \cup {NoBook}, ready : BOOLEAN]
      /\ view'.ready => view'.pdf # NoBook
      /\ reading.pdf = view.pdf => view'.pdf = reading'.pdf /\ view'.ready
  <2>1. CASE reading.count = n \/ reading.pdf = view.pdf
    <3>1. PICK yes \in BOOLEAN : yes = TRUE
      OBVIOUS
    <3>2. view' = [view EXCEPT !.ready = yes]
      BY <1>2, <2>1, <3>1 DEF PdfReady
    <3>3. view'.ready = yes /\ view'.pdf = view.pdf
          /\ view' \in [pdf : Readable \cup {NoBook}, ready : BOOLEAN]
      BY <3>2 DEF ReaderKept, ReaderTypes
    <3> QED
      BY <1>1, <1>4, <3>1, <3>3
  <2>2. CASE ~ (reading.count = n \/ reading.pdf = view.pdf)
    <3>1. view' = Showing(reading.pdf) /\ reading.pdf \in Readable \cup {NoBook}
      BY <1>2, <2>2 DEF PdfReady, ReaderKept, ReaderTypes
    <3> QED
      BY <2>2, <3>1, ShowingFits
  <2> QED
    BY <2>1, <2>2
<1>6. ViewAgrees => ViewAgrees'
  BY <1>1, <1>2, <1>4, <1>5 DEF ViewAgrees, ReaderKept, ReaderTypes
<1>7. Downloading' \/ ViewAgrees'
  BY <1>1, <1>6 DEF ReaderKept, Downloading
<1> QED
  BY <1>1, <1>4, <1>5, <1>7 DEF ReaderKept, ReaderTypes, ReaderEntry

\* A wait ends, or the server answers.
LEMMA ReaderFilled ==
  ASSUME ReaderKept, NEW do, NEW R, Filled(do, R), UNCHANGED readerVars
  PROVE  ReaderKept'
<1>1. \A e \in ToSet(stack') : \E o \in ToSet(stack) : e.op = o.op /\ e.arg = o.arg
  BY GivenEntry DEF Filled
<1>2. \A e \in ToSet(stack') : ReaderEntry(e)'
  BY <1>1 DEF ReaderKept, ReaderEntry
<1>3. (stack' = <<>> <=> stack = <<>>) /\ (Downloading => Downloading')
  BY DEF Filled, Downloading
<1> QED
  BY <1>2, <1>3 DEF ReaderKept, ReaderTypes, ViewAgrees, readerVars

LEMMA ReaderKeptStep == ASSUME WaitsInv, ReaderKept, ReaderNext PROVE ReaderKept'
<1>1. CASE (\E b \in Readable : OpenBook(b)) \/ StartOpen
  BY <1>1, ReaderOpens
<1>2. CASE OpenReturns
  BY <1>2, OpenReturnsStep
<1>3. CASE DownloadReturns
  BY <1>3, DownloadReturnsStep
<1>4. CASE CloseBook
  BY <1>4, CloseBookStep
<1>5. ASSUME NEW p \in 1 .. MaxPage, TurnPage(p) PROVE ReaderKept'
  <2>1. p \in Nat /\ TurnTo(p) /\ p <= PageCounts[view.pdf]
    <3>1. view.pdf \in Readable
      BY <1>5 DEF TurnPage, ReaderKept, ReaderTypes
    <3> QED
      BY <1>5, <3>1, ReaderAssumption DEF TurnPage
  <2> QED
    BY <2>1, TurnToStep
<1>6. CASE TurnBlindly
  <2>1. PICK p \in {reading.page - 1, reading.page + 1} : TurnTo(p)
    BY <1>6 DEF TurnBlindly
  <2>2. p \in Nat /\ ~ view.ready
    BY <1>6 DEF TurnBlindly, ReaderKept, ReaderTypes
  <2> QED
    BY <2>1, <2>2, TurnToStep
<1>7. CASE PdfReady
  BY <1>7, PdfReadyStep
<1>8. CASE HandleGetBookDetails \/ HandleDownloadBookPdf \/ HandleSyncStudyPage
  <2>1. PICK do, x : /\ Asked(do) /\ (Answer(x) \/ Refuse \/ ReplyTo(stack, Ok(x)))
                     /\ UNCHANGED readerVars
    BY <1>8 DEF HandleGetBookDetails, HandleDownloadBookPdf, HandleSyncStudyPage
  <2> QED
    BY <2>1, ServedFits, ReaderFilled
<1> QED
  BY <1>1, <1>2, <1>3, <1>4, <1>5, <1>6, <1>7, <1>8 DEF ReaderNext

LEMMA ReaderInvStep == WaitsInv /\ ReaderInv /\ [Next]_vars => ReaderInv'
<1> SUFFICES ASSUME WaitsInv, ReaderInv, [Next]_vars PROVE ReaderInv'
  OBVIOUS
<1>1. CASE Read
  BY <1>1, ReaderKeptStep DEF Read, ReaderInv
<1>2. CASE Disconnect \/ GiveUp
  <2>1. UNCHANGED <<shell, readerVars>> /\ Filled("", {Failed})
    BY <1>2, FaultFits DEF Disconnect, GiveUp, otherThanHome
  <2>2. ReaderKept => ReaderKept'
    BY <2>1, ReaderFilled
  <2> QED
    BY <2>1, <2>2 DEF ReaderInv, ReaderInit, readerVars
<1>3. CASE Moderate \/ Watch \/ AdminRefresh \/ Browse \/ Find
  <2>1. UNCHANGED <<shell, readerVars>> /\ shell # "reader"
    BY <1>3 DEF Moderate, Watch, AdminRefresh, Browse, Find, otherThanHome
  <2> QED
    BY <2>1 DEF ReaderInv, ReaderInit, readerVars
<1>4. CASE UNCHANGED vars
  BY <1>4 DEF vars, waits, otherThanHome, readerVars, ReaderInv, ReaderKept, ReaderTypes,
     ReaderEntry, ViewAgrees, Downloading, ReaderInit
<1> QED
  BY <1>1, <1>2, <1>3, <1>4 DEF Next

LEMMA InitReader == Init => ReaderInv
<1> SUFFICES ASSUME stack = <<>>, ReaderInit PROVE ReaderInv
  BY DEF Init, WaitsInit
<1>1. ToSet(stack) = {}
  BY DEF ToSet
<1>2. PICK no \in BOOLEAN : no = FALSE
  OBVIOUS
<1>3. /\ view = [pdf |-> NoBook, ready |-> no] /\ loading = no /\ crossed = no
      /\ reading = Closed /\ lastPages = [b \in Readable |-> 1] /\ opening = <<>>
  BY <1>2, Zenon DEF ReaderInit
<1>4. ReaderTypes
  BY <1>2, <1>3 DEF ReaderTypes, Closed
<1>5. ViewAgrees
  BY <1>3 DEF ViewAgrees, Closed
<1>6. \A b \in Readable : lastPages[b] <= PageCounts[b]
  BY <1>3, ReaderAssumption
<1> QED
  BY <1>1, <1>2, <1>3, <1>4, <1>5, <1>6 DEF ReaderInv, ReaderKept, Closed

LEMMA ReaderSafe == WaitsInv /\ ReaderInv => ReaderAgrees
<1> SUFFICES ASSUME ReaderInv, stack = <<>>, opening = <<>>
             PROVE  /\ ~ loading /\ view.pdf = reading.pdf
                    /\ crossed \/ reading.pdf \in {NoBook, reading.id}
                    /\ \/ crossed \/ reading.id = NoBook
                       \/ reading.page \in {lastPages[reading.id], reading.count}
                    /\ \A b \in Readable : b \in strayed \/ lastPages[b] <= PageCounts[b]
  BY DEF ReaderAgrees, AtRest
<1>1. ~ Downloading
  BY DEF Downloading, ToSet
<1>2. CASE ReaderKept
  BY <1>1, <1>2 DEF ReaderKept, ViewAgrees
<1>3. CASE ReaderInit
  BY <1>3, ReaderAssumption DEF ReaderInit, Closed
<1> QED
  BY <1>2, <1>3 DEF ReaderInv

\* A reader at rest shows the file and the page of the book it has open, and the
\* pages it has saved are pages of their books (ReaderService::openBook over two
\* nested waits, closeBook, setPage and setPageCount).
THEOREM ReaderIsOfTheBook == Spec => []ReaderAgrees
<1>1. Init => WaitsInv /\ ReaderInv
  BY InitWaits, InitReader
<1>2. WaitsInv /\ ReaderInv /\ [Next]_vars => (WaitsInv /\ ReaderInv)'
  BY WaitsStep, ReaderInvStep
<1> QED
  BY <1>1, <1>2, ReaderSafe, PTL DEF Spec

-----------------------------------------------------------------------------
(* The home page.                                                          *)

Shows == [offers : Nat, bought : Nat]
Rests == ToSet(SecondWave)
Firsts == ToSet(FirstWave)

NewOffers(n) == n \in told.offers .. offers
NewBought(n) == n \in told.bought .. bought
ShowsNew(x) == (x.offers = 0 \/ NewOffers(x.offers)) /\ (x.bought = 0 \/ NewBought(x.bought))

InWave(e) == e.op \in {"sections", "parse", "resume", "books"}
WaveOf(e) == IF e.op \in {"resume", "books"} \/ ToSet(e.arg.left) \subseteq Firsts
             THEN "wave1" ELSE "wave2"

HomeShape(e) ==
  /\ e.old \in BOOLEAN
  /\ \/ e.op \in {"sections", "related"} /\ e.do = "sections"
     \/ e.op = "books" /\ e.do = "books"
     \/ e.op \in {"parse", "resume", "known"} /\ e.do = "library"
  /\ e.op \in {"sections", "parse"} =>
       /\ e.arg.left # <<>> /\ e.arg.left \in Seq(Lists)
       /\ ToSet(e.arg.left) \subseteq Firsts \/ ToSet(e.arg.left) \subseteq Rests
  /\ e.op = "parse" =>
       /\ e.arg = [left |-> e.arg.left, shows |-> e.arg.shows, behind |-> e.arg.behind,
                   again |-> e.arg.again]
       /\ e.arg.shows \in Nat
  /\ e.op = "books" => e.arg.bought \in Nat
  /\ e.op \in {"related", "known"} => e.arg = [again |-> e.arg.again]
  /\ e.got.is = "ok" => e.got.data \in Nat

\* What an entry has come to hold is as new as the client was told, or known not to be.
HomeTrue(e) ==
  /\ e.op = "parse" => e.arg.behind = TRUE \/ e.arg.shows = 0 \/ NewOffers(e.arg.shows)
  /\ e.op = "books" => e.old = TRUE \/ NewBought(e.arg.bought)
  /\ e.got.is = "ok" /\ e.old # TRUE =>
       /\ e.do = "library" => NewBought(e.got.data)
       /\ e.do # "library" => NewOffers(e.got.data)

CachesTrue(o) ==
  /\ "sections" \in o \/ sections.offers = 0 \/ NewOffers(sections.offers)
  /\ "owned" \in o \/ owned = 0 \/ NewBought(owned)
  /\ "resume" \in o \/ ShowsNew(resume.shows)

\* The lists but those in rest, which the second wave will empty.
ListsTrue(filled, o, rest) == \A l \in Lists \ rest : l \in o \/ ShowsNew(filled[l])
Pending(ph) == IF ph \in {"wave1", "later"} THEN Rests ELSE {}

\* At most one entry is of a wave, and the phase is its wave.
Waves(ph, s) ==
  /\ \A e \in ToSet(s) : InWave(e) => ph = WaveOf(e)
  /\ ph \in {"wave1", "wave2"} => \E e \in ToSet(s) : InWave(e)
  /\ \A i, j \in DOMAIN s : InWave(s[i]) /\ InWave(s[j]) => i = j
Quiet(s) == \A e \in ToSet(s) : ~ InWave(e)

HomeTypes ==
  /\ offers \in Nat /\ bought \in Nat
  /\ told \in [offers : 1 .. offers, bought : 1 .. bought]
  /\ events \in Seq(1 .. offers)
  /\ sections \in [offers : Nat, fresh : BOOLEAN] /\ owned \in Nat
  /\ resume \in [shows : Shows, valid : BOOLEAN]
PageTypes == list \in [Lists -> Shows] /\ phase \in {"idle", "wave1", "later", "wave2"}

HomeKept ==
  /\ HomeTypes /\ PageTypes
  /\ \A e \in ToSet(stack) : HomeShape(e) /\ HomeTrue(e)
  /\ Waves(phase, stack) /\ CachesTrue(off) /\ ListsTrue(list, off, Pending(phase))

HomeInv == IF shell = "home" THEN HomeKept ELSE HomeInit

\* The lists, by wave; none has the name of a cache.
LEMMA ListsAre ==
  /\ Firsts = {"continueReading", "recommended", "newReleases"}
  /\ Rests = {"bestsellers", "newArrivals"} /\ Lists = Firsts \cup Rests
  /\ Tail(FirstWave) \in Seq(Lists) /\ ToSet(Tail(FirstWave)) \subseteq Firsts
  /\ Tail(FirstWave) # <<>> /\ SecondWave \in Seq(Lists) /\ SecondWave # <<>>
<1>1. Firsts = {"continueReading", "recommended", "newReleases"}
  BY DEF Firsts, FirstWave, ToSet
<1>2. Rests = {"bestsellers", "newArrivals"}
  BY DEF Rests, SecondWave, ToSet
<1>3. Lists = Firsts \cup Rests
  <2>1. PICK f, g : f = FirstWave /\ g = SecondWave
    OBVIOUS
  <2>2. /\ f \in Seq(Firsts) /\ Len(f) = 3 /\ g \in Seq(Rests) /\ Len(g) = 2
        /\ f[1] = "continueReading" /\ f[2] = "recommended" /\ f[3] = "newReleases"
        /\ g[1] = "bestsellers" /\ g[2] = "newArrivals"
    BY <1>1, <1>2, <2>1 DEF FirstWave, SecondWave
  <2>3. PICK S : S = Firsts \cup Rests
    OBVIOUS
  <2>4. f \in Seq(S) /\ g \in Seq(S)
    BY <1>1, <1>2, <2>1, <2>3 DEF FirstWave, SecondWave
  <2>5. PICK h : h = f \o g
    OBVIOUS
  <2>6. /\ h \in Seq(S) /\ Len(h) = 5
        /\ \A i \in 1 .. 5 : h[i] = IF i <= 3 THEN f[i] ELSE g[i - 3]
    <3>1. /\ f \o g \in Seq(S) /\ Len(f \o g) = Len(f) + Len(g)
          /\ \A i \in 1 .. Len(f) + Len(g) :
               (f \o g)[i] = IF i <= Len(f) THEN f[i] ELSE g[i - Len(f)]
      BY <2>4, ConcatProperties
    <3> QED
      BY <2>2, <2>5, <3>1
  <2>7. DOMAIN h = 1 .. 5
    BY <2>6, LenProperties
  <2>8. ToSet(h) = {h[1], h[2], h[3], h[4], h[5]}
    BY <2>7 DEF ToSet
  <2>9. h[1] = f[1] /\ h[2] = f[2] /\ h[3] = f[3] /\ h[4] = g[1] /\ h[5] = g[2]
    BY <2>6
  <2>10. Lists = ToSet(h)
    BY <2>1, <2>5 DEF Lists
  <2> QED
    BY <1>1, <1>2, <2>2, <2>8, <2>9, <2>10
<1>4. Tail(FirstWave) = <<"recommended", "newReleases">>
  BY DEF FirstWave
<1>5. ToSet(Tail(FirstWave)) = {"recommended", "newReleases"}
  <2>1. ToSet(<<"recommended", "newReleases">>) = {"recommended", "newReleases"}
    BY DEF ToSet
  <2> QED
    BY <1>4, <2>1
<1>6. Tail(FirstWave) \in Seq(Lists) /\ Tail(FirstWave) # <<>>
  <2>1. /\ <<"recommended", "newReleases">> \in Seq(Lists)
        /\ <<"recommended", "newReleases">> # <<>>
    BY <1>1, <1>3
  <2> QED
    BY <1>4, <2>1
<1>7. SecondWave \in Seq(Lists) /\ SecondWave # <<>>
  BY <1>2, <1>3 DEF SecondWave
<1> QED
  BY <1>1, <1>2, <1>3, <1>5, <1>6, <1>7

\* Lists that are marked leave the caches' marks alone.
LEMMA MarkedLists ==
  ASSUME NEW ls \in SUBSET Lists, NEW o, NEW old, NEW m, m = Marked(ls, old, o)
  PROVE  /\ \A l \in Lists : l \notin ls => (l \in m <=> l \in o)
         /\ \A c \in {"sections", "owned", "resume"} : c \in m <=> c \in o
         /\ (\A l \in ls : l \in m) \/ (~ old /\ \A l \in ls : l \notin m)
<1>1. Lists \cap {"sections", "owned", "resume"} = {}
  BY ListsAre
<1> QED
  BY <1>1 DEF Marked

LEMMA WavesEnd ==
  ASSUME WaitsInv, Waves(phase, stack), stack # <<>>, Innermost.got # None
  PROVE  /\ InWave(Innermost) => Quiet(Under) /\ phase = WaveOf(Innermost)
         /\ ~ InWave(Innermost) => Waves(phase, Under)
<1>1. /\ Fits(Under) /\ ToSet(stack) = ToSet(Under) \cup {Innermost}
      /\ Len(stack) \in Nat \ {0} /\ Len(Under) = Len(stack) - 1
      /\ Innermost = stack[Len(stack)]
      /\ \A i \in 1 .. Len(stack) - 1 : Under[i] = stack[i]
  BY UnderFits
<1>2. /\ DOMAIN stack = 1 .. Len(stack) /\ DOMAIN Under = 1 .. Len(stack) - 1
      /\ \A x \in ToSet(Under) : \E i \in 1 .. Len(stack) - 1 : Under[i] = x
  BY <1>1, SeqShape DEF WaitsInv, Fits, Stacked
<1>3. ASSUME InWave(Innermost) PROVE Quiet(Under)
  <2> SUFFICES ASSUME NEW e \in ToSet(Under), InWave(e) PROVE FALSE
    BY DEF Quiet
  <2>1. PICK i \in 1 .. Len(stack) - 1 : stack[i] = e
    BY <1>1, <1>2
  <2>2. i = Len(stack)
    BY <1>1, <1>2, <1>3, <2>1 DEF Waves
  <2> QED
    BY <1>1, <2>1, <2>2
<1>4. ASSUME ~ InWave(Innermost) PROVE Waves(phase, Under)
  <2>1. \A i, j \in DOMAIN Under : InWave(Under[i]) /\ InWave(Under[j]) => i = j
    BY <1>1, <1>2 DEF Waves
  <2> QED
    BY <1>1, <1>4, <2>1 DEF Waves
<1> QED
  BY <1>1, <1>3, <1>4 DEF Waves

LEMMA NoWave == ASSUME NEW s, Waves(phase, s), phase \notin {"wave1", "wave2"} PROVE Quiet(s)
BY DEF Waves, Quiet, WaveOf

\* A quiet stack, and at most one entry of a wave on it.
LEMMA QuietWaves ==
  ASSUME NEW s, Fits(s), Quiet(s), NEW ph, ph \notin {"wave1", "wave2"}
  PROVE  Waves(ph, s)
BY SeqShape DEF Fits, Stacked, Quiet, Waves

LEMMA PushedWave ==
  ASSUME Wired(wire), NEW s, Fits(s), Quiet(s), NEW op, NEW do, NEW arg, NEW old,
         SendOn(s, op, do, arg, old), NEW e, e = Entry(op, do, arg, old), InWave(e)
  PROVE  Waves(WaveOf(e), stack') /\ ToSet(stack') = ToSet(s) \cup {e}
<1>1. /\ ToSet(stack') = ToSet(s) \cup {e} /\ Len(stack') = Len(s) + 1
      /\ \A i \in 1 .. Len(s) : stack'[i] = s[i]
      /\ WaitsInv'
  BY SendFits
<1>2. /\ DOMAIN stack' = 1 .. Len(s) + 1 /\ Len(s) \in Nat
      /\ \A i \in 1 .. Len(s) : s[i] \in ToSet(s)
  BY <1>1, SeqShape DEF WaitsInv, Fits, Stacked
<1>3. \A i \in 1 .. Len(s) : ~ InWave(stack'[i])
  BY <1>1, <1>2 DEF Quiet
<1>4. \A i, j \in DOMAIN stack' : InWave(stack'[i]) /\ InWave(stack'[j]) => i = j
  BY <1>2, <1>3
<1> QED
  BY <1>1, <1>4 DEF Waves, Quiet

LEMMA PushedOther ==
  ASSUME Wired(wire), NEW s, Fits(s), NEW ph, Waves(ph, s), NEW op, NEW do, NEW arg, NEW old,
         SendOn(s, op, do, arg, old), NEW e, e = Entry(op, do, arg, old), ~ InWave(e)
  PROVE  Waves(ph, stack') /\ ToSet(stack') = ToSet(s) \cup {e}
<1>1. /\ ToSet(stack') = ToSet(s) \cup {e} /\ Len(stack') = Len(s) + 1
      /\ \A i \in 1 .. Len(s) : stack'[i] = s[i]
      /\ stack'[Len(s) + 1] = e /\ WaitsInv'
  BY SendFits
<1>2. /\ DOMAIN stack' = 1 .. Len(s) + 1 /\ DOMAIN s = 1 .. Len(s) /\ Len(s) \in Nat
  BY <1>1, SeqShape DEF WaitsInv, Fits, Stacked
<1>3. \A i \in DOMAIN stack' : InWave(stack'[i]) => i \in DOMAIN s /\ InWave(s[i])
  BY <1>1, <1>2
<1>4. \A i, j \in DOMAIN stack' : InWave(stack'[i]) /\ InWave(stack'[j]) => i = j
  BY <1>3 DEF Waves
<1> QED
  BY <1>1, <1>4 DEF Waves

\* A wave goes on, or ends: what it has shown is as new as the client was told.
LEMMA FillStep ==
  ASSUME Wired(wire), NEW s, Fits(s), Quiet(s),
         \A e \in ToSet(s) : HomeShape(e) /\ HomeTrue(e)',
         NEW W \in {"wave1", "wave2"}, NEW left \in Seq(Lists),
         ToSet(left) \subseteq IF W = "wave1" THEN Firsts ELSE Rests,
         left = <<>> => (W = "wave2" <=> phase = "wave2"),
         NEW shows \in [Lists -> Shows], NEW o,
         HomeTypes', CachesTrue(o)', ListsTrue(shows, o, Pending(W))',
         Fill(s, left, shows, o)
  PROVE  HomeKept'
<1>1. left # <<>> => /\ ToSet(left) # {}
                     /\ (IF ToSet(left) \cap Firsts # {} THEN "wave1" ELSE "wave2") = W
                     /\ (IF ToSet(left) \subseteq Firsts THEN "wave1" ELSE "wave2") = W
  <2>1. left # <<>> => left[1] \in ToSet(left)
    BY DEF ToSet
  <2>2. Firsts \cap Rests = {}
    BY ListsAre
  <2> QED
    BY <2>1, <2>2
<1>2. W \in {"wave1", "wave2", "later", "idle"} /\ Pending("wave1") = Rests /\ Pending("later") = Rests
      /\ Pending("wave2") = {} /\ Pending("idle") = {}
  BY DEF Pending
<1>3. CASE left = <<>>
  <2>1. /\ stack' = s /\ list' = shows /\ off' = o
        /\ phase' = IF W = "wave2" THEN "idle" ELSE "later"
    <3>1. /\ stack' = s /\ list' = shows /\ off' = o
          /\ phase' = IF phase = "wave2" THEN "idle" ELSE "later"
      BY <1>3, Zenon DEF Fill, Stays
    <3> QED
      BY <1>3, <3>1, Zenon
  <2> QED
    <3>1. ListsTrue(list, off, Pending(phase))'
      BY <1>2, <2>1 DEF ListsTrue
    <3>2. Waves(phase', stack')
      BY <2>1, QuietWaves
    <3> QED
      BY <2>1, <3>1, <3>2 DEF PageTypes, HomeKept, HomeShape
<1>4. ASSUME NEW do, NEW arg, NEW op \in {"sections", "parse"}, NEW no \in BOOLEAN,
             SendOn(s, op, do, arg, no), list' = shows, off' = o, phase' = W, arg.left = left,
             left # <<>>,
             HomeShape(Entry(op, do, arg, no)), HomeTrue(Entry(op, do, arg, no))'
      PROVE  HomeKept'
  <2>1. PICK e : e = Entry(op, do, arg, no)
    OBVIOUS
  <2>2. InWave(e) /\ WaveOf(e) = W
    <3>1. e.op = op /\ e.arg.left = left
      BY <1>4, <2>1, EntryIs
    <3> QED
      BY <1>1, <1>4, <3>1 DEF InWave, WaveOf
  <2>3. Waves(W, stack') /\ ToSet(stack') = ToSet(s) \cup {e}
    BY <1>4, <2>1, <2>2, PushedWave
  <2>4. \A x \in ToSet(stack') : HomeShape(x) /\ HomeTrue(x)'
    BY <1>4, <2>1, <2>3
  <2> QED
    BY <1>2, <1>4, <2>3, <2>4 DEF PageTypes, HomeKept, HomeShape
<1>5. ASSUME left # <<>>, list' = shows, off' = o, phase' = W,
             SendOn(s, "sections", "sections", [left |-> left], FALSE)
      PROVE  HomeKept'
  <2>0. PICK no, arg : no \in BOOLEAN /\ no = FALSE /\ arg = [left |-> left]
    OBVIOUS
  <2>1. PICK op, do, e :
          /\ SendOn(s, op, do, arg, no) /\ arg.left = left
          /\ op = "sections" /\ do = "sections" /\ e = Entry(op, do, arg, no)
    BY <1>5, <2>0
  <2>2. /\ e.op = "sections" /\ e.do = "sections" /\ e.arg.left = left /\ e.got.is = "none"
        /\ e.old \in BOOLEAN
    BY <2>0, <2>1, EntryIs, RepliesDiffer
  <2>3. HomeShape(e) /\ HomeTrue(e)'
    BY <1>5, <2>2 DEF HomeShape, HomeTrue
  <2> QED
    BY <1>4, <1>5, <2>0, <2>1, <2>3
<1>6. ASSUME left # <<>>, list' = shows, off' = o, phase' = W,
             SendOn(s, "parse", "library",
                  [left |-> left, shows |-> sections'.offers, behind |-> "sections" \in o,
                   again |-> TRUE], FALSE)
      PROVE  HomeKept'
  <2>0. PICK no, yes, bh : /\ no \in BOOLEAN /\ no = FALSE /\ yes = TRUE
                        /\ bh = ("sections" \in o)
    BY Zenon
  <2>1. "sections" \in o => bh = TRUE
    BY <2>0
  <2>2. PICK arg : /\ SendOn(s, "parse", "library", arg, no)
                   /\ arg = [left |-> left, shows |-> sections'.offers, behind |-> bh,
                             again |-> yes]
    BY <1>6, <2>0, Zenon
  <2>3. PICK op, do, e : /\ SendOn(s, op, do, arg, no)
                         /\ op = "parse" /\ do = "library" /\ e = Entry(op, do, arg, no)
    BY <2>2
  <2>4. /\ e.op = "parse" /\ e.do = "library" /\ e.arg = arg /\ e.got.is = "none"
        /\ e.old \in BOOLEAN
    BY <2>0, <2>3, EntryIs, RepliesDiffer
  <2>5. /\ arg.left = left /\ arg.shows = sections'.offers /\ arg.behind = bh
        /\ arg = [left |-> arg.left, shows |-> arg.shows, behind |-> arg.behind,
                  again |-> arg.again]
    BY <2>2
  <2>6. HomeShape(e)
    BY <1>6, <2>4, <2>5 DEF HomeShape, HomeTypes
  <2>7. HomeTrue(e)'
    BY <2>1, <2>4, <2>5 DEF HomeTrue, CachesTrue
  <2> QED
    BY <1>4, <1>6, <2>0, <2>3, <2>5, <2>6, <2>7
<1>7. ASSUME left # <<>>, stack' = s,
             list' = [l \in Lists |-> IF l \in ToSet(left)
                                      THEN [offers |-> sections'.offers, bought |-> owned']
                                      ELSE shows[l]],
             off' = Marked(ToSet(left), o \cap {"sections", "owned"} # {}, o),
             phase' = IF W = "wave2" THEN "idle" ELSE "later"
      PROVE  HomeKept'
  <2>1. PICK ls \in SUBSET Lists : ls = ToSet(left)
    BY <1>2, ListsAre
  <2>2. PICK all : all = [offers |-> sections'.offers, bought |-> owned']
    OBVIOUS
  <2>3. /\ all \in Shows /\ all.offers = sections'.offers /\ all.bought = owned'
    BY <2>2 DEF HomeTypes, Shows
  <2>4. /\ list' \in [Lists -> Shows]
        /\ \A l \in Lists : list'[l] = IF l \in ls THEN all ELSE shows[l]
    BY <1>7, <2>1, <2>2, <2>3
  <2>5. /\ \A l \in Lists : l \notin ls => (l \in off' <=> l \in o)
        /\ \A c \in {"sections", "owned", "resume"} : c \in off' <=> c \in o
        /\ (\A l \in ls : l \in off') \/ ~ (o \cap {"sections", "owned"} # {})
    <3>1. PICK old : old = (o \cap {"sections", "owned"} # {})
      BY Zenon
    <3>2. off' = Marked(ls, old, o)
      BY <1>7, <2>1, <3>1, Zenon
    <3>3. /\ \A l \in Lists : l \notin ls => (l \in off' <=> l \in o)
          /\ \A c \in {"sections", "owned", "resume"} : c \in off' <=> c \in o
          /\ (\A l \in ls : l \in off') \/ (~ old /\ \A l \in ls : l \notin off')
      BY <3>2, MarkedLists
    <3>4. ~ old => ~ (o \cap {"sections", "owned"} # {})
      BY <3>1, Zenon
    <3> QED
      BY <3>3, <3>4
  <2>6. CachesTrue(off)'
    BY <2>5 DEF CachesTrue
  <2>7. \A l \in ls : l \in off' \/ ShowsNew(list[l])'
    <3> SUFFICES ASSUME NEW l \in ls, l \notin off' PROVE ShowsNew(list[l])'
      OBVIOUS
    <3>1. "sections" \notin o /\ "owned" \notin o
      BY <2>5
    <3>2. list'[l] = all
      BY <2>4
    <3> QED
      BY <2>3, <3>1, <3>2 DEF CachesTrue, ShowsNew
  <2>8. \A l \in Lists \ Pending(W) : l \in off' \/ ShowsNew(list[l])'
    BY <2>4, <2>5, <2>7 DEF ListsTrue, ShowsNew
  <2>9. ListsTrue(list, off, Pending(phase))'
    BY <1>2, <1>7, <2>8 DEF ListsTrue
  <2>10. Waves(phase', stack')
    BY <1>7, QuietWaves
  <2> QED
    BY <1>7, <2>4, <2>6, <2>9, <2>10 DEF PageTypes, HomeKept, HomeShape
<1> QED
  <2>1. CASE left # <<>>
    BY <1>1, <1>5, <1>6, <1>7, <2>1 DEF Fill, Stays, Firsts
  <2> QED
    BY <1>3, <2>1

\* One list is shown anew.
LEMMA ShowOne ==
  ASSUME NEW filled \in [Lists -> Shows], NEW l \in Lists, NEW x \in Shows, NEW o, NEW rest,
         NEW old, NEW m, m = Marked({l}, old, o), NEW made, made = [filled EXCEPT ![l] = x],
         ListsTrue(filled, o, rest)', CachesTrue(o)', ~ old => ShowsNew(x)'
  PROVE  made \in [Lists -> Shows] /\ ListsTrue(made, m, rest)' /\ CachesTrue(m)'
<1>1. /\ made \in [Lists -> Shows] /\ made[l] = x
      /\ \A k \in Lists : k # l => made[k] = filled[k]
  OBVIOUS
<1>2. PICK ls \in SUBSET Lists : ls = {l}
  OBVIOUS
<1>3. /\ \A k \in Lists : k # l => (k \in m <=> k \in o)
      /\ \A c \in {"sections", "owned", "resume"} : c \in m <=> c \in o
      /\ l \in m \/ ~ old
  BY <1>2, MarkedLists
<1>4. ListsTrue(made, m, rest)'
  BY <1>1, <1>3 DEF ListsTrue
<1> QED
  BY <1>1, <1>3, <1>4 DEF CachesTrue

\* A refresh: the lists of the first wave are emptied, those of the second will be.
LEMMA LoadWave1Step ==
  ASSUME Wired(wire), NEW s, Fits(s), Quiet(s), PageTypes,
         \A e \in ToSet(s) : HomeShape(e) /\ HomeTrue(e)',
         NEW o, HomeTypes', CachesTrue(o)', LoadWave1(s, o)
  PROVE  HomeKept'
<1>1. PICK cleared : cleared = [l \in Lists |-> IF l \in Firsts THEN Empty ELSE list[l]]
  OBVIOUS
<1>2. Empty \in Shows /\ ShowsNew(Empty)'
  BY DEF Empty, Shows, ShowsNew
<1>3. cleared \in [Lists -> Shows] /\ ListsTrue(cleared, o, Rests)'
  <2>1. cleared \in [Lists -> Shows] /\ \A l \in Lists \ Rests : cleared[l] = Empty
    BY <1>1, <1>2, ListsAre DEF PageTypes
  <2> QED
    BY <1>2, <2>1 DEF ListsTrue
<1>4. CASE resume'.valid
  <2>1. PICK x, old, m, made :
          /\ x = resume'.shows
          /\ old = ("resume" \in o) /\ m = Marked({"continueReading"}, old, o)
          /\ made = [cleared EXCEPT !["continueReading"] = x]
    BY Zenon
  <2>2. Fill(s, Tail(FirstWave), made, m)
    BY <1>1, <1>4, <2>1, Zenon DEF LoadWave1, Firsts
  <2>3. x \in Shows /\ "continueReading" \in Lists
    BY <2>1, ListsAre DEF HomeTypes
  <2>4. ~ old => ShowsNew(x)'
    <3>1. ~ old => "resume" \notin o
      BY <2>1, Zenon
    <3> QED
      BY <2>1, <3>1 DEF CachesTrue, ShowsNew
  <2>5. made \in [Lists -> Shows] /\ ListsTrue(made, m, Rests)' /\ CachesTrue(m)'
    <3>1. PICK l \in Lists : l = "continueReading"
      BY <2>3
    <3>2. m = Marked({l}, old, o) /\ made = [cleared EXCEPT ![l] = x]
      BY <2>1, <3>1
    <3> QED
      BY <1>3, <2>3, <2>4, <3>2, ShowOne
  <2>6. /\ "wave1" \in {"wave1", "wave2"} /\ Pending("wave1") = Rests
        /\ Tail(FirstWave) \in Seq(Lists) /\ Tail(FirstWave) # <<>>
        /\ ToSet(Tail(FirstWave)) \subseteq IF "wave1" = "wave1" THEN Firsts ELSE Rests
    BY ListsAre DEF Pending
  <2>7. PICK W, left : W = "wave1" /\ left = Tail(FirstWave)
    OBVIOUS
  <2> QED
    BY <2>2, <2>5, <2>6, <2>7, FillStep
<1>5. CASE ~ resume'.valid
  <2>1. PICK no, arg, op, do, e :
          /\ no \in BOOLEAN /\ SendOn(s, op, do, arg, no) /\ e = Entry(op, do, arg, no)
          /\ op = "resume" /\ do = "library"
    BY <1>5 DEF LoadWave1
  <2>2. list' = cleared /\ off' = o /\ phase' = "wave1"
    BY <1>1, <1>5 DEF LoadWave1, Firsts
  <2>3. /\ e.op = "resume" /\ e.do = "library" /\ e.got.is = "none" /\ e.old \in BOOLEAN
    BY <2>1, EntryIs, RepliesDiffer
  <2>4. HomeShape(e) /\ HomeTrue(e)' /\ InWave(e) /\ WaveOf(e) = "wave1"
    BY <2>3 DEF HomeShape, HomeTrue, InWave, WaveOf
  <2>5. Waves("wave1", stack') /\ ToSet(stack') = ToSet(s) \cup {e}
    BY <2>1, <2>4, PushedWave
  <2>6. ListsTrue(list, off, Pending(phase))'
    BY <1>3, <2>2 DEF Pending
  <2> QED
    BY <1>3, <2>2, <2>4, <2>5, <2>6 DEF PageTypes, HomeKept, HomeShape
<1> QED
  BY <1>4, <1>5

LEMMA RefreshForStep ==
  ASSUME Wired(wire), NEW s, Fits(s), Waves(phase, s), PageTypes,
         \A e \in ToSet(s) : HomeShape(e) /\ HomeTrue(e)',
         NEW o, HomeTypes', CachesTrue(o)', RefreshFor(s, o)
  PROVE  HomeKept'
<1>1. CASE phase = "idle"
  <2>1. Quiet(s)
    BY <1>1, NoWave
  <2> QED
    BY <1>1, <2>1, LoadWave1Step DEF RefreshFor
<1>2. CASE phase # "idle"
  <2>1. stack' = s /\ off' = o \cup Lists /\ list' = list /\ phase' = phase
    BY <1>2 DEF RefreshFor, Stays
  <2>2. CachesTrue(off)' /\ ListsTrue(list, off, Pending(phase))'
    BY <2>1 DEF CachesTrue, ListsTrue
  <2> QED
    BY <2>1, <2>2 DEF PageTypes, HomeKept, HomeShape
<1> QED
  BY <1>1, <1>2

\* Entries that are changed keep their waves.
LEMMA MarkedWaves ==
  ASSUME WaitsInv, NEW ph, Waves(ph, stack), NEW t, IsSeq(t), Len(t) = Len(stack),
         \A i \in 1 .. Len(stack) : t[i].op = stack[i].op,
         \A e \in ToSet(t) : \E o \in ToSet(stack) :
           e.op = o.op /\ (e.op \in {"sections", "parse"} => e.arg.left = o.arg.left),
         \A o \in ToSet(stack) : \E e \in ToSet(t) : e.op = o.op
  PROVE  Waves(ph, t)
<1>1. DOMAIN t = 1 .. Len(stack) /\ DOMAIN stack = 1 .. Len(stack)
  BY SeqShape DEF WaitsInv, Fits, Stacked
<1>2. \A i, j \in DOMAIN t : InWave(t[i]) /\ InWave(t[j]) => i = j
  BY <1>1 DEF Waves, InWave
<1>3. \A e \in ToSet(t) : InWave(e) => ph = WaveOf(e)
  <2> SUFFICES ASSUME NEW e \in ToSet(t), InWave(e) PROVE ph = WaveOf(e)
    OBVIOUS
  <2>1. PICK o \in ToSet(stack) :
          e.op = o.op /\ (e.op \in {"sections", "parse"} => e.arg.left = o.arg.left)
    OBVIOUS
  <2>2. InWave(o) /\ WaveOf(e) = WaveOf(o)
    BY <2>1 DEF InWave, WaveOf
  <2> QED
    BY <2>2 DEF Waves
<1>4. ph \in {"wave1", "wave2"} => \E e \in ToSet(t) : InWave(e)
  BY DEF Waves, InWave
<1> QED
  BY <1>2, <1>3, <1>4 DEF Waves

\* The mark of an entry is added to.
LEMMA EitherIs ==
  ASSUME NEW a \in BOOLEAN, NEW c
  PROVE  \E x \in BOOLEAN :
           x = (a \/ c) /\ (c => x = TRUE) /\ (~ c => x = a) /\ (a = TRUE => x = TRUE)
<1>1. CASE a = TRUE
  <2>1. (a \/ c) = TRUE
    BY <1>1
  <2> QED
    BY <1>1, <2>1, Zenon
<1>2. CASE a = FALSE /\ c
  <2>1. (a \/ c) = TRUE
    BY <1>2
  <2> QED
    BY <1>2, <2>1, Zenon
<1>3. CASE a = FALSE /\ ~ c
  <2>1. (a \/ c) = FALSE
    BY <1>3
  <2> QED
    BY <1>3, <2>1, Zenon
<1> QED
  BY <1>1, <1>2, <1>3

LEMMA AgedBy ==
  ASSUME NEW o, o.old \in BOOLEAN, NEW c, NEW e, e = [o EXCEPT !.old = @ \/ c]
  PROVE  \E x \in BOOLEAN :
           /\ e = [o EXCEPT !.old = x] /\ (c => x = TRUE) /\ (~ c => x = o.old)
           /\ (o.old = TRUE => x = TRUE)
<1>1. \E x \in BOOLEAN : /\ x = (o.old \/ c) /\ (c => x = TRUE) /\ (~ c => x = o.old)
                         /\ (o.old = TRUE => x = TRUE)
  BY EitherIs, Zenon
<1> QED
  BY <1>1, Zenon

LEMMA DiscountedTrue ==
  ASSUME WaitsInv, HomeKept, told'.bought = told.bought, UNCHANGED <<offers, bought>>
  PROVE  /\ Fits(Discounted) /\ Waves(phase, Discounted)
         /\ \A e \in ToSet(Discounted) : HomeShape(e) /\ HomeTrue(e)'
<1>1. /\ Fits(Discounted) /\ Len(Discounted) = Len(stack)
      /\ \A i \in 1 .. Len(stack) : Discounted[i].op = stack[i].op
      /\ \A o \in ToSet(stack) : \E e \in ToSet(Discounted) : e.op = o.op
  BY DiscountedFits DEF WaitsInv
<1>2. ASSUME NEW e \in ToSet(Discounted)
      PROVE  /\ HomeShape(e) /\ HomeTrue(e)'
             /\ \E o \in ToSet(stack) :
                  e.op = o.op /\ (e.op \in {"sections", "parse"} => e.arg.left = o.arg.left)
  <2>1. PICK o \in ToSet(stack) :
          /\ IsEntry(o)
          /\ e = IF o.op = "parse" THEN [o EXCEPT !.arg.behind = TRUE]
                 ELSE [o EXCEPT !.old = @ \/ (o.op \in {"sections", "related", "books"}
                                             /\ o.got # None)]
    BY DiscountedFits DEF WaitsInv
  <2>2. HomeShape(o) /\ HomeTrue(o)
    BY DEF HomeKept
  <2>3. CASE o.op = "parse"
    <3>1. PICK yes : yes = TRUE /\ e = [o EXCEPT !.arg.behind = yes]
      BY <2>1, <2>3, Zenon
    <3>2. PICK arg : arg = o.arg
      OBVIOUS
    <3>3. arg = [left |-> arg.left, shows |-> arg.shows, behind |-> arg.behind,
                 again |-> arg.again]
      BY <2>2, <2>3, <3>2 DEF HomeShape
    <3>4. PICK new : new = [left |-> arg.left, shows |-> arg.shows, behind |-> yes,
                            again |-> arg.again]
      OBVIOUS
    <3>5. e = [op |-> o.op, do |-> o.do, arg |-> new, got |-> o.got, old |-> o.old]
      BY <2>1, <3>1, <3>2, <3>3, <3>4 DEF IsEntry
    <3>6. /\ e.op = "parse" /\ e.do = o.do /\ e.arg = new /\ e.got = o.got /\ e.old = o.old
          /\ new.left = o.arg.left /\ new.shows = o.arg.shows /\ new.behind = TRUE
          /\ new = [left |-> new.left, shows |-> new.shows, behind |-> new.behind,
                    again |-> new.again]
      <4>1. e.op = o.op /\ e.do = o.do /\ e.arg = new /\ e.got = o.got /\ e.old = o.old
        BY <3>5
      <4>2. /\ new.left = arg.left /\ new.shows = arg.shows /\ new.behind = yes
            /\ new = [left |-> new.left, shows |-> new.shows, behind |-> new.behind,
                      again |-> new.again]
        BY <3>4
      <4> QED
        BY <2>3, <3>1, <3>2, <4>1, <4>2
    <3>7. HomeShape(e)
      BY <2>2, <2>3, <3>6 DEF HomeShape
    <3>8. HomeTrue(e)'
      BY <2>2, <2>3, <3>6 DEF HomeTrue, HomeShape, NewBought
    <3> QED
      BY <2>3, <3>6, <3>7, <3>8
  <2>4. CASE o.op # "parse"
    <3>1. PICK c : /\ e = [o EXCEPT !.old = @ \/ c]
                   /\ c = (o.op \in {"sections", "related", "books"} /\ o.got # None)
      BY <2>1, <2>4, Zenon
    <3>2. o.op \in {"sections", "related", "books"} /\ o.got # None => c
      BY <3>1, Zenon
    <3>3. o.old \in BOOLEAN
      BY <2>2 DEF HomeShape
    <3>4. /\ e.op = o.op /\ e.do = o.do /\ e.arg = o.arg /\ e.got = o.got
          /\ e.old \in BOOLEAN /\ (c => e.old = TRUE) /\ (e.old # TRUE => e.old = o.old)
          /\ (o.old = TRUE => e.old = TRUE)
      <4>1. PICK x \in BOOLEAN :
             /\ e = [o EXCEPT !.old = x] /\ (c => x = TRUE) /\ (~ c => x = o.old)
             /\ (o.old = TRUE => x = TRUE)
        BY <3>1, <3>3, AgedBy, Zenon
      <4>2. IsEntry(o)
        BY <2>1
      <4> QED
        BY <4>1, <4>2, AgedIs, ZenonT(40)
    <3>5. HomeShape(e)
      BY <2>2, <3>4 DEF HomeShape
    <3>6. e.got.is = "ok" => e.got # None
      BY RepliesDiffer
    <3>7. HomeTrue(e)'
      BY <2>2, <2>4, <3>2, <3>4, <3>6 DEF HomeTrue, HomeShape, NewBought
    <3> QED
      BY <3>4, <3>5, <3>7
  <2> QED
    BY <2>3, <2>4
<1>3. Waves(phase, Discounted)
  BY <1>1, <1>2, MarkedWaves DEF HomeKept, Fits, Stacked
<1> QED
  BY <1>1, <1>2, <1>3

LEMMA CheckedOutTrue ==
  ASSUME WaitsInv, HomeKept, told'.offers = told.offers, UNCHANGED offers
  PROVE  /\ Fits(CheckedOut) /\ Waves(phase, CheckedOut)
         /\ \A e \in ToSet(CheckedOut) : HomeShape(e) /\ HomeTrue(e)'
<1>1. /\ Fits(CheckedOut) /\ Len(CheckedOut) = Len(stack)
      /\ \A i \in 1 .. Len(stack) : CheckedOut[i].op = stack[i].op
      /\ \A o \in ToSet(stack) : \E e \in ToSet(CheckedOut) : e.op = o.op
  BY CheckedOutFits DEF WaitsInv
<1>2. ASSUME NEW e \in ToSet(CheckedOut)
      PROVE  /\ HomeShape(e) /\ HomeTrue(e)'
             /\ \E o \in ToSet(stack) :
                  e.op = o.op /\ (e.op \in {"sections", "parse"} => e.arg.left = o.arg.left)
  <2>1. PICK o \in ToSet(stack) :
          /\ IsEntry(o)
          /\ e = [o EXCEPT !.old = @ \/ o.op = "books"
                             \/ (o.op \in {"resume", "parse", "known"} /\ o.got # None)]
    BY CheckedOutFits DEF WaitsInv
  <2>2. HomeShape(o) /\ HomeTrue(o) /\ o.old \in BOOLEAN
    BY DEF HomeKept, HomeShape
  <2>3. PICK c : c = (o.op = "books"
                        \/ (o.op \in {"resume", "parse", "known"} /\ o.got # None))
    BY Zenon
  <2>4. \/ c
        \/ o.op # "books" /\ (o.op \notin {"resume", "parse", "known"} \/ o.got = None)
    BY <2>3, Zenon
  <2>5. e = [o EXCEPT !.old = @ \/ c]
    BY <2>1, <2>3
  <2>6. /\ e.op = o.op /\ e.do = o.do /\ e.arg = o.arg /\ e.got = o.got
        /\ e.old \in BOOLEAN /\ (c => e.old = TRUE) /\ (e.old # TRUE => e.old = o.old)
        /\ (o.old = TRUE => e.old = TRUE)
    <3>1. PICK x \in BOOLEAN :
           /\ e = [o EXCEPT !.old = x] /\ (c => x = TRUE) /\ (~ c => x = o.old)
           /\ (o.old = TRUE => x = TRUE)
      BY <2>2, <2>5, AgedBy, Zenon
    <3>2. IsEntry(o)
      BY <2>1
    <3> QED
      BY <3>1, <3>2, AgedIs, ZenonT(40)
  <2>7. HomeShape(e)
    BY <2>2, <2>6 DEF HomeShape
  <2>8. e.got.is = "ok" => e.got # None
    BY RepliesDiffer
  <2>9. HomeTrue(e)'
    BY <2>2, <2>4, <2>6, <2>8 DEF HomeTrue, HomeShape, NewOffers
  <2> QED
    BY <2>6, <2>7, <2>9
<1>3. Waves(phase, CheckedOut)
  BY <1>1, <1>2, MarkedWaves DEF HomeKept, Fits, Stacked
<1> QED
  BY <1>1, <1>2, <1>3

LEMMA RefreshTimerStep == ASSUME WaitsInv, HomeKept, RefreshTimer PROVE HomeKept'
<1>1. /\ phase = "idle" /\ UNCHANGED <<offers, bought, events, sections, owned, resume, told>>
  BY DEF RefreshTimer, caches
<1>2. PICK o : o = off
  OBVIOUS
<1>3. LoadWave1(stack, o)
  BY <1>2 DEF RefreshTimer
<1>4. HomeTypes' /\ CachesTrue(o)' /\ \A e \in ToSet(stack) : HomeShape(e) /\ HomeTrue(e)'
  BY <1>1, <1>2 DEF HomeKept, HomeTypes, CachesTrue, HomeTrue, NewOffers, NewBought, ShowsNew
<1>5. Quiet(stack) /\ PageTypes /\ Wired(wire) /\ Fits(stack)
  BY <1>1, NoWave DEF HomeKept, WaitsInv
<1> QED
  BY <1>3, <1>4, <1>5, LoadWave1Step

LEMMA EventComesStep == ASSUME WaitsInv, HomeKept, EventComes PROVE HomeKept'
<1>1. PICK o, n, s : /\ o = off \ {"sections", "resume"} /\ n = Head(events)
                     /\ s = Discounted
  OBVIOUS
<1>2. /\ events # <<>> /\ events' = Tail(events) /\ told' = [told EXCEPT !.offers = n]
      /\ sections' = NoSections /\ resume' = NoResume /\ UNCHANGED <<offers, bought, owned>>
      /\ RefreshFor(s, o)
  BY <1>1, Zenon DEF EventComes
<1>3. /\ events' \in Seq(1 .. offers) /\ n \in 1 .. offers
  BY <1>1, <1>2 DEF HomeKept, HomeTypes
<1>4. /\ told' \in [offers : 1 .. offers, bought : 1 .. bought] /\ told'.bought = told.bought
  BY <1>2, <1>3 DEF HomeKept, HomeTypes
<1>5. /\ sections' \in [offers : Nat, fresh : BOOLEAN] /\ sections'.offers = 0
      /\ resume' \in [shows : Shows, valid : BOOLEAN]
      /\ resume'.shows.offers = 0 /\ resume'.shows.bought = 0
  BY <1>2 DEF NoSections, NoResume, Empty, Shows
<1>6. HomeTypes'
  BY <1>2, <1>3, <1>4, <1>5 DEF HomeKept, HomeTypes
<1>7. CachesTrue(o)'
  BY <1>1, <1>2, <1>4, <1>5 DEF HomeKept, CachesTrue, NewBought, ShowsNew
<1>8. /\ Fits(s) /\ Waves(phase, s)
      /\ \A e \in ToSet(s) : HomeShape(e) /\ HomeTrue(e)'
  BY <1>1, <1>2, <1>4, DiscountedTrue
<1> QED
  BY <1>2, <1>6, <1>7, <1>8, RefreshForStep DEF HomeKept, WaitsInv

LEMMA CheckoutStep == ASSUME WaitsInv, HomeKept, CheckoutSucceeded PROVE HomeKept'
<1>1. PICK o, n, s : /\ o = off \ {"sections", "owned", "resume"} /\ n = bought + 1
                     /\ s = CheckedOut
  OBVIOUS
<1>2. /\ bought' = n /\ told' = [told EXCEPT !.bought = n] /\ owned' = 0
      /\ sections' = NoSections /\ resume' = NoResume /\ UNCHANGED <<offers, events>>
      /\ RefreshFor(s, o)
  BY <1>1 DEF CheckoutSucceeded
<1>3. /\ bought' \in Nat /\ n \in 1 .. bought'
      /\ told' \in [offers : 1 .. offers, bought : 1 .. bought'] /\ told'.offers = told.offers
  BY <1>1, <1>2, SMTT(30) DEF HomeKept, HomeTypes
<1>4. /\ sections' \in [offers : Nat, fresh : BOOLEAN] /\ sections'.offers = 0
      /\ resume' \in [shows : Shows, valid : BOOLEAN]
      /\ resume'.shows.offers = 0 /\ resume'.shows.bought = 0
  BY <1>2 DEF NoSections, NoResume, Empty, Shows
<1>5. HomeTypes'
  BY <1>2, <1>3, <1>4 DEF HomeKept, HomeTypes
<1>6. CachesTrue(o)'
  BY <1>2, <1>4 DEF CachesTrue, ShowsNew
<1>7. /\ Fits(s) /\ Waves(phase, s)
      /\ \A e \in ToSet(s) : HomeShape(e) /\ HomeTrue(e)'
  BY <1>1, <1>2, <1>3, CheckedOutTrue
<1> QED
  BY <1>2, <1>5, <1>6, <1>7, RefreshForStep DEF HomeKept, WaitsInv

LEMMA LoadWave2Step == ASSUME WaitsInv, HomeKept, LoadWave2 PROVE HomeKept'
<1>1. /\ phase = "later" /\ UNCHANGED <<offers, bought, events, sections, owned, resume, told>>
  BY DEF LoadWave2, caches
<1>2. PICK o, cleared, W, left :
        /\ o = off /\ W = "wave2" /\ left = SecondWave
        /\ cleared = [l \in Lists |-> IF l \in Rests THEN Empty ELSE list[l]]
  OBVIOUS
<1>3. Fill(stack, left, cleared, o)
  BY <1>2 DEF LoadWave2, Rests
<1>4. HomeTypes' /\ CachesTrue(o)' /\ \A e \in ToSet(stack) : HomeShape(e) /\ HomeTrue(e)'
  BY <1>1, <1>2 DEF HomeKept, HomeTypes, CachesTrue, HomeTrue, NewOffers, NewBought, ShowsNew
<1>5. Quiet(stack) /\ Wired(wire) /\ Fits(stack)
  BY <1>1, NoWave DEF HomeKept, WaitsInv
<1>6. cleared \in [Lists -> Shows] /\ ListsTrue(cleared, o, Pending(W))'
  <2>1. Empty \in Shows /\ Empty.offers = 0 /\ Empty.bought = 0
    BY DEF Empty, Shows
  <2>2. /\ cleared \in [Lists -> Shows]
        /\ \A l \in Lists : cleared[l] = Empty \/ (l \notin Rests /\ cleared[l] = list[l])
    BY <1>2, <2>1 DEF HomeKept, PageTypes
  <2>3. \A l \in Lists : l \in Rests \/ l \in o \/ ShowsNew(list[l])
    BY <1>1, <1>2 DEF HomeKept, ListsTrue, Pending
  <2>4. ASSUME NEW l \in Lists PROVE l \in o \/ ShowsNew(cleared[l])'
    <3>1. ShowsNew(cleared[l]) => ShowsNew(cleared[l])'
      BY <1>1 DEF ShowsNew, NewOffers, NewBought
    <3>2. l \in o \/ ShowsNew(cleared[l])
      BY <2>1, <2>2, <2>3 DEF ShowsNew
    <3> QED
      BY <3>1, <3>2
  <2> QED
    BY <2>2, <2>4 DEF ListsTrue
<1>7. /\ left \in Seq(Lists) /\ left # <<>> /\ ToSet(left) = Rests
      /\ W \in {"wave1", "wave2"} /\ W # "wave1"
  BY <1>2, ListsAre DEF Rests
<1> QED
  BY <1>3, <1>4, <1>5, <1>6, <1>7, FillStep

LEMMA ExpireStep == ASSUME WaitsInv, HomeKept, Expire PROVE HomeKept'
<1>1. /\ UNCHANGED <<offers, bought, events, owned, list, phase, told, off, stack>>
  BY DEF Expire, Idle
<1>2. /\ sections' \in [offers : Nat, fresh : BOOLEAN] /\ sections'.offers = sections.offers
      /\ resume' \in [shows : Shows, valid : BOOLEAN]
      /\ resume'.shows = resume.shows \/ (resume'.shows.offers = 0 /\ resume'.shows.bought = 0)
  <2>1. CASE sections' = [sections EXCEPT !.fresh = FALSE] /\ UNCHANGED resume
    <3>1. PICK no \in BOOLEAN : no = FALSE
      OBVIOUS
    <3>2. sections' = [sections EXCEPT !.fresh = no] /\ UNCHANGED resume
      BY <2>1, <3>1, Zenon
    <3> QED
      BY <3>2 DEF HomeKept, HomeTypes
  <2>2. CASE resume' = NoResume /\ UNCHANGED sections
    BY <2>2 DEF HomeKept, HomeTypes, NoResume, Empty, Shows
  <2> QED
    BY <2>1, <2>2 DEF Expire
<1>3. HomeTypes' /\ PageTypes' /\ CachesTrue(off)'
  BY <1>1, <1>2 DEF HomeKept, HomeTypes, PageTypes, CachesTrue, ShowsNew, NewOffers, NewBought
<1>4. Waves(phase, stack)' /\ ListsTrue(list, off, Pending(phase))'
  <2>1. Waves(phase, stack) /\ ListsTrue(list, off, Pending(phase))
    BY DEF HomeKept
  <2> QED
    BY <1>1, <2>1 DEF Waves, ListsTrue, ShowsNew, NewOffers, NewBought
<1>5. \A e \in ToSet(stack') : HomeShape(e) /\ HomeTrue(e)'
  BY <1>1 DEF HomeKept, HomeTrue, NewOffers, NewBought
<1> QED
  BY <1>3, <1>4, <1>5 DEF HomeKept, HomeShape

\* What the innermost request of the page has come to hold.
LEMMA HomeTop ==
  ASSUME WaitsInv, HomeKept, stack # <<>>, Innermost.got # None
  PROVE  /\ HomeShape(Innermost) /\ HomeTrue(Innermost) /\ Fits(Under) /\ Wired(wire)
         /\ \A e \in ToSet(Under) : HomeShape(e) /\ HomeTrue(e)
         /\ InWave(Innermost) => Quiet(Under) /\ phase = WaveOf(Innermost)
         /\ ~ InWave(Innermost) => Waves(phase, Under)
<1>1. Waves(phase, stack)
  BY DEF HomeKept
<1> QED
  BY <1>1, UnderFits, WavesEnd DEF HomeKept, WaitsInv

LEMMA LeftTail ==
  ASSUME NEW left \in Seq(Lists), left # <<>>
  PROVE  /\ Head(left) \in Lists /\ Head(left) \in ToSet(left)
         /\ Tail(left) \in Seq(Lists) /\ ToSet(Tail(left)) \subseteq ToSet(left)
<1>1. /\ Len(left) \in Nat /\ DOMAIN left = 1 .. Len(left) /\ Len(left) # 0
      /\ \A i \in 1 .. Len(left) : left[i] \in Lists
  BY LenProperties, EmptySeq, ElementOfSeq
<1>2. /\ Head(left) = left[1] /\ Tail(left) \in Seq(Lists) /\ Len(Tail(left)) = Len(left) - 1
      /\ \A i \in 1 .. Len(left) - 1 : Tail(left)[i] = left[i + 1]
  BY HeadTailProperties
<1>3. DOMAIN Tail(left) = 1 .. Len(left) - 1
  BY <1>2, LenProperties
<1> QED
  BY <1>1, <1>2, <1>3 DEF ToSet

\* A cache is marked.
LEMMA MarkedCache ==
  ASSUME NEW c \in {"sections", "owned", "resume"}, NEW old, NEW o, NEW m,
         m = Marked({c}, old, o)
  PROVE  /\ \A l \in Lists : l \in m <=> l \in o
         /\ \A d \in {"sections", "owned", "resume"} : d # c => (d \in m <=> d \in o)
         /\ c \in m \/ ~ old
<1>1. Lists \cap {"sections", "owned", "resume"} = {}
  BY ListsAre
<1> QED
  BY <1>1 DEF Marked

\* The sections are kept as they come.
LEMMA SectionsKept ==
  ASSUME HomeKept, HomeShape(Innermost), HomeTrue(Innermost), Innermost.do = "sections",
         KeepSections, UNCHANGED <<offers, bought, told, owned, resume>>,
         NEW o, o = SectionsOff
  PROVE  /\ sections' \in [offers : Nat, fresh : BOOLEAN] /\ CachesTrue(o)'
         /\ \A l \in Lists : l \in o <=> l \in off
<1>1. CASE Worked
  <2>1. PICK old : old = Innermost.old
    OBVIOUS
  <2>2. o = Marked({"sections"}, old, off)
    BY <1>1, <2>1, Zenon DEF SectionsOff
  <2>3. PICK c \in {"sections", "owned", "resume"} : c = "sections"
    OBVIOUS
  <2>4. /\ \A l \in Lists : l \in o <=> l \in off
        /\ \A d \in {"sections", "owned", "resume"} : d # "sections" => (d \in o <=> d \in off)
        /\ "sections" \in o \/ ~ old
    BY <2>2, <2>3, MarkedCache
  <2>5. PICK yes \in BOOLEAN : yes = TRUE /\ sections' = [offers |-> Got, fresh |-> yes]
    BY <1>1, Zenon DEF KeepSections
  <2>6. Got \in Nat /\ (~ old => NewOffers(Got))
    BY <1>1, <2>1 DEF HomeShape, HomeTrue, Worked, Got
  <2>7. sections' \in [offers : Nat, fresh : BOOLEAN] /\ sections'.offers = Got
    BY <2>5, <2>6
  <2>8. CachesTrue(o)'
    BY <2>4, <2>6, <2>7 DEF HomeKept, CachesTrue, NewOffers, NewBought, ShowsNew
  <2> QED
    BY <2>4, <2>7, <2>8
<1>2. CASE ~ Worked
  <2>1. o = off /\ sections' = sections
    BY <1>2, Zenon DEF KeepSections, SectionsOff
  <2> QED
    BY <2>1 DEF HomeKept, HomeTypes, CachesTrue, NewOffers, NewBought, ShowsNew
<1> QED
  BY <1>1, <1>2

LEMMA OwnedKept ==
  ASSUME HomeKept, HomeShape(Innermost), HomeTrue(Innermost), Innermost.do = "library",
         KeepOwned, UNCHANGED <<offers, bought, told, sections, resume>>,
         NEW o, o = OwnedOff
  PROVE  /\ owned' \in Nat /\ CachesTrue(o)' /\ \A l \in Lists : l \in o <=> l \in off
<1>1. CASE Learns
  <2>1. PICK old : old = Innermost.old
    OBVIOUS
  <2>2. o = Marked({"owned"}, old, off)
    BY <1>1, <2>1, Zenon DEF OwnedOff
  <2>3. PICK c \in {"sections", "owned", "resume"} : c = "owned"
    OBVIOUS
  <2>4. /\ \A l \in Lists : l \in o <=> l \in off
        /\ \A d \in {"sections", "owned", "resume"} : d # "owned" => (d \in o <=> d \in off)
        /\ "owned" \in o \/ ~ old
    BY <2>2, <2>3, MarkedCache
  <2>5. owned' = Got
    BY <1>1 DEF KeepOwned
  <2>6. Got \in Nat /\ (~ old => NewBought(Got))
    BY <1>1, <2>1 DEF HomeShape, HomeTrue, Learns, Worked, Got
  <2>7. CachesTrue(o)'
    BY <2>4, <2>5, <2>6 DEF HomeKept, CachesTrue, NewOffers, NewBought, ShowsNew
  <2> QED
    BY <2>4, <2>5, <2>6, <2>7
<1>2. CASE ~ Learns
  <2>1. o = off /\ owned' = owned
    BY <1>2, Zenon DEF KeepOwned, OwnedOff
  <2> QED
    BY <2>1 DEF HomeKept, HomeTypes, CachesTrue, NewOffers, NewBought, ShowsNew
<1> QED
  BY <1>1, <1>2

\* A wave goes on with one list shown, and the rest of what was left.
LEMMA WaveGoesOn ==
  ASSUME WaitsInv, HomeKept, stack # <<>>, Innermost.got # None,
         Innermost.op \in {"sections", "parse"},
         UNCHANGED <<offers, bought, events, told>>, HomeTypes',
         NEW o, CachesTrue(o)', \A l \in Lists : l \in o <=> l \in off,
         NEW x \in Shows, NEW old, ~ old => ShowsNew(x)', NEW m, NEW made,
         m = Marked({Head(Innermost.arg.left)}, old, o),
         made = [list EXCEPT ![Head(Innermost.arg.left)] = x],
         Fill(Under, Tail(Innermost.arg.left), made, m)
  PROVE  HomeKept'
<1>1. /\ HomeShape(Innermost) /\ Fits(Under) /\ Wired(wire)
      /\ \A e \in ToSet(Under) : HomeShape(e) /\ HomeTrue(e)'
      /\ Quiet(Under) /\ phase = WaveOf(Innermost)
  BY HomeTop DEF InWave, HomeTrue, NewOffers, NewBought
<1>2. PICK left : left = Innermost.arg.left
  OBVIOUS
<1>3. /\ left \in Seq(Lists) /\ left # <<>> /\ phase \in {"wave1", "wave2"}
      /\ ToSet(left) \subseteq IF phase = "wave1" THEN Firsts ELSE Rests
  BY <1>1, <1>2 DEF HomeShape, WaveOf
<1>4. PICK l \in Lists, after \in Seq(Lists) :
        /\ l = Head(left) /\ after = Tail(left) /\ ToSet(after) \subseteq ToSet(left)
  BY <1>3, LeftTail
<1>5. PICK rest, filled, W : rest = Pending(phase) /\ filled = list /\ W = phase
  OBVIOUS
<1>6. filled \in [Lists -> Shows] /\ ListsTrue(filled, o, rest)'
  BY <1>5 DEF HomeKept, PageTypes, ListsTrue, ShowsNew, NewOffers, NewBought
<1>7. m = Marked({l}, old, o) /\ made = [filled EXCEPT ![l] = x]
  BY <1>2, <1>4, <1>5
<1>8. made \in [Lists -> Shows] /\ ListsTrue(made, m, rest)' /\ CachesTrue(m)'
  BY <1>6, <1>7, ShowOne
<1>9. Fill(Under, after, made, m) /\ rest = Pending(W)
  BY <1>2, <1>4, <1>5
<1>10. /\ W \in {"wave1", "wave2"}
       /\ ToSet(after) \subseteq IF W = "wave1" THEN Firsts ELSE Rests
  BY <1>3, <1>4, <1>5
<1>11. after = <<>> => (W = "wave2" <=> phase = "wave2")
  BY <1>5
<1> QED
  BY <1>1, <1>8, <1>9, <1>10, <1>11, FillStep

\* The library is asked for, to parse a list from what the sections show.
LEMMA ParseSent ==
  ASSUME WaitsInv, HomeKept, stack # <<>>, Innermost.got # None,
         Innermost.op \in {"sections", "parse"},
         UNCHANGED <<offers, bought, told, list, phase>>, HomeTypes', CachesTrue(off)',
         \A l \in Lists : l \in off' <=> l \in off,
         NEW shows \in Nat, NEW behind, behind = TRUE \/ shows = 0 \/ NewOffers(shows),
         NEW again, NEW no \in BOOLEAN, NEW arg,
         arg = [left |-> Innermost.arg.left, shows |-> shows, behind |-> behind,
                again |-> again],
         SendOn(Under, "parse", "library", arg, no)
  PROVE  HomeKept'
<1>1. /\ HomeShape(Innermost) /\ Fits(Under) /\ Wired(wire)
      /\ \A e \in ToSet(Under) : HomeShape(e) /\ HomeTrue(e)'
      /\ Quiet(Under) /\ phase = WaveOf(Innermost)
  BY HomeTop DEF InWave, HomeTrue, NewOffers, NewBought
<1>2. PICK op, do, e : /\ op = "parse" /\ do = "library" /\ e = Entry(op, do, arg, no)
                       /\ SendOn(Under, op, do, arg, no)
  OBVIOUS
<1>3. /\ e.op = "parse" /\ e.do = "library" /\ e.arg = arg /\ e.got.is = "none"
      /\ e.old \in BOOLEAN
  BY <1>2, EntryIs, RepliesDiffer
<1>4. /\ arg.left = Innermost.arg.left /\ arg.shows = shows /\ arg.behind = behind
      /\ arg = [left |-> arg.left, shows |-> arg.shows, behind |-> arg.behind,
                again |-> arg.again]
  OBVIOUS
<1>5. HomeShape(e)
  BY <1>1, <1>3, <1>4 DEF HomeShape
<1>6. HomeTrue(e)'
  BY <1>3, <1>4 DEF HomeTrue, NewOffers
<1>7. InWave(e) /\ WaveOf(e) = phase
  BY <1>1, <1>3, <1>4 DEF InWave, WaveOf
<1>8. Waves(phase, stack') /\ ToSet(stack') = ToSet(Under) \cup {e}
  BY <1>1, <1>2, <1>7, PushedWave
<1>9. \A x \in ToSet(stack') : HomeShape(x) /\ HomeTrue(x)'
  BY <1>1, <1>5, <1>6, <1>8
<1>10. ListsTrue(list, off, Pending(phase))'
  <2>1. ListsTrue(list, off, Pending(phase))
    BY DEF HomeKept
  <2> QED
    BY <2>1 DEF ListsTrue, ShowsNew, NewOffers, NewBought
<1> QED
  BY <1>8, <1>9, <1>10 DEF HomeKept, PageTypes, HomeShape

LEMMA SectionsReturnStep == ASSUME WaitsInv, HomeKept, SectionsReturn PROVE HomeKept'
<1>1. /\ stack # <<>> /\ Innermost.got # None /\ Innermost.op = "sections" /\ KeepSections
      /\ UNCHANGED <<offers, bought, events, told, owned, resume>>
  BY DEF SectionsReturn, Returned
<1>2. HomeShape(Innermost) /\ HomeTrue(Innermost) /\ Innermost.do = "sections"
  BY <1>1, HomeTop DEF HomeShape
<1>3. PICK o : o = SectionsOff
  OBVIOUS
<1>4. /\ sections' \in [offers : Nat, fresh : BOOLEAN] /\ CachesTrue(o)'
      /\ \A l \in Lists : l \in o <=> l \in off
  BY <1>1, <1>2, <1>3, SectionsKept
<1>5. HomeTypes'
  BY <1>1, <1>4 DEF HomeKept, HomeTypes
<1>6. CASE /\ off' = o /\ UNCHANGED <<list, phase>>
           /\ SendOn(Under, "parse", "library",
                     [left |-> Innermost.arg.left, shows |-> sections'.offers,
                      behind |-> "sections" \in o, again |-> TRUE], FALSE)
  <2>1. PICK no, yes, bh, shows, arg :
          /\ no \in BOOLEAN /\ no = FALSE /\ yes = TRUE /\ bh = ("sections" \in o) /\ shows = sections'.offers
          /\ arg = [left |-> Innermost.arg.left, shows |-> shows, behind |-> bh, again |-> yes]
    BY Zenon
  <2>2. SendOn(Under, "parse", "library", arg, no)
    BY <1>6, <2>1, Zenon
  <2>3. "sections" \in o => bh = TRUE
    BY <2>1
  <2>4. bh = TRUE \/ shows = 0 \/ NewOffers(shows)
    BY <1>1, <1>4, <2>1, <2>3 DEF CachesTrue, NewOffers
  <2>5. shows \in Nat
    BY <1>4, <2>1
  <2>6. CachesTrue(off)' /\ \A l \in Lists : l \in off' <=> l \in off
    BY <1>4, <1>6 DEF CachesTrue
  <2>7. arg = [left |-> Innermost.arg.left, shows |-> shows, behind |-> bh, again |-> yes]
    BY <2>1
  <2>8. Innermost.op \in {"sections", "parse"} /\ UNCHANGED <<offers, bought, told, list, phase>>
    BY <1>1, <1>6
  <2>9. no \in BOOLEAN
    BY <2>1
  <2> QED
    BY <1>1, <1>5, <2>2, <2>4, <2>5, <2>6, <2>7, <2>8, <2>9, ParseSent
<1>7. CASE Fill(Under, Tail(Innermost.arg.left),
                [list EXCEPT ![Head(Innermost.arg.left)] =
                   [offers |-> sections'.offers, bought |-> owned]],
                Marked({Head(Innermost.arg.left)}, o \cap {"sections", "owned"} # {}, o))
  <2>1. PICK x, old, m, made :
          /\ x = [offers |-> sections'.offers, bought |-> owned]
          /\ old = (o \cap {"sections", "owned"} # {})
          /\ m = Marked({Head(Innermost.arg.left)}, old, o)
          /\ made = [list EXCEPT ![Head(Innermost.arg.left)] = x]
    BY Zenon
  <2>2. Fill(Under, Tail(Innermost.arg.left), made, m)
    BY <1>7, <2>1, Zenon
  <2>3. x \in Shows /\ x.offers = sections'.offers /\ x.bought = owned'
    BY <1>1, <1>4, <2>1 DEF Shows, HomeKept, HomeTypes
  <2>4. ~ old => ShowsNew(x)'
    <3>1. ~ old => "sections" \notin o /\ "owned" \notin o
      BY <2>1
    <3> QED
      BY <1>4, <2>3, <3>1 DEF CachesTrue, ShowsNew
  <2>5. /\ m = Marked({Head(Innermost.arg.left)}, old, o)
        /\ made = [list EXCEPT ![Head(Innermost.arg.left)] = x]
    BY <2>1
  <2>6. Innermost.op \in {"sections", "parse"} /\ UNCHANGED <<offers, bought, events, told>>
    BY <1>1
  <2> QED
    BY <1>1, <1>4, <1>5, <2>2, <2>3, <2>4, <2>5, <2>6, WaveGoesOn
<1> QED
  BY <1>3, <1>6, <1>7 DEF SectionsReturn

LEMMA ParseReturnsStep == ASSUME WaitsInv, HomeKept, ParseReturns PROVE HomeKept'
<1>1. /\ stack # <<>> /\ Innermost.got # None /\ Innermost.op = "parse" /\ KeepOwned
      /\ UNCHANGED <<offers, bought, events, told, sections, resume>>
  BY DEF ParseReturns, Returned
<1>2. HomeShape(Innermost) /\ HomeTrue(Innermost) /\ Innermost.do = "library"
  BY <1>1, HomeTop DEF HomeShape
<1>3. PICK o : o = OwnedOff
  OBVIOUS
<1>4. owned' \in Nat /\ CachesTrue(o)' /\ \A l \in Lists : l \in o <=> l \in off
  BY <1>1, <1>2, <1>3, OwnedKept
<1>5. HomeTypes'
  BY <1>1, <1>4 DEF HomeKept, HomeTypes
<1>6. PICK before : /\ before = Innermost.arg
                    /\ before = [left |-> before.left, shows |-> before.shows,
                                 behind |-> before.behind, again |-> before.again]
                    /\ before.shows \in Nat
                    /\ before.behind = TRUE \/ before.shows = 0 \/ NewOffers(before.shows)
  BY <1>1, <1>2 DEF HomeShape, HomeTrue
<1>7. CASE TriesAgain /\ TryAgain("parse") /\ UNCHANGED <<list, phase, off>>
  <2>1. PICK no, arg : /\ SendOn(Under, "parse", "library", arg, Innermost.old)
                       /\ arg = [before EXCEPT !.again = no]
    BY <1>6, <1>7, Zenon DEF TryAgain, SendNext
  <2>2. arg = [left |-> Innermost.arg.left, shows |-> before.shows,
               behind |-> before.behind, again |-> no]
    BY <1>6, <2>1
  <2>3. owned' = owned
    BY <1>1, <1>7 DEF KeepOwned, Learns, TriesAgain
  <2>4. CachesTrue(off)'
    BY <1>1, <1>7, <2>3 DEF HomeKept, CachesTrue, ShowsNew, NewOffers, NewBought
  <2>5. Innermost.old \in BOOLEAN /\ Innermost.op \in {"sections", "parse"}
    BY <1>1, <1>2 DEF HomeShape
  <2>6. UNCHANGED <<offers, bought, told, list, phase>> /\ \A l \in Lists : l \in off' <=> l \in off
    BY <1>1, <1>7
  <2>7. PICK old \in BOOLEAN : old = Innermost.old
    BY <2>5
  <2>8. PICK shows, behind : shows \in Nat /\ shows = before.shows /\ behind = before.behind
    BY <1>6
  <2>9. behind = TRUE \/ shows = 0 \/ NewOffers(shows)
    BY <1>6, <2>8
  <2>10. /\ arg = [left |-> Innermost.arg.left, shows |-> shows, behind |-> behind,
                   again |-> no]
         /\ SendOn(Under, "parse", "library", arg, old)
    BY <2>1, <2>2, <2>7, <2>8
  <2>11. shows \in Nat
    BY <2>8
  <2> QED
    BY <1>1, <1>5, <2>4, <2>5, <2>6, <2>9, <2>10, <2>11, ParseSent
<1>8. CASE Fill(Under, Tail(Innermost.arg.left),
                [list EXCEPT ![Head(Innermost.arg.left)] =
                   [offers |-> Innermost.arg.shows, bought |-> owned']],
                Marked({Head(Innermost.arg.left)},
                       Innermost.arg.behind \/ "owned" \in OwnedOff, OwnedOff))
  <2>1. PICK x, old, m, made :
          /\ x = [offers |-> Innermost.arg.shows, bought |-> owned']
          /\ old = (Innermost.arg.behind \/ "owned" \in o)
          /\ m = Marked({Head(Innermost.arg.left)}, old, o)
          /\ made = [list EXCEPT ![Head(Innermost.arg.left)] = x]
    BY Zenon
  <2>2. Fill(Under, Tail(Innermost.arg.left), made, m)
    BY <1>3, <1>8, <2>1, Zenon
  <2>3. x \in Shows /\ x.offers = before.shows /\ x.bought = owned'
    BY <1>4, <1>6, <2>1 DEF Shows
  <2>4. ~ old => ShowsNew(x)'
    <3>1. ~ old => before.behind # TRUE /\ "owned" \notin o
      BY <1>6, <2>1
    <3> QED
      BY <1>1, <1>4, <1>6, <2>3, <3>1 DEF CachesTrue, ShowsNew, NewOffers
  <2>5. /\ m = Marked({Head(Innermost.arg.left)}, old, o)
        /\ made = [list EXCEPT ![Head(Innermost.arg.left)] = x]
    BY <2>1
  <2>6. Innermost.op \in {"sections", "parse"} /\ UNCHANGED <<offers, bought, events, told>>
    BY <1>1
  <2> QED
    BY <1>1, <1>4, <1>5, <2>2, <2>3, <2>4, <2>5, <2>6, WaveGoesOn
<1> QED
  BY <1>7, <1>8 DEF ParseReturns

LEMMA ResumeReturnsStep == ASSUME WaitsInv, HomeKept, ResumeReturns PROVE HomeKept'
<1>1. /\ stack # <<>> /\ Innermost.got # None /\ Innermost.op = "resume"
      /\ UNCHANGED <<offers, bought, events, told, sections, owned>>
  BY DEF ResumeReturns, Returned
<1>2. /\ HomeShape(Innermost) /\ HomeTrue(Innermost) /\ Innermost.do = "library"
      /\ Fits(Under) /\ Wired(wire) /\ Quiet(Under) /\ phase = "wave1"
      /\ \A e \in ToSet(Under) : HomeShape(e) /\ HomeTrue(e)'
  BY <1>1, HomeTop DEF HomeShape, InWave, WaveOf, HomeTrue, NewOffers, NewBought
<1>3. CASE Worked
  <2>1. /\ SendOn(Under, "books", "books", [bought |-> Got], Innermost.old)
        /\ UNCHANGED <<resume, list, phase, off>>
    BY <1>3 DEF ResumeReturns
  <2>2. PICK arg, old : /\ arg = [bought |-> Got] /\ old = Innermost.old
                       /\ old \in BOOLEAN
    BY <1>2 DEF HomeShape
  <2>3. PICK op, do, e : /\ SendOn(Under, op, do, arg, old) /\ e = Entry(op, do, arg, old)
                         /\ op = "books" /\ do = "books"
    BY <2>1, <2>2
  <2>4. /\ e.op = "books" /\ e.do = "books" /\ e.arg.bought = Got /\ e.old = Innermost.old
        /\ e.got.is = "none" /\ e.old \in BOOLEAN
    BY <2>2, <2>3, EntryIs, RepliesDiffer
  <2>5. Got \in Nat /\ (Innermost.old = TRUE \/ NewBought(Got))
    BY <1>2, <1>3 DEF HomeShape, HomeTrue, Worked, Got
  <2>6. HomeShape(e) /\ InWave(e) /\ WaveOf(e) = "wave1"
    BY <2>4, <2>5 DEF HomeShape, InWave, WaveOf
  <2>7. HomeTrue(e)'
    BY <1>1, <2>4, <2>5 DEF HomeTrue, NewBought
  <2>8. Waves("wave1", stack') /\ ToSet(stack') = ToSet(Under) \cup {e}
    BY <1>2, <2>3, <2>6, PushedWave
  <2>9. HomeTypes' /\ PageTypes' /\ CachesTrue(off)' /\ ListsTrue(list, off, Pending(phase))'
    <3>1. ListsTrue(list, off, Pending(phase))'
      <4>1. ListsTrue(list, off, Pending(phase))
        BY DEF HomeKept
      <4> QED
        BY <1>1, <2>1, <4>1 DEF ListsTrue, ShowsNew, NewOffers, NewBought
    <3> QED
      BY <1>1, <2>1, <3>1 DEF HomeKept, HomeTypes, PageTypes, CachesTrue, ShowsNew, NewOffers,
         NewBought
  <2> QED
    BY <1>2, <2>1, <2>6, <2>7, <2>8, <2>9 DEF HomeKept, HomeShape
<1>4. CASE ~ Worked
  <2>1. PICK o, W, filled, left : /\ o = off /\ W = "wave1" /\ filled = list
                                 /\ left = Tail(FirstWave)
    OBVIOUS
  <2>2. resume' = NoResume /\ Fill(Under, left, filled, o)
    BY <1>4, <2>1 DEF ResumeReturns
  <2>3. /\ resume' \in [shows : Shows, valid : BOOLEAN]
        /\ resume'.shows.offers = 0 /\ resume'.shows.bought = 0
    BY <2>2 DEF NoResume, Empty, Shows
  <2>4. HomeTypes' /\ CachesTrue(o)'
    BY <1>1, <2>1, <2>3 DEF HomeKept, HomeTypes, CachesTrue, ShowsNew, NewOffers, NewBought
  <2>5. filled \in [Lists -> Shows] /\ ListsTrue(filled, o, Pending(W))'
    <3>1. ListsTrue(list, off, Pending(phase)) /\ list \in [Lists -> Shows]
      BY DEF HomeKept, PageTypes
    <3> QED
      BY <1>1, <1>2, <2>1, <3>1 DEF ListsTrue, ShowsNew, NewOffers, NewBought
  <2>6. /\ left \in Seq(Lists) /\ left # <<>> /\ ToSet(left) \subseteq Firsts
        /\ W \in {"wave1", "wave2"} /\ W = "wave1"
    BY <2>1, ListsAre
  <2> QED
    BY <1>2, <2>2, <2>4, <2>5, <2>6, FillStep
<1> QED
  BY <1>3, <1>4

LEMMA ResumeBooksStep == ASSUME WaitsInv, HomeKept, ResumeBooksReturn PROVE HomeKept'
<1>1. /\ stack # <<>> /\ Innermost.got # None /\ Innermost.op = "books"
      /\ UNCHANGED <<offers, bought, events, told, sections, owned>>
  BY DEF ResumeBooksReturn, Returned
<1>2. /\ HomeShape(Innermost) /\ HomeTrue(Innermost) /\ Innermost.do = "books"
      /\ Fits(Under) /\ Wired(wire) /\ Quiet(Under) /\ phase = "wave1"
      /\ \A e \in ToSet(Under) : HomeShape(e) /\ HomeTrue(e)'
  BY <1>1, HomeTop DEF HomeShape, InWave, WaveOf, HomeTrue, NewOffers, NewBought
<1>3. PICK x, old, o, m, made, W, filled, left :
        /\ x = resume'.shows /\ old = (Worked /\ Innermost.old) /\ o = off
        /\ m = Marked({"resume", "continueReading"}, old, o)
        /\ made = [filled EXCEPT !["continueReading"] = x] /\ filled = list
        /\ W = "wave1" /\ left = Tail(FirstWave)
  BY Zenon
<1>4. Fill(Under, left, made, m)
  BY <1>3, Zenon DEF ResumeBooksReturn
<1>5. /\ resume' \in [shows : Shows, valid : BOOLEAN] /\ x \in Shows
      /\ ~ old => ShowsNew(x)'
  <2>1. CASE Worked
    <3>1. PICK yes \in BOOLEAN : yes = TRUE
      OBVIOUS
    <3>2. resume' = [shows |-> [offers |-> Got, bought |-> Innermost.arg.bought], valid |-> yes]
      BY <2>1, <3>1, Zenon DEF ResumeBooksReturn
    <3>3. Got \in Nat /\ Innermost.arg.bought \in Nat
      BY <1>1, <1>2, <2>1 DEF HomeShape, Worked, Got
    <3>4. ~ old => Innermost.old # TRUE
      BY <1>3, <2>1
    <3>5. ~ old => NewOffers(Got) /\ NewBought(Innermost.arg.bought)
      BY <1>1, <1>2, <2>1, <3>4 DEF HomeTrue, Worked, Got
    <3>6. /\ resume' \in [shows : Shows, valid : BOOLEAN]
          /\ resume'.shows.offers = Got /\ resume'.shows.bought = Innermost.arg.bought
      BY <3>1, <3>2, <3>3 DEF Shows
    <3> QED
      BY <1>1, <1>3, <3>5, <3>6 DEF ShowsNew, NewOffers, NewBought
  <2>2. CASE ~ Worked
    <3>1. resume' = NoResume
      BY <2>2 DEF ResumeBooksReturn
    <3>2. /\ resume' \in [shows : Shows, valid : BOOLEAN]
          /\ resume'.shows.offers = 0 /\ resume'.shows.bought = 0
      BY <3>1 DEF NoResume, Empty, Shows
    <3> QED
      BY <1>3, <3>2 DEF ShowsNew
  <2> QED
    BY <2>1, <2>2
<1>6. /\ \A l \in Lists : l # "continueReading" => (l \in m <=> l \in o)
      /\ \A c \in {"sections", "owned"} : c \in m <=> c \in o
      /\ ("resume" \in m /\ "continueReading" \in m) \/ ~ old
  <2>1. Lists \cap {"sections", "owned", "resume"} = {} /\ "continueReading" # "resume"
    BY ListsAre
  <2>2. m = Marked({"resume", "continueReading"}, old, o)
    BY <1>3
  <2> QED
    BY <2>1, <2>2 DEF Marked
<1>7. HomeTypes' /\ CachesTrue(m)'
  BY <1>1, <1>3, <1>5, <1>6 DEF HomeKept, HomeTypes, CachesTrue, ShowsNew, NewOffers, NewBought
<1>8. made \in [Lists -> Shows] /\ ListsTrue(made, m, Pending(W))'
  <2>1. ListsTrue(list, off, Pending(phase)) /\ list \in [Lists -> Shows]
    BY DEF HomeKept, PageTypes
  <2>2. /\ made \in [Lists -> Shows]
        /\ \A l \in Lists : l # "continueReading" => made[l] = list[l]
        /\ made["continueReading"] = x
    BY <1>3, <1>5, <2>1, ListsAre
  <2> QED
    BY <1>1, <1>2, <1>3, <1>5, <1>6, <2>1, <2>2 DEF ListsTrue, ShowsNew, NewOffers, NewBought
<1>9. /\ left \in Seq(Lists) /\ left # <<>> /\ ToSet(left) \subseteq Firsts
      /\ W \in {"wave1", "wave2"} /\ W = "wave1"
  BY <1>3, ListsAre
<1> QED
  BY <1>2, <1>4, <1>7, <1>8, <1>9, FillStep

\* A book's page waits for the sections and the library; it is of no wave.
LEMMA OtherSent ==
  ASSUME WaitsInv, NEW s, Fits(s), Waves(phase, s),
         \A e \in ToSet(s) : HomeShape(e) /\ HomeTrue(e)',
         UNCHANGED phase, NEW op \in {"related", "known"}, NEW do,
         do = IF op = "related" THEN "sections" ELSE "library",
         NEW arg, arg = [again |-> arg.again], NEW old \in BOOLEAN, SendOn(s, op, do, arg, old)
  PROVE  Waves(phase, stack)' /\ \A e \in ToSet(stack') : HomeShape(e) /\ HomeTrue(e)'
<1>1. PICK e : e = Entry(op, do, arg, old)
  OBVIOUS
<1>2. /\ e.op = op /\ e.do = do /\ e.arg = arg /\ e.got.is = "none" /\ e.old = old
  BY <1>1, EntryIs, RepliesDiffer
<1>3. HomeShape(e) /\ HomeTrue(e)' /\ ~ InWave(e)
  BY <1>2 DEF HomeShape, HomeTrue, InWave
<1>4. Waves(phase, stack') /\ ToSet(stack') = ToSet(s) \cup {e}
  BY <1>1, <1>3, PushedOther DEF WaitsInv
<1> QED
  BY <1>3, <1>4

LEMMA ReadRelatedStep == ASSUME WaitsInv, HomeKept, ReadRelated PROVE HomeKept'
<1>1. PICK arg, no, op, do :
        /\ SendOn(stack, op, do, arg, no) /\ arg = [again |-> arg.again] /\ no \in BOOLEAN
        /\ op = "related" /\ do = "sections"
  <2>1. PICK yes, no : yes = TRUE /\ no = FALSE /\ no \in BOOLEAN
    OBVIOUS
  <2>2. PICK arg : arg = [again |-> yes]
    OBVIOUS
  <2>3. SendOn(stack, "related", "sections", arg, no)
    BY <2>1, <2>2, Zenon DEF ReadRelated
  <2>4. arg = [again |-> arg.again]
    BY <2>2
  <2> QED
    BY <2>1, <2>3, <2>4
<1>2. UNCHANGED <<offers, bought, events, sections, owned, resume, list, phase, told, off>>
  BY DEF ReadRelated, homeVars, caches
<1>3. /\ \A e \in ToSet(stack) : HomeShape(e) /\ HomeTrue(e)'
      /\ Fits(stack) /\ Waves(phase, stack)
  BY <1>2 DEF HomeKept, HomeTrue, NewOffers, NewBought, WaitsInv
<1>4. Waves(phase, stack)' /\ \A e \in ToSet(stack') : HomeShape(e) /\ HomeTrue(e)'
  BY <1>1, <1>2, <1>3, OtherSent
<1>5. ListsTrue(list, off, Pending(phase))'
  <2>1. ListsTrue(list, off, Pending(phase))
    BY DEF HomeKept
  <2> QED
    BY <1>2, <2>1 DEF ListsTrue, ShowsNew, NewOffers, NewBought
<1>6. HomeTypes' /\ PageTypes' /\ CachesTrue(off)'
  BY <1>2 DEF HomeKept, HomeTypes, PageTypes, CachesTrue, ShowsNew, NewOffers, NewBought
<1> QED
  BY <1>4, <1>5, <1>6 DEF HomeKept, HomeShape

LEMMA RelatedReturnStep == ASSUME WaitsInv, HomeKept, RelatedReturn PROVE HomeKept'
<1>1. /\ stack # <<>> /\ Innermost.got # None /\ Innermost.op = "related" /\ KeepSections
      /\ UNCHANGED <<offers, bought, events, told, owned, resume, list, phase>>
      /\ off' = SectionsOff
  BY DEF RelatedReturn, Returned
<1>2. /\ HomeShape(Innermost) /\ HomeTrue(Innermost) /\ Innermost.do = "sections"
      /\ Fits(Under) /\ Waves(phase, Under) /\ Innermost.arg = [again |-> Innermost.arg.again]
      /\ \A e \in ToSet(Under) : HomeShape(e) /\ HomeTrue(e)'
  BY <1>1, HomeTop DEF HomeShape, HomeTrue, InWave, NewOffers, NewBought
<1>3. PICK o : o = SectionsOff
  OBVIOUS
<1>4. /\ sections' \in [offers : Nat, fresh : BOOLEAN] /\ CachesTrue(o)'
      /\ \A l \in Lists : l \in o <=> l \in off
  BY <1>1, <1>2, <1>3, SectionsKept
<1>5. Waves(phase, stack)' /\ \A e \in ToSet(stack') : HomeShape(e) /\ HomeTrue(e)'
  <2>1. CASE SendNext("known", "library", Innermost.arg, FALSE)
    <3>1. PICK op, do, arg, no : /\ SendOn(Under, op, do, arg, no) /\ arg = [again |-> arg.again]
                                 /\ op = "known" /\ do = "library" /\ no \in BOOLEAN
      BY <1>2, <2>1 DEF SendNext
    <3> QED
      BY <1>1, <1>2, <3>1, OtherSent
  <2>2. CASE Ends(FALSE)
    <3>1. stack' = Under /\ phase' = phase
      BY <1>1, <2>2 DEF Ends
    <3> QED
      BY <1>2, <3>1
  <2> QED
    BY <2>1, <2>2 DEF RelatedReturn
<1>6. ListsTrue(list, off, Pending(phase))'
  <2>1. ListsTrue(list, off, Pending(phase))
    BY DEF HomeKept
  <2> QED
    BY <1>1, <1>3, <1>4, <2>1 DEF ListsTrue, ShowsNew, NewOffers, NewBought
<1>7. HomeTypes' /\ PageTypes' /\ CachesTrue(off)'
  BY <1>1, <1>3, <1>4 DEF HomeKept, HomeTypes, PageTypes, CachesTrue
<1> QED
  BY <1>5, <1>6, <1>7 DEF HomeKept, HomeShape

LEMMA KnownReturnStep == ASSUME WaitsInv, HomeKept, KnownReturn PROVE HomeKept'
<1>1. /\ stack # <<>> /\ Innermost.got # None /\ Innermost.op = "known" /\ KeepOwned
      /\ UNCHANGED <<offers, bought, events, told, sections, resume, list, phase>>
      /\ off' = OwnedOff
  BY DEF KnownReturn, Returned
<1>2. /\ HomeShape(Innermost) /\ HomeTrue(Innermost) /\ Innermost.do = "library"
      /\ Fits(Under) /\ Waves(phase, Under) /\ Innermost.arg = [again |-> Innermost.arg.again]
      /\ Innermost.old \in BOOLEAN
      /\ \A e \in ToSet(Under) : HomeShape(e) /\ HomeTrue(e)'
  BY <1>1, HomeTop DEF HomeShape, HomeTrue, InWave, NewOffers, NewBought
<1>3. PICK o : o = OwnedOff
  OBVIOUS
<1>4. owned' \in Nat /\ CachesTrue(o)' /\ \A l \in Lists : l \in o <=> l \in off
  BY <1>1, <1>2, <1>3, OwnedKept
<1>5. Waves(phase, stack)' /\ \A e \in ToSet(stack') : HomeShape(e) /\ HomeTrue(e)'
  <2>1. CASE TryAgain("known")
    <3>1. PICK before, no, arg, old :
            /\ before = Innermost.arg /\ old = Innermost.old
            /\ arg = [before EXCEPT !.again = no] /\ SendOn(Under, "known", "library", arg, old)
      BY <2>1, Zenon DEF TryAgain, SendNext
    <3>2. arg = [again |-> no]
      BY <1>2, <3>1
    <3>3. PICK op, do : /\ SendOn(Under, op, do, arg, old) /\ arg = [again |-> arg.again]
                        /\ op = "known" /\ do = "library" /\ old \in BOOLEAN
      BY <1>2, <3>1, <3>2
    <3> QED
      BY <1>1, <1>2, <3>3, OtherSent
  <2>2. CASE Ends(FALSE)
    <3>1. stack' = Under /\ phase' = phase
      BY <1>1, <2>2 DEF Ends
    <3> QED
      BY <1>2, <3>1
  <2> QED
    BY <2>1, <2>2 DEF KnownReturn
<1>6. ListsTrue(list, off, Pending(phase))'
  <2>1. ListsTrue(list, off, Pending(phase))
    BY DEF HomeKept
  <2> QED
    BY <1>1, <1>3, <1>4, <2>1 DEF ListsTrue, ShowsNew, NewOffers, NewBought
<1>7. HomeTypes' /\ PageTypes' /\ CachesTrue(off)'
  BY <1>1, <1>3, <1>4 DEF HomeKept, HomeTypes, PageTypes, CachesTrue
<1> QED
  BY <1>5, <1>6, <1>7 DEF HomeKept, HomeShape

\* A reply tells what the server has, and the client was told of no more.
LEMMA HomeFilled ==
  ASSUME WaitsInv, WaitsInv', HomeKept, NEW do, NEW R, Filled(do, R),
         \A r \in R : \/ r.is = "no"
                      \/ /\ do = "library" /\ r.data = bought
                      \/ /\ do # "library" /\ r.data = offers,
         UNCHANGED <<offers, bought, sections, owned, resume, list, phase, told, off>>,
         events' \in Seq(1 .. offers)
  PROVE  HomeKept'
<1>1. \A e \in ToSet(stack') : HomeShape(e) /\ HomeTrue(e)
  <2> SUFFICES ASSUME NEW e \in ToSet(stack'), e \notin ToSet(stack)
               PROVE  HomeShape(e) /\ HomeTrue(e)
    BY DEF HomeKept
  <2>1. PICK o \in ToSet(stack), r \in R :
          o.got = None /\ (r = Failed \/ o.do = do) /\ e = Given(o, r)
    BY DEF Filled
  <2>2. /\ e.op = o.op /\ e.do = o.do /\ e.arg = o.arg /\ e.old = o.old /\ e.got = r
    BY <2>1, GivenEntry
  <2>3. HomeShape(o) /\ HomeTrue(o)
    BY DEF HomeKept
  <2>4. /\ bought \in Nat /\ NewBought(bought) /\ offers \in Nat /\ NewOffers(offers)
    BY DEF HomeKept, HomeTypes, NewBought, NewOffers
  <2>5. r.is = "ok" => /\ r.data \in Nat
                       /\ o.do = "library" => NewBought(r.data)
                       /\ o.do # "library" => NewOffers(r.data)
    BY <2>1, <2>4, RepliesDiffer
  <2>6. HomeShape(e)
    BY <2>2, <2>3, <2>5 DEF HomeShape
  <2>7. HomeTrue(e)
    BY <2>2, <2>3, <2>5 DEF HomeTrue
  <2> QED
    BY <2>6, <2>7
<1>2. Waves(phase, stack')
  <2>1. PICK t : t = stack'
    OBVIOUS
  <2>2. IsSeq(t)
    <3>1. IsSeq(stack)'
      BY DEF WaitsInv, Fits, Stacked
    <3> QED
      BY <2>1, <3>1 DEF IsSeq
  <2>3. /\ Len(t) = Len(stack) /\ \A i \in 1 .. Len(stack) : t[i].op = stack[i].op
        /\ \A o \in ToSet(stack) : \E e \in ToSet(t) : e.op = o.op
        /\ \A e \in ToSet(t) : \E o \in ToSet(stack) : e.op = o.op /\ e.arg = o.arg
    BY <2>1, GivenEntry DEF Filled
  <2>4. \A e \in ToSet(t) : \E o \in ToSet(stack) :
          e.op = o.op /\ (e.op \in {"sections", "parse"} => e.arg.left = o.arg.left)
    BY <2>3
  <2>5. Waves(phase, stack)
    BY DEF HomeKept
  <2> QED
    BY <2>1, <2>2, <2>3, <2>4, <2>5, MarkedWaves
<1>3. \A e \in ToSet(stack') : HomeShape(e) /\ HomeTrue(e)'
  BY <1>1 DEF HomeTrue, NewOffers, NewBought
<1>4. ListsTrue(list, off, Pending(phase))'
  <2>1. ListsTrue(list, off, Pending(phase))
    BY DEF HomeKept
  <2> QED
    BY <2>1 DEF ListsTrue, ShowsNew, NewOffers, NewBought
<1>5. HomeTypes' /\ PageTypes' /\ CachesTrue(off)'
  BY DEF HomeKept, HomeTypes, PageTypes, CachesTrue, ShowsNew, NewOffers, NewBought
<1> QED
  BY <1>2, <1>3, <1>4, <1>5 DEF HomeKept, HomeShape

\* What the client shows stays as new as it was told when the server moves on.
LEMMA ApplyDiscountStep == ASSUME HomeKept, ApplyDiscount PROVE HomeKept'
<1>1. /\ offers' = offers + 1 /\ events' = Append(events, offers')
      /\ UNCHANGED <<stack, bought, sections, owned, resume, list, phase, told, off>>
  BY DEF ApplyDiscount, Elsewhere, caches
<1>2. offers \in Nat /\ told.offers \in 1 .. offers /\ events \in Seq(1 .. offers)
  BY DEF HomeKept, HomeTypes
<1>3. /\ \A n : NewOffers(n) => NewOffers(n)'
      /\ \A n : NewBought(n) <=> NewBought(n)'
  BY <1>1, <1>2 DEF NewOffers, NewBought
<1>4. HomeTypes'
  <2>1. events' \in Seq(1 .. offers')
    <3>1. 1 .. offers \subseteq 1 .. offers' /\ offers' \in 1 .. offers'
      BY <1>1, <1>2
    <3>2. events \in Seq(1 .. offers')
      BY <1>2, <3>1, SeqMonotonic
    <3> QED
      BY <1>1, <3>1, <3>2, AppendProperties
  <2>2. told \in [offers : 1 .. offers', bought : 1 .. bought]
    BY <1>1, <1>2 DEF HomeKept, HomeTypes
  <2> QED
    BY <1>1, <1>2, <2>1, <2>2 DEF HomeKept, HomeTypes
<1>5. \A x : ShowsNew(x) => ShowsNew(x)'
  BY <1>3 DEF ShowsNew
<1>6. CachesTrue(off)'
  BY <1>1, <1>3, <1>5 DEF HomeKept, CachesTrue
<1>7. ListsTrue(list, off, Pending(phase))'
  <2>1. ListsTrue(list, off, Pending(phase))
    BY DEF HomeKept
  <2> QED
    BY <1>1, <1>5, <2>1 DEF ListsTrue
<1>8. \A e \in ToSet(stack') : HomeShape(e) /\ HomeTrue(e)'
  <2> SUFFICES ASSUME NEW e \in ToSet(stack) PROVE HomeShape(e) /\ HomeTrue(e)'
    BY <1>1
  <2>1. HomeShape(e) /\ HomeTrue(e)
    BY DEF HomeKept
  <2> QED
    BY <1>3, <2>1 DEF HomeTrue
<1>9. Waves(phase, stack)'
  <2>1. Waves(phase, stack)
    BY DEF HomeKept
  <2>2. stack' = stack /\ phase' = phase
    BY <1>1
  <2> QED
    BY <2>1, <2>2
<1> QED
  BY <1>1, <1>4, <1>6, <1>7, <1>8, <1>9 DEF HomeKept, PageTypes, HomeShape

LEMMA HomeServed ==
  ASSUME WaitsInv, HomeKept,
         HandleGetHomeSections \/ HandleGetBooksByIds \/ HandleGetLibrary
  PROVE  HomeKept'
<1>1. PICK do, x : /\ Asked(do) /\ (Answer(x) \/ Refuse \/ ReplyTo(stack, Ok(x)))
                   /\ x = (IF do = "library" THEN bought ELSE offers)
                   /\ UNCHANGED homeVars
  BY DEF HandleGetHomeSections, HandleGetBooksByIds, HandleGetLibrary, InOrder
<1>2. WaitsInv' /\ Filled(do, {Failed, Ok(x)})
  BY <1>1, ServedFits
<1>3. \A r \in {Failed, Ok(x)} : \/ r.is = "no"
                                 \/ do = "library" /\ r.data = bought
                                 \/ do # "library" /\ r.data = offers
  BY <1>1, RepliesDiffer
<1>4. /\ UNCHANGED <<offers, bought, sections, owned, resume, list, phase, told, off>>
      /\ events' = events
  BY <1>1 DEF homeVars, caches
<1>5. events' \in Seq(1 .. offers)
  BY <1>4 DEF HomeKept, HomeTypes
<1> QED
  BY <1>2, <1>3, <1>4, <1>5, HomeFilled

LEMMA HomeKeptStep == ASSUME WaitsInv, HomeKept, HomeNext PROVE HomeKept'
<1>1. CASE EventComes \/ CheckoutSucceeded \/ RefreshTimer \/ LoadWave2 \/ Expire
  BY <1>1, EventComesStep, CheckoutStep, RefreshTimerStep, LoadWave2Step, ExpireStep
<1>2. CASE SectionsReturn \/ ParseReturns \/ ResumeReturns \/ ResumeBooksReturn
  BY <1>2, SectionsReturnStep, ParseReturnsStep, ResumeReturnsStep, ResumeBooksStep
<1>3. CASE ReadRelated \/ RelatedReturn \/ KnownReturn
  BY <1>3, ReadRelatedStep, RelatedReturnStep, KnownReturnStep
<1>4. CASE HandleGetHomeSections \/ HandleGetBooksByIds \/ HandleGetLibrary \/ ApplyDiscount
  BY <1>4, HomeServed, ApplyDiscountStep
<1> QED
  BY <1>1, <1>2, <1>3, <1>4 DEF HomeNext

\* The connection is lost, with the events on their way, or a request given up.
LEMMA HomeFault ==
  ASSUME WaitsInv, HomeKept, Disconnect \/ GiveUp
  PROVE  HomeKept'
<1>1. WaitsInv' /\ Filled("", {Failed})
  BY FaultFits DEF Disconnect, GiveUp
<1>2. UNCHANGED <<offers, bought, sections, owned, resume, list, phase, told, off>>
  BY DEF Disconnect, GiveUp, homeVars, caches
<1>3. events' \in Seq(1 .. offers)
  <2>1. events' = <<>> \/ events' = events
    BY DEF Disconnect, GiveUp, homeVars
  <2> QED
    BY <2>1, EmptySeq DEF HomeKept, HomeTypes
<1>4. PICK do, R : R = {Failed} /\ Filled(do, R)
  BY <1>1
<1>5. \A r \in R : r.is = "no"
  BY <1>4, RepliesDiffer
<1> QED
  BY <1>1, <1>2, <1>3, <1>4, <1>5, HomeFilled

LEMMA HomeInvStep == WaitsInv /\ HomeInv /\ [Next]_vars => HomeInv'
<1> SUFFICES ASSUME WaitsInv, HomeInv, [Next]_vars PROVE HomeInv'
  OBVIOUS
<1>1. CASE Browse
  BY <1>1, HomeKeptStep DEF Browse, HomeInv, otherThanHome
<1>2. CASE Disconnect \/ GiveUp
  <2>1. /\ shell' = shell
        /\ events = <<>> => UNCHANGED homeVars
    BY <1>2 DEF Disconnect, GiveUp, otherThanHome, homeVars
  <2>2. CASE shell = "home"
    BY <1>2, <2>1, <2>2, HomeFault DEF HomeInv
  <2>3. CASE shell # "home"
    BY <2>1, <2>3 DEF HomeInv, HomeInit, homeVars, caches
  <2> QED
    BY <2>2, <2>3
<1>3. CASE Moderate \/ Watch \/ AdminRefresh \/ Read \/ Find
  <2>1. UNCHANGED <<shell, homeVars>> /\ shell # "home"
    BY <1>3 DEF Moderate, Watch, AdminRefresh, Read, Find
  <2> QED
    BY <2>1 DEF HomeInv, HomeInit, homeVars, caches
<1>4. CASE UNCHANGED vars
  <2>1. UNCHANGED <<shell, stack, offers, bought, events, sections, owned, resume, list, phase,
                    told, off>>
    BY <1>4 DEF vars, waits, otherThanHome, homeVars, caches
  <2>2. Waves(phase, stack) /\ ListsTrue(list, off, Pending(phase))
        => (Waves(phase, stack) /\ ListsTrue(list, off, Pending(phase)))'
    <3>1. stack' = stack /\ phase' = phase
      BY <2>1
    <3> QED
      BY <2>1, <3>1 DEF ListsTrue, ShowsNew, NewOffers, NewBought
  <2>3. HomeKept => HomeKept'
    BY <2>1, <2>2, ZenonT(40) DEF HomeKept, HomeTypes, PageTypes, HomeTrue, HomeShape, CachesTrue, ShowsNew,
       NewOffers, NewBought
  <2> QED
    BY <2>1, <2>3 DEF HomeInv, HomeInit
<1> QED
  BY <1>1, <1>2, <1>3, <1>4 DEF Next

LEMMA InitHome == Init => HomeInv
<1> SUFFICES ASSUME stack = <<>>, HomeInit PROVE HomeInv
  BY DEF Init, WaitsInit
<1>1. ToSet(stack) = {} /\ DOMAIN stack = {}
  BY EmptySeq DEF ToSet
<1>2. HomeTypes
  <2>1. PICK no : no \in BOOLEAN /\ no = FALSE
    OBVIOUS
  <2>2. sections = [offers |-> 0, fresh |-> no] /\ resume = [shows |-> Empty, valid |-> no]
    BY <2>1, Zenon DEF HomeInit, NoSections, NoResume
  <2>3. Empty \in Shows
    BY DEF Empty, Shows
  <2>4. /\ sections \in [offers : Nat, fresh : BOOLEAN]
        /\ resume \in [shows : Shows, valid : BOOLEAN]
    BY <2>1, <2>2, <2>3
  <2>5. offers = 1 /\ bought = 1 /\ events = <<>> /\ owned = 0 /\ told = [offers |-> 1, bought |-> 1]
    BY DEF HomeInit
  <2> QED
    BY <2>4, <2>5, EmptySeq DEF HomeTypes
<1>3. PageTypes /\ phase = "idle" /\ Pending(phase) = {}
  BY DEF HomeInit, PageTypes, Empty, Shows, Pending
<1>4. /\ sections.offers = 0 /\ owned = 0 /\ ShowsNew(resume.shows)
      /\ \A l \in Lists : ShowsNew(list[l])
  BY DEF HomeInit, NoSections, NoResume, Empty, ShowsNew
<1>5. Waves(phase, stack)
  BY <1>1, <1>3 DEF Waves
<1>6. CachesTrue(off) /\ ListsTrue(list, off, Pending(phase))
  BY <1>4 DEF CachesTrue, ListsTrue
<1> QED
  BY <1>1, <1>2, <1>3, <1>5, <1>6 DEF HomeInv, HomeKept

LEMMA HomeSafe == WaitsInv /\ HomeInv => HomeAgrees
<1> SUFFICES ASSUME HomeInv, stack = <<>> PROVE HomeAgrees
  BY DEF HomeAgrees, AtRest
<1>1. ToSet(stack) = {}
  BY EmptySeq DEF ToSet
<1>2. CASE HomeKept
  <2>1. /\ phase \in {"idle", "wave1", "later", "wave2"} /\ phase \notin {"wave1", "wave2"}
        /\ ListsTrue(list, off, Pending(phase))
    BY <1>1, <1>2 DEF HomeKept, PageTypes, Waves
  <2>2. phase = "idle" => \A l \in Lists : l \in off \/ ShowsNew(list[l])
    BY <2>1 DEF ListsTrue, Pending
  <2> QED
    BY <2>1, <2>2 DEF HomeAgrees, ShowsNew, NewOffers, NewBought
<1>3. CASE HomeInit
  BY <1>3 DEF HomeInit, HomeAgrees, Empty
<1> QED
  BY <1>2, <1>3 DEF HomeInv

\* Once nothing is under way and every event has come, the page is not refreshing
\* unless its second wave is to come, and a list of a page that is not shows no
\* discount and no purchase older than the client was told of.
THEOREM HomePageAgrees == Spec => []HomeAgrees
<1>1. Init => WaitsInv /\ HomeInv
  BY InitWaits, InitHome
<1>2. WaitsInv /\ HomeInv /\ [Next]_vars => (WaitsInv /\ HomeInv)'
  BY WaitsStep, HomeInvStep
<1> QED
  BY <1>1, <1>2, HomeSafe, PTL DEF Spec

-----------------------------------------------------------------------------
(* Moderation: the order of replies. A request is served after those sent   *)
(* before it, which wait below it.                                          *)

InTurn(q, s) ==
  /\ \A i, j \in DOMAIN q :
       i < j /\ q[i].depth # 0 /\ q[j].depth # 0 => q[i].depth < q[j].depth
  /\ \A d \in DOMAIN s : s[d].got = None => \E i \in DOMAIN q : q[i].depth = d
  /\ \A d, k \in DOMAIN s : d < k /\ s[d].got = None => s[k].got.is # "ok"

LEMMA TurnSent ==
  ASSUME Wired(wire), NEW s, Fits(s), InTurn(wire, s), NEW op, NEW do, NEW arg, NEW old,
         SendOn(s, op, do, arg, old)
  PROVE  InTurn(wire', stack')
<1> DEFINE w == [do |-> do, arg |-> arg, depth |-> Len(s) + 1]
<1>1. /\ Len(s) \in Nat /\ DOMAIN s = 1 .. Len(s)
      /\ DOMAIN wire = 1 .. Len(wire) /\ Len(wire) \in Nat
      /\ \A i \in 1 .. Len(wire) : wire[i].depth \in Nat
  BY SeqShape DEF Fits, Stacked, Wired, IsRequest
<1>2. \A i \in 1 .. Len(wire) : wire[i].depth <= Len(s)
  BY <1>1 DEF Fits, Linked
<1>3. w.depth = Len(s) + 1
  OBVIOUS
<1>4. wire' = Append(wire, w)
  BY DEF SendOn
<1> HIDE DEF w
<1>5. /\ DOMAIN wire' = 1 .. Len(wire) + 1 /\ wire'[Len(wire) + 1] = w
      /\ \A i \in 1 .. Len(wire) : wire'[i] = wire[i]
  BY <1>4, PushSeq DEF Wired
<1>6. /\ Len(stack') = Len(s) + 1 /\ stack'[Len(s) + 1].got = None
      /\ \A i \in 1 .. Len(s) : stack'[i] = s[i]
  BY SendFits, EntryIs
<1>7. DOMAIN stack' = 1 .. Len(s) + 1
  <2>1. IsSeq(s)
    BY DEF Fits, Stacked
  <2> QED
    BY <2>1, PushSeq DEF SendOn
<1>8. ASSUME NEW i \in DOMAIN wire', NEW j \in DOMAIN wire', i < j,
             wire'[i].depth # 0, wire'[j].depth # 0
      PROVE  wire'[i].depth < wire'[j].depth
  <2>1. i \in 1 .. Len(wire)
    BY <1>1, <1>5, <1>8
  <2>2. CASE j = Len(wire) + 1
    <3>1. wire[i].depth \in Nat /\ wire[i].depth <= Len(s) /\ wire'[i] = wire[i]
      BY <1>1, <1>2, <1>5, <2>1
    <3>2. wire'[j].depth = Len(s) + 1
      BY <1>3, <1>5, <2>2
    <3> QED
      BY <1>1, <3>1, <3>2
  <2>3. CASE j \in 1 .. Len(wire)
    BY <1>1, <1>5, <1>8, <2>1, <2>3 DEF InTurn
  <2> QED
    BY <1>1, <1>5, <2>2, <2>3
<1>9. ASSUME NEW d \in DOMAIN stack', stack'[d].got = None
      PROVE  \E i \in DOMAIN wire' : wire'[i].depth = d
  <2>1. CASE d = Len(s) + 1
    <3>1. Len(wire) + 1 \in DOMAIN wire'
      BY <1>1, <1>5
    <3> QED
      BY <1>3, <1>5, <2>1, <3>1
  <2>2. CASE d \in 1 .. Len(s)
    <3>1. PICK i \in 1 .. Len(wire) : wire[i].depth = d
      BY <1>1, <1>6, <1>9, <2>2 DEF InTurn
    <3>2. i \in DOMAIN wire' /\ wire'[i] = wire[i]
      BY <1>1, <1>5
    <3> QED
      BY <3>1, <3>2
  <2> QED
    BY <1>1, <1>7, <2>1, <2>2
<1>10. ASSUME NEW d \in DOMAIN stack', NEW k \in DOMAIN stack', d < k, stack'[d].got = None
       PROVE  stack'[k].got.is # "ok"
  <2>1. CASE k = Len(s) + 1
    BY <1>6, <2>1, RepliesDiffer
  <2>2. CASE k \in 1 .. Len(s)
    <3>1. d \in 1 .. Len(s)
      BY <1>1, <1>7, <1>10, <2>2
    <3> QED
      BY <1>1, <1>6, <1>10, <2>2, <3>1 DEF InTurn
  <2> QED
    BY <1>1, <1>7, <2>1, <2>2
<1> QED
  BY <1>8, <1>9, <1>10 DEF InTurn

LEMMA TurnUnder ==
  ASSUME WaitsInv, InTurn(wire, stack), stack # <<>>, Innermost.got # None
  PROVE  InTurn(wire, Under)
<1>1. /\ Len(stack) \in Nat \ {0} /\ Len(Under) = Len(stack) - 1 /\ IsSeq(Under)
      /\ \A i \in 1 .. Len(stack) - 1 : Under[i] = stack[i]
  BY UnderFits DEF Fits, Stacked
<1>2. DOMAIN stack = 1 .. Len(stack) /\ DOMAIN Under = 1 .. Len(stack) - 1
  BY <1>1, SeqShape DEF WaitsInv, Fits, Stacked
<1> QED
  BY <1>1, <1>2 DEF InTurn

\* Above the one whose reply comes first nothing has been answered.
LEMMA TurnReplied ==
  ASSUME Wired(wire), NEW s, Fits(s), InTurn(wire, s), NEW r, r # None, wire # <<>>,
         ReplyTo(s, r)
  PROVE  InTurn(wire', stack')
<1> DEFINE d == Head(wire).depth
           n == Len(s)
           m == Len(wire)
<1>1. n \in Nat /\ DOMAIN s = 1 .. n
  BY SeqShape DEF Fits, Stacked
<1>2. /\ IsSeq(wire') /\ m \in Nat \ {0} /\ Len(wire') = m - 1 /\ Head(wire) = wire[1]
      /\ \A i \in 1 .. m - 1 : wire'[i] = wire[i + 1]
  BY TailSeq DEF ReplyTo, Wired
<1>3. DOMAIN wire = 1 .. m /\ DOMAIN wire' = 1 .. m - 1
  BY <1>2, SeqShape DEF Wired
<1>4. /\ Len(stack') = n /\ WaitsInv'
      /\ \/ stack' = s
         \/ d # 0 /\ d \in 1 .. n /\ stack'[d] = Given(s[d], r)
            /\ \A i \in 1 .. n : i # d => stack'[i] = s[i]
  BY ReplyFits
<1>5. DOMAIN stack' = 1 .. n
  <2>1. IsSeq(stack)'
    BY <1>4 DEF WaitsInv, Fits, Stacked
  <2>2. IsSeq(stack')
    BY <2>1 DEF IsSeq
  <2> QED
    BY <1>4, <2>2, SeqShape
<1>6. \A k \in 1 .. n : stack'[k] = s[k] \/ (k = d /\ d # 0)
  BY <1>4, GivenEntry
<1>7. \A k \in 1 .. n : stack'[k].got = None => k # d /\ stack'[k] = s[k]
  <2> SUFFICES ASSUME NEW k \in 1 .. n, stack'[k].got = None PROVE k # d /\ stack'[k] = s[k]
    OBVIOUS
  <2>2. ASSUME k = d PROVE FALSE
    <3>1. d # 0 /\ Late = FALSE
      BY <1>1, <2>2 DEF Late
    <3>2. stack' = [s EXCEPT ![d].got = r]
      BY <3>1 DEF ReplyTo
    <3>3. stack'[d] = [s[d] EXCEPT !.got = r] /\ IsEntry(s[d])
      BY <1>1, <2>2, <3>2 DEF Fits, Stacked, ToSet
    <3>4. stack'[d].got = r
      BY <3>3, GivenIs, GivenEntry
    <3> QED
      BY <2>2, <3>4
  <2> QED
    BY <1>6, <2>2
<1> HIDE DEF d
<1>8. wire[1].depth = d
  BY <1>2 DEF d
<1>9. ASSUME NEW k \in 1 .. n, stack'[k].got = None
      PROVE  \E i \in 1 .. m - 1 : wire[i + 1].depth = k
  <2>1. PICK j \in 1 .. m : wire[j].depth = k
    BY <1>1, <1>3, <1>7, <1>9 DEF InTurn
  <2>2. j # 1
    BY <1>7, <1>8, <1>9, <2>1
  <2>3. j - 1 \in 1 .. m - 1 /\ (j - 1) + 1 = j
    BY <1>2, <2>2
  <2> QED
    BY <2>1, <2>3
<1>10. ASSUME NEW i \in DOMAIN wire', NEW j \in DOMAIN wire', i < j,
              wire'[i].depth # 0, wire'[j].depth # 0
       PROVE  wire'[i].depth < wire'[j].depth
  <2>1. i + 1 \in 1 .. m /\ j + 1 \in 1 .. m /\ i + 1 < j + 1
    BY <1>2, <1>3, <1>10
  <2>2. wire'[i] = wire[i + 1] /\ wire'[j] = wire[j + 1]
    BY <1>2, <1>3
  <2> QED
    BY <1>3, <1>10, <2>1, <2>2 DEF InTurn
<1>11. ASSUME NEW c \in 1 .. n, NEW k \in 1 .. n, c < k, stack'[c].got = None
       PROVE  stack'[k].got.is # "ok"
  <2>1. CASE stack'[k] = s[k]
    BY <1>1, <1>7, <1>11, <2>1 DEF InTurn
  <2>2. CASE k = d /\ d # 0
    <3>1. PICK i \in 1 .. m - 1 : wire[i + 1].depth = c
      BY <1>9, <1>11
    <3>2. i + 1 \in 1 .. m /\ 1 \in 1 .. m /\ 1 < i + 1
      BY <1>2
    <3>3. d < c
      BY <1>1, <1>3, <1>8, <1>11, <2>2, <3>1, <3>2 DEF InTurn
    <3> QED
      BY <1>1, <1>11, <2>2, <3>3
  <2> QED
    BY <1>6, <2>1, <2>2
<1>12. ASSUME NEW k \in DOMAIN stack', stack'[k].got = None
       PROVE  \E i \in DOMAIN wire' : wire'[i].depth = k
  BY <1>2, <1>3, <1>5, <1>9, <1>12
<1> QED
  BY <1>5, <1>10, <1>11, <1>12 DEF InTurn

LEMMA TurnMarked ==
  ASSUME InTurn(wire, stack), NEW s, DOMAIN s = DOMAIN stack,
         \A i \in DOMAIN stack : s[i].got = stack[i].got
  PROVE  InTurn(wire, s)
BY DEF InTurn

LEMMA TurnFault ==
  ASSUME WaitsInv, InTurn(wire, stack), Lose \/ \E i \in DOMAIN stack : TimesOut(i)
  PROVE  InTurn(wire', stack')
<1>1. DOMAIN stack = 1 .. Len(stack) /\ Len(stack) \in Nat
  BY SeqShape DEF WaitsInv, Fits, Stacked
<1>2. WaitsInv'
  BY FaultFits
<1>3. Len(stack') = Len(stack) => DOMAIN stack' = DOMAIN stack
  <2>1. IsSeq(stack)'
    BY <1>2 DEF WaitsInv, Fits, Stacked
  <2>2. IsSeq(stack')
    BY <2>1 DEF IsSeq
  <2> QED
    BY <1>1, <2>2, SeqShape
<1>4. CASE Lose
  <2>1. /\ DOMAIN stack' = DOMAIN stack /\ ToSet(wire') = {}
        /\ \A i \in DOMAIN stack : \/ stack'[i] = stack[i] /\ stack[i].got # None
                                   \/ stack'[i].got = Failed
    <3>1. \A i \in DOMAIN stack : stack[i].got = None => stack'[i] = [stack[i] EXCEPT !.got = Failed]
      BY <1>4 DEF Lose
    <3>2. \A i \in DOMAIN stack : IsEntry(stack[i])
      BY StackEntries DEF WaitsInv
    <3>3. ASSUME NEW i \in DOMAIN stack, stack[i].got = None PROVE stack'[i].got = Failed
      <4>1. stack'[i] = Given(stack[i], Failed)
        BY <3>1, <3>2, <3>3, GivenIs
      <4> QED
        BY <4>1, GivenEntry
    <3> QED
      BY <1>1, <1>3, <1>4, <3>3, LoseFits
  <2>2. DOMAIN wire' = {}
    BY <2>1 DEF ToSet
  <2> QED
    BY <2>1, <2>2, RepliesDiffer DEF InTurn
<1>5. ASSUME NEW i \in DOMAIN stack, TimesOut(i) PROVE InTurn(wire', stack')
  <2>1. /\ Len(stack') = Len(stack) /\ stack'[i] = Given(stack[i], Failed)
        /\ \A j \in 1 .. Len(stack) : j # i => stack'[j] = stack[j]
    BY <1>5, TimesOutFits
  <2>2. DOMAIN stack' = DOMAIN stack /\ stack'[i].got = Failed
    BY <1>3, <2>1, GivenEntry
  <2>3. /\ DOMAIN wire' = DOMAIN wire
        /\ \A j \in DOMAIN wire : wire'[j].depth = (IF wire[j].depth = i THEN 0 ELSE wire[j].depth)
    <3>1. \A j \in DOMAIN wire : IsRequest(wire[j])
      BY DEF WaitsInv, Wired, ToSet
    <3> QED
      BY <1>5, <3>1 DEF TimesOut, IsRequest
  <2>4. ASSUME NEW d \in DOMAIN stack', stack'[d].got = None
        PROVE  \E j \in DOMAIN wire' : wire'[j].depth = d
    <3>1. d # i /\ stack[d].got = None
      BY <1>1, <2>1, <2>2, <2>4, RepliesDiffer
    <3>2. PICK j \in DOMAIN wire : wire[j].depth = d
      BY <2>2, <3>1 DEF InTurn
    <3> QED
      BY <2>3, <3>1, <3>2
  <2>5. \A d, k \in DOMAIN stack' : d < k /\ stack'[d].got = None => stack'[k].got.is # "ok"
    <3> SUFFICES ASSUME NEW d \in DOMAIN stack, NEW k \in DOMAIN stack, d < k, stack'[d].got = None
                 PROVE  stack'[k].got.is # "ok"
      BY <2>2
    <3>1. d # i /\ stack[d].got = None
      BY <1>1, <2>1, <2>2, RepliesDiffer
    <3> QED
      BY <1>1, <2>1, <2>2, <3>1, RepliesDiffer DEF InTurn
  <2>6. \A j, k \in DOMAIN wire' :
          j < k /\ wire'[j].depth # 0 /\ wire'[k].depth # 0 => wire'[j].depth < wire'[k].depth
    BY <2>3 DEF InTurn
  <2> QED
    BY <2>4, <2>5, <2>6 DEF InTurn
<1> QED
  BY <1>4, <1>5

-----------------------------------------------------------------------------
(* Moderation: what the entries hold and what the lists may be off by.      *)

Asking == {"block", "unblock", "delete"}
Unsettled(e) == e.op = "moderate" /\ e.got.is = "ok"
Reviewing(e) == e.op = "opinions" /\ e.do = "reviews"
Removing(e) == e.op = "remove" /\ e.got = None

ModeratorEntry(e) ==
  /\ e.old \in BOOLEAN
  /\ \/ e.op = "users" /\ e.do = "users" /\ e.arg.then \in Asking \cup {""}
     \/ e.op = "change" /\ e.do \in Asking
     \/ e.op \in {"books", "remove", "moderate", "edit"} /\ e.do = e.op
     \/ e.op \in {"reviews", "details"} /\ e.do = "reviews" /\ e.arg.book \in Books
     \/ e.op = "opinions" /\ e.do = "books"
     \/ Reviewing(e) /\ e.arg.book \in Books /\ e.arg.left \in Seq(Books)

\* A reply that is not old is what the server has.
ReplyTrue(e) ==
  e.got.is = "ok" =>
    /\ e.do = "users" => e.old \/ e.got.data = status
    /\ e.do = "books" => e.got.data \subseteq Books /\ (e.old \/ e.got.data = on)
    /\ e.do = "reviews" => e.old \/ e.got.data = reviewed

\* The reviews collected so far are, unless a moderated book is yet to be forgotten.
Good(r) == r[1] \in on /\ r[2] \in {NoReviews, reviewed}
SoFar(a) == (\A r \in a.out : Good(r)) /\ a.book \in on /\ ToSet(a.left) \subseteq on
CollectedTrue(s, k) ==
  Reviewing(s[k]) => s[k].old \/ (\E j \in 1 .. k - 1 : Unsettled(s[j])) \/ SoFar(s[k].arg)

StackTrue(s) ==
  \A k \in 1 .. Len(s) : ModeratorEntry(s[k]) /\ ReplyTrue(s[k]) /\ CollectedTrue(s, k)

\* Of a book that is being removed only old reviews are collected: the books had
\* been forgotten before the server was asked.
RemovalsNoted(s) ==
  \A d, k \in 1 .. Len(s) : d < k /\ Removing(s[d]) /\ Reviewing(s[k]) => s[k].old

UsersKept(s) == UsersAgree \/ \E k \in 1 .. Len(s) : s[k].op \in {"users", "change"}
CatalogKept(s) ==
  BooksAgree \/ \E k \in 1 .. Len(s) : Unsettled(s[k]) \/ s[k].do = "books"
OpinionsKept(s) ==
  OpinionsAgree \/ \E k \in 1 .. Len(s) : Unsettled(s[k]) \/ s[k].op = "opinions"

\* A list that is about to lose a book is dirty, being fetched again, or marked.
CatalogDoubted(s, d) == catalog.dirty \/ \E k \in 1 .. Len(s) : d < k /\ s[k].do = "books"
OpinionsDoubted(s, d) ==
  \/ opinions.dirty \/ "opinions" \in moved \/ opinions.list = {}
  \/ \E k \in 1 .. Len(s) : d < k /\ s[k].op = "opinions"
Doubted(s) ==
  \A d \in 1 .. Len(s) : Removing(s[d]) => CatalogDoubted(s, d) /\ OpinionsDoubted(s, d)

ListTypes ==
  /\ people = [list |-> people.list, dirty |-> people.dirty]
  /\ catalog = [list |-> catalog.list, dirty |-> catalog.dirty] /\ catalog.dirty \in BOOLEAN
  /\ opinions = [list |-> opinions.list, dirty |-> opinions.dirty]
  /\ perBook = [b \in Books |-> perBook[b]]
  /\ catalog.list \subseteq Books /\ on \subseteq Books
PerBookKept == \A b \in Books : b \in moved \/ perBook[b] \in {NotKept, NoReviews, reviewed}

ListsKept(s) == UsersKept(s) /\ CatalogKept(s) /\ OpinionsKept(s) /\ Doubted(s)
Ordered == \A w \in ToSet(wire) : w.do = "moderate" => w.arg.book \in Books

ModeratorKept ==
  /\ InTurn(wire, stack) /\ StackTrue(stack) /\ RemovalsNoted(stack)
  /\ ListTypes /\ PerBookKept /\ ListsKept(stack) /\ Ordered

\* The lists of a part that is not this one are dirty.
ListsIdle ==
  /\ people = [list |-> Blank, dirty |-> TRUE] /\ catalog = [list |-> {}, dirty |-> TRUE]
  /\ opinions = [list |-> {}, dirty |-> TRUE]
ModeratorInv == IF shell = "moderator" THEN ModeratorKept ELSE ListsIdle

-----------------------------------------------------------------------------
(* Moderation: the books of a list, one after the other.                    *)

LEMMA SetSeq ==
  ASSUME NEW S, IsFiniteSet(S)
  PROVE  SetToSeq(S) \in Seq(S) /\ ToSet(SetToSeq(S)) \subseteq S
<1>1. Cardinality(S) \in Nat /\ \E f \in [1 .. Cardinality(S) -> S] : IsInjective(f)
  BY FS_CardinalityType DEF ExistsBijection, Bijection, Injection
<1>2. SetToSeq(S) \in [1 .. Cardinality(S) -> S]
  BY <1>1 DEF SetToSeq
<1> QED
  BY <1>1, <1>2 DEF ToSet

LEMMA LeastOf ==
  ASSUME NEW T \in SUBSET Nat, T # {}
  PROVE  Min(T) \in T /\ \A i \in T : Min(T) <= i
<1> DEFINE R == {p \in Nat \X Nat : p[1] < p[2]}
<1>1. IsWellFoundedOn(R, Nat)
  BY NatLessThanWellFounded DEF OpToRel
<1>2. \A x, y \in Nat : <<y, x>> \in R <=> y < x
  OBVIOUS
<1>3. PICK x \in T : \A y \in T : <<y, x>> \notin R
  BY <1>1, WFMin
<1> HIDE DEF R
<1>4. ASSUME NEW y \in T PROVE x <= y
  <2>1. ~ (y < x)
    BY <1>2, <1>3
  <2> QED
    BY <2>1
<1> QED
  BY <1>4 DEF Min

\* The first book of which no reviews are kept is asked for, all before it are kept.
LEMMA AskedNext ==
  ASSUME NEW left \in Seq(Books), NEW kept, NEW n, n = NextAsked(left, kept)
  PROVE  /\ n \in 0 .. Len(left) /\ Before(left, n) \subseteq ToSet(left)
         /\ \A b \in Before(left, n) : kept[b] # NotKept
         /\ n # 0 => /\ left[n] \in ToSet(left) /\ After(left, n) \in Seq(Books)
                     /\ ToSet(After(left, n)) \subseteq ToSet(left)
<1>1. PICK I : I = {i \in 1 .. Len(left) : kept[left[i]] = NotKept}
  OBVIOUS
<1>2. n = IF I # {} THEN Min(I) ELSE 0
  BY <1>1 DEF NextAsked, SelectInSeq
<1>3. /\ Len(left) \in Nat /\ DOMAIN left = 1 .. Len(left)
      /\ \A i \in 1 .. Len(left) : left[i] \in Books
  BY LenProperties
<1>4. I \in SUBSET Nat
  BY <1>1
<1>5. \/ n = 0 /\ I = {}
      \/ n \in I /\ \A i \in I : n <= i
  BY <1>2, <1>4, LeastOf
<1>6. /\ n \in 0 .. Len(left)
      /\ \A i \in 1 .. Len(left) : n = 0 \/ i < n => kept[left[i]] # NotKept
  BY <1>1, <1>3, <1>5
<1>7. CASE n = 0
  <2>1. Before(left, n) = ToSet(left)
    BY <1>7 DEF Before
  <2>2. \A b \in ToSet(left) : kept[b] # NotKept
    BY <1>3, <1>6, <1>7 DEF ToSet
  <2> QED
    BY <1>6, <1>7, <2>1, <2>2
<1>8. CASE n # 0
  <2>1. n \in 1 .. Len(left) /\ n - 1 \in 0 .. Len(left) /\ 1 \in 1 .. Len(left) + 1
        /\ n + 1 \in 1 .. Len(left) + 1
    BY <1>3, <1>6, <1>8
  <2>2. PICK p : p = SubSeq(left, 1, n - 1)
    OBVIOUS
  <2>3. /\ p \in Seq(Books) /\ Len(p) = n - 1 /\ \A i \in 1 .. n - 1 : p[i] = left[i]
    BY <1>3, <2>1, <2>2, SubSeqProperties
  <2>4. DOMAIN p = 1 .. n - 1 /\ Before(left, n) = ToSet(p)
    BY <1>8, <2>2, <2>3, LenProperties DEF Before
  <2>5. \A i \in 1 .. n - 1 : i \in 1 .. Len(left) /\ i < n
    BY <1>3, <2>1
  <2>6. \A b \in Before(left, n) : b \in ToSet(left) /\ kept[b] # NotKept
    BY <1>3, <1>6, <2>3, <2>4, <2>5 DEF ToSet
  <2>7. PICK a : a = SubSeq(left, n + 1, Len(left))
    OBVIOUS
  <2>8. /\ a \in Seq(Books) /\ Len(a) = Len(left) - n
        /\ \A i \in 1 .. Len(left) - n : a[i] = left[n + i]
    BY <1>3, <2>1, <2>7, SubSeqProperties
  <2>9. DOMAIN a = 1 .. Len(left) - n /\ After(left, n) = a
    BY <2>7, <2>8, LenProperties DEF After
  <2>10. \A i \in 1 .. Len(left) - n : n + i \in 1 .. Len(left)
    BY <1>3, <2>1
  <2>11. ToSet(a) \subseteq ToSet(left)
    BY <1>3, <2>8, <2>9, <2>10 DEF ToSet
  <2>12. left[n] \in ToSet(left)
    BY <1>3, <2>1 DEF ToSet
  <2> QED
    BY <1>6, <2>6, <2>8, <2>9, <2>11, <2>12
<1> QED
  BY <1>7, <1>8

\* What is collected from the reviews kept is true but for the books known to be off.
LEMMA EntriesTrue ==
  ASSUME NEW kept, NEW m, NEW B,
         \A b \in B : b \in on /\ b \notin m /\ kept[b] # NotKept,
         \A b \in B : b \in m \/ kept[b] \in {NotKept, NoReviews, reviewed}
  PROVE  \A r \in Entries(B, kept) : Good(r)
BY DEF Entries, Good

-----------------------------------------------------------------------------
(* Moderation: what the steps of Waits do to the entries and the lists.     *)

LEMMA KeptAs ==
  ASSUME NEW t, t = stack', StackTrue(t)', RemovalsNoted(t), ListsKept(t)'
  PROVE  StackTrue(stack)' /\ RemovalsNoted(stack)' /\ ListsKept(stack)'
<1>1. StackTrue(stack)'
  <2> SUFFICES ASSUME NEW k \in 1 .. Len(t)
               PROVE  ModeratorEntry(stack[k])' /\ ReplyTrue(stack[k])' /\ CollectedTrue(stack, k)'
    BY DEF StackTrue
  <2>1. ModeratorEntry(t[k])' /\ ReplyTrue(t[k])' /\ CollectedTrue(t, k)'
    BY DEF StackTrue
  <2>2. ModeratorEntry(stack[k])'
    BY <2>1 DEF ModeratorEntry, Reviewing
  <2>3. ReplyTrue(stack[k])'
    BY <2>1 DEF ReplyTrue
  <2>4. CollectedTrue(stack, k)'
    BY <2>1 DEF CollectedTrue, Reviewing, Unsettled, SoFar, Good
  <2> QED
    BY <2>2, <2>3, <2>4
<1>2. RemovalsNoted(stack)'
  BY DEF RemovalsNoted
<1>3. ListsKept(stack)'
  BY DEF ListsKept, UsersKept, CatalogKept, OpinionsKept, Doubted, CatalogDoubted,
     OpinionsDoubted
<1> QED
  BY <1>1, <1>2, <1>3

LEMMA TrueNow ==
  ASSUME NEW t, UNCHANGED accounts, StackTrue(t)
  PROVE  StackTrue(t)'
<1>1. on' = on /\ status' = status /\ reviewed' = reviewed
  BY DEF accounts
<1> SUFFICES ASSUME NEW k \in 1 .. Len(t)
             PROVE  ModeratorEntry(t[k])' /\ ReplyTrue(t[k])' /\ CollectedTrue(t, k)'
  BY DEF StackTrue
<1>2. ModeratorEntry(t[k]) /\ ReplyTrue(t[k]) /\ CollectedTrue(t, k)
  BY DEF StackTrue
<1>3. ModeratorEntry(t[k])'
  BY <1>2 DEF ModeratorEntry, Reviewing
<1>4. ReplyTrue(t[k])'
  BY <1>1, <1>2 DEF ReplyTrue
<1>5. CollectedTrue(t, k)'
  BY <1>1, <1>2 DEF CollectedTrue, Reviewing, Unsettled, SoFar, Good
<1> QED
  BY <1>3, <1>4, <1>5

LEMMA KeptNow ==
  ASSUME NEW t, t = stack', UNCHANGED accounts, StackTrue(t), RemovalsNoted(t),
         ListsKept(t)'
  PROVE  StackTrue(stack)' /\ RemovalsNoted(stack)' /\ ListsKept(stack)'
BY TrueNow, KeptAs

Pushed(s, e, t) ==
  Len(t) = Len(s) + 1 /\ t[Len(s) + 1] = e /\ \A i \in 1 .. Len(s) : t[i] = s[i]

LEMMA TruePushed ==
  ASSUME NEW s, Len(s) \in Nat, NEW e, NEW t, Pushed(s, e, t), StackTrue(s), RemovalsNoted(s),
         ModeratorEntry(e), e.got = None,
         Reviewing(e) => e.old \/ (\E j \in 1 .. Len(s) : Unsettled(s[j])) \/ SoFar(e.arg),
         Reviewing(e) => e.old \/ \A d \in 1 .. Len(s) : ~ Removing(s[d])
  PROVE  StackTrue(t) /\ RemovalsNoted(t)
<1> DEFINE n == Len(s)
<1>1. \A k \in 1 .. n + 1 : k \in 1 .. n \/ k = n + 1
  OBVIOUS
<1>2. \A k \in 1 .. n : 1 .. k - 1 \subseteq 1 .. n
  OBVIOUS
<1>3. ASSUME NEW k \in 1 .. n
      PROVE  ModeratorEntry(t[k]) /\ ReplyTrue(t[k]) /\ CollectedTrue(t, k)
  <2>1. t[k] = s[k] /\ \A j \in 1 .. k - 1 : t[j] = s[j]
    BY <1>2 DEF Pushed
  <2> QED
    BY <2>1 DEF StackTrue, CollectedTrue
<1>4. ModeratorEntry(e) /\ ReplyTrue(e)
  BY RepliesDiffer DEF ReplyTrue
<1>5. CollectedTrue(t, n + 1)
  <2>1. t[n + 1] = e /\ (n + 1) - 1 = n /\ \A j \in 1 .. n : t[j] = s[j]
    BY DEF Pushed
  <2> QED
    BY <2>1 DEF CollectedTrue
<1>6. StackTrue(t)
  BY <1>1, <1>3, <1>4, <1>5 DEF StackTrue, Pushed
<1>7. RemovalsNoted(t)
  <2> SUFFICES ASSUME NEW d \in 1 .. n + 1, NEW k \in 1 .. n + 1, d < k, Removing(t[d]),
                      Reviewing(t[k])
               PROVE  t[k].old
    BY DEF RemovalsNoted, Pushed
  <2>1. d \in 1 .. n /\ t[d] = s[d]
    BY DEF Pushed
  <2>2. CASE k \in 1 .. n
    BY <2>1, <2>2 DEF RemovalsNoted, Pushed
  <2>3. CASE k = n + 1
    <3>1. t[k] = e
      BY <2>3 DEF Pushed
    <3> QED
      BY <2>1, <3>1
  <2> QED
    BY <1>1, <2>2, <2>3
<1> QED
  BY <1>6, <1>7

LEMMA KeptPushed ==
  ASSUME NEW s, Len(s) \in Nat, NEW e, NEW t, Pushed(s, e, t),
         e.op \in {"users", "change"} \/ UsersKept(s)',
         e.do = "books" \/ CatalogKept(s)', e.op = "opinions" \/ OpinionsKept(s)',
         \A d \in 1 .. Len(s) : Removing(s[d]) =>
           /\ e.do = "books" \/ CatalogDoubted(s, d)'
           /\ e.op = "opinions" \/ OpinionsDoubted(s, d)',
         Removing(e) => catalog'.dirty /\ opinions'.dirty
  PROVE  ListsKept(t)'
<1> DEFINE n == Len(s)
<1>1. /\ n \in Nat /\ Len(t) = n + 1 /\ n + 1 \in 1 .. n + 1 /\ t[n + 1] = e
      /\ \A k \in 1 .. n : t[k] = s[k] /\ k \in 1 .. n + 1
  BY DEF Pushed
<1>2. \A k \in 1 .. n + 1 : k \in 1 .. n \/ k = n + 1
  OBVIOUS
<1> HIDE DEF n
<1>3. UsersKept(t)'
  BY <1>1 DEF UsersKept, n
<1>4. CatalogKept(t)'
  BY <1>1 DEF CatalogKept, n
<1>5. OpinionsKept(t)'
  BY <1>1 DEF OpinionsKept, n
<1>6. ASSUME NEW d \in 1 .. n + 1, Removing(t[d])
      PROVE  CatalogDoubted(t, d)' /\ OpinionsDoubted(t, d)'
  <2>1. CASE d = n + 1
    BY <1>1, <1>6, <2>1 DEF CatalogDoubted, OpinionsDoubted
  <2>2. CASE d \in 1 .. n
    <3>1. Removing(s[d]) /\ d < n + 1
      BY <1>1, <1>6, <2>2
    <3>2. CatalogDoubted(t, d)'
      <4>1. CASE e.do = "books"
        BY <1>1, <3>1, <4>1 DEF CatalogDoubted
      <4>2. CASE CatalogDoubted(s, d)'
        BY <1>1, <4>2 DEF CatalogDoubted, n
      <4> QED
        BY <2>2, <3>1, <4>1, <4>2 DEF n
    <3>3. OpinionsDoubted(t, d)'
      <4>1. CASE e.op = "opinions"
        BY <1>1, <3>1, <4>1 DEF OpinionsDoubted
      <4>2. CASE OpinionsDoubted(s, d)'
        BY <1>1, <4>2 DEF OpinionsDoubted, n
      <4> QED
        BY <2>2, <3>1, <4>1, <4>2 DEF n
    <3> QED
      BY <3>2, <3>3
  <2> QED
    BY <1>2, <2>1, <2>2
<1> QED
  BY <1>1, <1>3, <1>4, <1>5, <1>6 DEF ListsKept, Doubted

LEMMA ModeratorSent ==
  ASSUME Wired(wire), Ordered, NEW s, Fits(s), InTurn(wire, s), StackTrue(s), RemovalsNoted(s),
         NEW op, NEW do, NEW arg, NEW old, SendOn(s, op, do, arg, old), UNCHANGED accounts,
         NEW e, e = Entry(op, do, arg, old), ModeratorEntry(e),
         do = "moderate" => arg.book \in Books,
         Reviewing(e) => old \/ (\E j \in 1 .. Len(s) : Unsettled(s[j])) \/ SoFar(arg),
         Reviewing(e) => old \/ \A d \in 1 .. Len(s) : ~ Removing(s[d]),
         ListTypes', PerBookKept',
         op \in {"users", "change"} \/ UsersKept(s)',
         do = "books" \/ CatalogKept(s)', op = "opinions" \/ OpinionsKept(s)',
         \A d \in 1 .. Len(s) : Removing(s[d]) =>
           /\ do = "books" \/ CatalogDoubted(s, d)'
           /\ op = "opinions" \/ OpinionsDoubted(s, d)',
         op = "remove" => catalog'.dirty /\ opinions'.dirty
  PROVE  ModeratorKept'
<1>1. PICK t : t = stack'
  OBVIOUS
<1>2. /\ Pushed(s, e, t) /\ Len(s) \in Nat
      /\ \A w \in ToSet(wire') : w \in ToSet(wire) \/ (w.do = do /\ w.arg = arg)
  <2>1. Len(s) \in Nat
    BY SeqShape DEF Fits, Stacked
  <2> QED
    BY <1>1, <2>1, SendFits DEF Pushed
<1>3. e.op = op /\ e.do = do /\ e.arg = arg /\ e.got = None /\ e.old = old
  BY EntryIs
<1>4. StackTrue(t) /\ RemovalsNoted(t)
  BY <1>2, <1>3, TruePushed
<1>5. ListsKept(t)'
  <2>1. Removing(e) => catalog'.dirty /\ opinions'.dirty
    BY <1>3 DEF Removing
  <2> QED
    BY <1>2, <1>3, <2>1, KeptPushed
<1>6. StackTrue(stack)' /\ RemovalsNoted(stack)' /\ ListsKept(stack)'
  BY <1>1, <1>4, <1>5, KeptNow
<1>7. InTurn(wire, stack)'
  BY TurnSent DEF InTurn
<1>8. Ordered'
  BY <1>2 DEF Ordered
<1> QED
  BY <1>6, <1>7, <1>8 DEF ModeratorKept

\* What is true of the entries is true of those below the innermost.
LEMMA ModeratorTop ==
  ASSUME WaitsInv, ModeratorKept, stack # <<>>, Innermost.got # None
  PROVE  /\ Wired(wire) /\ Fits(Under) /\ InTurn(wire, Under) /\ StackTrue(Under)
         /\ RemovalsNoted(Under) /\ Len(stack) \in Nat \ {0} /\ Len(Under) = Len(stack) - 1
         /\ Innermost = stack[Len(stack)]
         /\ \A i \in 1 .. Len(Under) : Under[i] = stack[i]
         /\ ModeratorEntry(Innermost) /\ ReplyTrue(Innermost)
         /\ Reviewing(Innermost) => \/ Innermost.old
                                    \/ \E j \in 1 .. Len(Under) : Unsettled(Under[j])
                                    \/ SoFar(Innermost.arg)
         /\ \A d \in 1 .. Len(Under) : Removing(Under[d]) =>
              ~ Worked /\ (Reviewing(Innermost) => Innermost.old)
<1>1. PICK u : u = Under
  OBVIOUS
<1>2. /\ Fits(u) /\ Len(stack) \in Nat \ {0} /\ Len(u) = Len(stack) - 1
      /\ Innermost = stack[Len(stack)]
      /\ \A i \in 1 .. Len(stack) - 1 : u[i] = stack[i]
  BY <1>1, UnderFits
<1>3. PICK n \in Nat : n = Len(u)
  BY <1>2
<1>4. /\ Len(stack) = n + 1 /\ n + 1 \in 1 .. Len(stack) /\ Innermost = stack[n + 1]
      /\ \A i \in 1 .. n : u[i] = stack[i] /\ i \in 1 .. Len(stack) /\ i < n + 1
      /\ \A i \in 1 .. n : 1 .. i - 1 \subseteq 1 .. n
  BY <1>2, <1>3
<1>5. InTurn(wire, u) /\ Wired(wire)
  BY <1>1, TurnUnder DEF ModeratorKept, WaitsInv
<1>6. StackTrue(u)
  <2>1. ASSUME NEW k \in 1 .. n
        PROVE  ModeratorEntry(u[k]) /\ ReplyTrue(u[k]) /\ CollectedTrue(u, k)
    <3>1. u[k] = stack[k] /\ \A j \in 1 .. k - 1 : u[j] = stack[j]
      BY <1>4
    <3> QED
      BY <1>4, <3>1 DEF ModeratorKept, StackTrue, CollectedTrue
  <2> QED
    BY <1>3, <2>1 DEF StackTrue
<1>7. RemovalsNoted(u)
  BY <1>3, <1>4 DEF ModeratorKept, RemovalsNoted
<1>8. /\ ModeratorEntry(Innermost) /\ ReplyTrue(Innermost) /\ CollectedTrue(stack, n + 1)
  BY <1>4 DEF ModeratorKept, StackTrue
<1>9. Reviewing(Innermost) => \/ Innermost.old
                              \/ \E j \in 1 .. n : Unsettled(u[j])
                              \/ SoFar(Innermost.arg)
  <2>1. (n + 1) - 1 = n
    OBVIOUS
  <2> QED
    BY <1>4, <1>8, <2>1 DEF CollectedTrue
<1>10. ASSUME NEW d \in 1 .. n, Removing(u[d])
       PROVE  ~ Worked /\ (Reviewing(Innermost) => Innermost.old)
  <2>1. d < n + 1 /\ Removing(stack[d]) /\ d \in 1 .. Len(stack)
    BY <1>4, <1>10
  <2>2. DOMAIN stack = 1 .. Len(stack)
    BY SeqShape DEF WaitsInv, Fits, Stacked
  <2> QED
    BY <1>4, <2>1, <2>2 DEF ModeratorKept, InTurn, RemovalsNoted, Removing, Worked
<1> QED
  BY <1>1, <1>2, <1>3, <1>4, <1>5, <1>6, <1>7, <1>8, <1>9, <1>10

LEMMA ModeratorEnds ==
  ASSUME WaitsInv, ModeratorKept, stack # <<>>, Innermost.got # None, NEW signals, Ends(signals),
         UNCHANGED accounts, ListTypes', PerBookKept', NEW u, u = Under, ListsKept(u)'
  PROVE  ModeratorKept'
<1>1. u = stack' /\ wire' = wire
  BY DEF Ends
<1>2. StackTrue(u) /\ RemovalsNoted(u) /\ InTurn(wire, u)
  BY ModeratorTop
<1>3. StackTrue(stack)' /\ RemovalsNoted(stack)' /\ ListsKept(stack)'
  BY <1>1, <1>2, KeptNow
<1>4. InTurn(wire, stack)' /\ Ordered'
  BY <1>1, <1>2 DEF InTurn, ModeratorKept, Ordered
<1> QED
  BY <1>3, <1>4 DEF ModeratorKept

\* A list the innermost entry had nothing to do with may be off as before.
LEMMA BelowKept ==
  ASSUME WaitsInv, ModeratorKept, stack # <<>>, Innermost.got # None, NEW u, u = Under,
         UNCHANGED accounts
  PROVE  /\ Innermost.op \notin {"users", "change"} /\ UNCHANGED people
            /\ ("users" \in moved => "users" \in moved') => UsersKept(u)'
         /\ Innermost.do # "books" /\ ~ Unsettled(Innermost) /\ UNCHANGED catalog
            /\ ("books" \in moved => "books" \in moved') => CatalogKept(u)'
         /\ Innermost.op # "opinions" /\ ~ Unsettled(Innermost) /\ UNCHANGED opinions
            /\ ("opinions" \in moved => "opinions" \in moved') => OpinionsKept(u)'
         /\ \A d \in 1 .. Len(u) : Removing(u[d]) =>
              /\ (Innermost.do # "books" /\ UNCHANGED catalog.dirty) \/ catalog'.dirty
                 => CatalogDoubted(u, d)'
              /\ Innermost.op # "opinions" /\ UNCHANGED opinions
                 /\ ("opinions" \in moved => "opinions" \in moved') => OpinionsDoubted(u, d)'
<1>1. PICK n \in Nat : n = Len(u) /\ Len(stack) = n + 1
  BY ModeratorTop
<1>2. /\ Innermost = stack[n + 1]
      /\ \A i \in 1 .. n : u[i] = stack[i] /\ i \in 1 .. n + 1
      /\ \A i \in 1 .. n + 1 : i \in 1 .. n \/ i = n + 1
  BY <1>1, ModeratorTop
<1>3. on' = on /\ status' = status /\ reviewed' = reviewed
  BY DEF accounts
<1>4. Innermost.op \notin {"users", "change"} /\ UNCHANGED people
      /\ ("users" \in moved => "users" \in moved') => UsersKept(u)'
  BY <1>1, <1>2, <1>3 DEF ModeratorKept, ListsKept, UsersKept, UsersAgree
<1>5. Innermost.do # "books" /\ ~ Unsettled(Innermost) /\ UNCHANGED catalog
      /\ ("books" \in moved => "books" \in moved') => CatalogKept(u)'
  BY <1>1, <1>2, <1>3 DEF ModeratorKept, ListsKept, CatalogKept, BooksAgree
<1>6. Innermost.op # "opinions" /\ ~ Unsettled(Innermost) /\ UNCHANGED opinions
      /\ ("opinions" \in moved => "opinions" \in moved') => OpinionsKept(u)'
  BY <1>1, <1>2, <1>3 DEF ModeratorKept, ListsKept, OpinionsKept, OpinionsAgree
<1>7. ASSUME NEW d \in 1 .. n, Removing(u[d])
      PROVE  /\ (Innermost.do # "books" /\ UNCHANGED catalog.dirty) \/ catalog'.dirty
                => CatalogDoubted(u, d)'
             /\ Innermost.op # "opinions" /\ UNCHANGED opinions
                /\ ("opinions" \in moved => "opinions" \in moved') => OpinionsDoubted(u, d)'
  <2>1. CatalogDoubted(stack, d) /\ OpinionsDoubted(stack, d)
    BY <1>1, <1>2, <1>7 DEF ModeratorKept, ListsKept, Doubted
  <2> QED
    BY <1>1, <1>2, <2>1 DEF CatalogDoubted, OpinionsDoubted
<1> QED
  BY <1>1, <1>4, <1>5, <1>6, <1>7

-----------------------------------------------------------------------------
(* Moderation: the client's steps.                                          *)

\* What an entry may have asked for.
Asks(op, do, arg) ==
  \/ op = "users" /\ do = "users" /\ arg.then \in Asking \cup {""}
  \/ op = "change" /\ do \in Asking
  \/ op \in {"books", "remove", "moderate", "edit"} /\ do = op
  \/ op \in {"reviews", "details"} /\ do = "reviews" /\ arg.book \in Books
  \/ op = "opinions" /\ do = "books"
  \/ op = "opinions" /\ do = "reviews" /\ arg.book \in Books /\ arg.left \in Seq(Books)

LEMMA AskedEntry ==
  ASSUME NEW op, NEW do, NEW arg, NEW old \in BOOLEAN, Asks(op, do, arg),
         NEW e, e = Entry(op, do, arg, old)
  PROVE  ModeratorEntry(e) /\ (Reviewing(e) <=> op = "opinions" /\ do = "reviews")
<1>1. e.op = op /\ e.do = do /\ e.arg = arg /\ e.old = old
  BY EntryIs
<1>2. e.old \in BOOLEAN
  BY <1>1, Zenon
<1>3. Reviewing(e) <=> op = "opinions" /\ do = "reviews"
  BY <1>1 DEF Reviewing
<1>4. Asks(e.op, e.do, e.arg)
  BY <1>1, Zenon
<1> HIDE <1>1
<1> QED
  BY <1>2, <1>3, <1>4 DEF ModeratorEntry, Asks, Reviewing

LEMMA ModeratorAsks ==
  ASSUME WaitsInv, ModeratorKept, NEW op, NEW do, NEW arg, SendOn(stack, op, do, arg, FALSE),
         UNCHANGED accounts, UNCHANGED moved,
         NEW e, e = Entry(op, do, arg, FALSE), ModeratorEntry(e),
         ~ Reviewing(e), do = "moderate" => arg.book \in Books, ListTypes', PerBookKept',
         op \in {"users", "change"} \/ UNCHANGED people,
         do = "books" \/ catalog' = catalog \/ catalog'.dirty,
         op = "opinions" \/ opinions' = opinions \/ opinions'.dirty,
         op = "remove" => catalog'.dirty /\ opinions'.dirty
  PROVE  ModeratorKept'
<1>1. PICK s : s = stack
  OBVIOUS
<1>2. /\ Wired(wire) /\ Fits(s) /\ Ordered /\ InTurn(wire, s) /\ StackTrue(s)
      /\ RemovalsNoted(s) /\ ListsKept(s)
  BY <1>1 DEF WaitsInv, ModeratorKept
<1>3. on' = on /\ status' = status /\ reviewed' = reviewed /\ moved' = moved
  BY DEF accounts
<1>4. op \in {"users", "change"} \/ UsersKept(s)'
  BY <1>2, <1>3 DEF ListsKept, UsersKept, UsersAgree
<1>5. do = "books" \/ CatalogKept(s)'
  BY <1>2, <1>3 DEF ListsKept, CatalogKept, BooksAgree
<1>6. op = "opinions" \/ OpinionsKept(s)'
  BY <1>2, <1>3 DEF ListsKept, OpinionsKept, OpinionsAgree
<1>7. \A d \in 1 .. Len(s) : Removing(s[d]) =>
        /\ do = "books" \/ CatalogDoubted(s, d)'
        /\ op = "opinions" \/ OpinionsDoubted(s, d)'
  BY <1>2, <1>3 DEF ListsKept, Doubted, CatalogDoubted, OpinionsDoubted
<1> HIDE DEF ModeratorKept
<1> QED
  BY <1>1, <1>2, <1>4, <1>5, <1>6, <1>7, ModeratorSent

LEMMA AskUsersStep ==
  ASSUME WaitsInv, ModeratorKept, NEW then \in Asking \cup {""}, AskUsers(then)
  PROVE  ModeratorKept'
<1>1. /\ SendOn(stack, "users", "users", [then |-> then], FALSE)
      /\ people' = [people EXCEPT !.dirty = FALSE]
      /\ UNCHANGED <<accounts, catalog, perBook, opinions, moved>>
  BY DEF AskUsers, Send
<1> DEFINE a == [then |-> then]
<1>6. a.then = then
  OBVIOUS
<1> HIDE DEF a
<1>2. PICK e : e = Entry("users", "users", a, FALSE)
  OBVIOUS
<1>3. ModeratorEntry(e) /\ ~ Reviewing(e)
  BY <1>2, <1>6, AskedEntry DEF Asks
<1>4. ListTypes'
  BY <1>1 DEF ModeratorKept, ListTypes, accounts
<1>5. PerBookKept'
  BY <1>1 DEF ModeratorKept, PerBookKept, accounts
<1>7. SendOn(stack, "users", "users", a, FALSE)
  BY <1>1 DEF a
<1> QED
  BY <1>1, <1>2, <1>3, <1>4, <1>5, <1>7, ModeratorAsks

LEMMA ChangeUserStep ==
  ASSUME WaitsInv, ModeratorKept, NEW do \in Asking, ChangeUser(do)
  PROVE  ModeratorKept'
<1>1. CASE AskUsers(do)
  BY <1>1, AskUsersStep
<1>2. CASE SendOn(stack, "change", do, <<>>, FALSE) /\ UNCHANGED moderatorVars
  <2>5. PICK a : a = <<>>
    OBVIOUS
  <2>1. PICK e : e = Entry("change", do, a, FALSE)
    OBVIOUS
  <2>2. ModeratorEntry(e) /\ ~ Reviewing(e)
    <3>1. Asks("change", do, a)
      BY DEF Asks
    <3>2. PICK op, no : op = "change" /\ no = FALSE
      OBVIOUS
    <3>3. no \in BOOLEAN /\ Asks(op, do, a) /\ e = Entry(op, do, a, no)
      BY <2>1, <3>1, <3>2
    <3>4. ModeratorEntry(e) /\ (Reviewing(e) <=> op = "opinions" /\ do = "reviews")
      BY <3>3, AskedEntry
    <3> QED
      BY <3>2, <3>4
  <2>3. ListTypes' /\ PerBookKept' /\ UNCHANGED <<accounts, people, catalog, opinions, moved>>
    BY <1>2 DEF ModeratorKept, ListTypes, PerBookKept, moderatorVars, accounts, lists
  <2>4. do # "moderate" /\ SendOn(stack, "change", do, a, FALSE)
    BY <1>2, <2>5 DEF Asking
  <2>6. UNCHANGED accounts /\ UNCHANGED moved /\ catalog' = catalog /\ opinions' = opinions
    BY <2>3
  <2>7. PICK op : op = "change"
    OBVIOUS
  <2>8. /\ SendOn(stack, op, do, a, FALSE) /\ e = Entry(op, do, a, FALSE)
        /\ op \in {"users", "change"} /\ op # "remove"
    BY <2>1, <2>4, <2>7
  <2> QED
    BY <2>2, <2>3, <2>4, <2>6, <2>8, ModeratorAsks
<1> QED
  BY <1>1, <1>2 DEF ChangeUser, Send

LEMMA ReadBooksStep == ASSUME WaitsInv, ModeratorKept, ReadBooks PROVE ModeratorKept'
<1>1. /\ SendOn(stack, "books", "books", <<>>, FALSE)
      /\ catalog' = [catalog EXCEPT !.dirty = FALSE]
      /\ UNCHANGED <<accounts, people, perBook, opinions, moved>>
  BY DEF ReadBooks, Send
<1>6. PICK a : a = <<>>
  OBVIOUS
<1>2. PICK e : e = Entry("books", "books", a, FALSE)
  OBVIOUS
<1>3. ModeratorEntry(e) /\ ~ Reviewing(e)
  BY <1>2, AskedEntry DEF Asks
<1>4. ListTypes'
  BY <1>1 DEF ModeratorKept, ListTypes, accounts
<1>5. PerBookKept'
  BY <1>1 DEF ModeratorKept, PerBookKept, accounts
<1>7. SendOn(stack, "books", "books", a, FALSE)
  BY <1>1, <1>6
<1>8. UNCHANGED accounts /\ UNCHANGED moved /\ UNCHANGED people /\ opinions' = opinions
  BY <1>1
<1>9. PICK op : op = "books"
  OBVIOUS
<1>10. /\ SendOn(stack, op, op, a, FALSE) /\ e = Entry(op, op, a, FALSE)
       /\ op # "moderate" /\ op # "remove" /\ op = "books"
  BY <1>2, <1>7, <1>9
<1> QED
  BY <1>3, <1>4, <1>5, <1>8, <1>10, ModeratorAsks

\* What is forgotten cannot be off.
LEMMA Forgotten ==
  ASSUME ModeratorKept, Forget, UNCHANGED accounts,
         people' = people \/ people' = [people EXCEPT !.dirty = TRUE]
  PROVE  ListTypes' /\ PerBookKept' /\ catalog'.dirty /\ opinions'.dirty
<1>1. /\ people = [list |-> people.list, dirty |-> people.dirty]
      /\ catalog = [list |-> catalog.list, dirty |-> catalog.dirty]
      /\ opinions = [list |-> opinions.list, dirty |-> opinions.dirty]
      /\ catalog.list \subseteq Books /\ on' \subseteq Books
  BY DEF ModeratorKept, ListTypes, accounts
<1>2. /\ catalog' = [list |-> catalog.list, dirty |-> TRUE]
      /\ opinions' = [list |-> opinions.list, dirty |-> TRUE]
      /\ perBook' = [b \in Books |-> NotKept]
  BY <1>1, Zenon DEF Forget
<1>3. people' = [list |-> people'.list, dirty |-> people'.dirty]
  BY <1>1
<1>4. catalog'.dirty = TRUE /\ catalog'.list = catalog.list /\ opinions'.dirty = TRUE
  BY <1>2
<1>5. ListTypes'
  BY <1>1, <1>2, <1>3, <1>4 DEF ListTypes
<1>6. PerBookKept'
  BY <1>2 DEF PerBookKept
<1> QED
  BY <1>4, <1>5, <1>6

LEMMA BookCommandStep ==
  ASSUME WaitsInv, ModeratorKept, NEW b \in Books,
         DeleteBook(b) \/ UpdateBookInfo(b) \/ \E active \in BOOLEAN : SetBookStatus(b, active)
  PROVE  ModeratorKept'
<1>1. CASE DeleteBook(b)
  <2>1. SendOn(stack, "remove", "remove", [book |-> b], FALSE) /\ Forget
        /\ UNCHANGED <<accounts, people, moved>>
    BY <1>1 DEF DeleteBook, Send
  <2>2. PICK e : e = Entry("remove", "remove", [book |-> b], FALSE)
    OBVIOUS
  <2>3. ModeratorEntry(e) /\ ~ Reviewing(e)
    BY <2>2, AskedEntry DEF Asks
  <2>4. ListTypes' /\ PerBookKept' /\ catalog'.dirty /\ opinions'.dirty
    BY <2>1, Forgotten
  <2> QED
    BY <2>1, <2>2, <2>3, <2>4, ModeratorAsks
<1>2. ASSUME NEW op \in {"edit", "moderate"}, NEW arg, arg.book = b,
             SendOn(stack, op, op, arg, FALSE), UNCHANGED moderatorVars
      PROVE  ModeratorKept'
  <2>1. PICK e : e = Entry(op, op, arg, FALSE)
    OBVIOUS
  <2>2. ModeratorEntry(e) /\ ~ Reviewing(e)
    BY <2>1, AskedEntry DEF Asks
  <2>3. ListTypes' /\ PerBookKept' /\ UNCHANGED <<accounts, people, catalog, opinions, moved>>
    BY <1>2 DEF ModeratorKept, ListTypes, PerBookKept, moderatorVars, accounts, lists
  <2> QED
    BY <1>2, <2>1, <2>2, <2>3, ModeratorAsks
<1>3. CASE UpdateBookInfo(b)
  <2>1. PICK a : a = [book |-> b]
    OBVIOUS
  <2>2. a.book = b /\ SendOn(stack, "edit", "edit", a, FALSE) /\ UNCHANGED moderatorVars
    BY <1>3, <2>1 DEF UpdateBookInfo, Send
  <2> QED
    BY <1>2, <2>2
<1>4. ASSUME NEW active \in BOOLEAN, SetBookStatus(b, active) PROVE ModeratorKept'
  <2>1. PICK a : a = [book |-> b, active |-> active]
    OBVIOUS
  <2>2. a.book = b /\ SendOn(stack, "moderate", "moderate", a, FALSE) /\ UNCHANGED moderatorVars
    BY <1>4, <2>1 DEF SetBookStatus, Send
  <2> QED
    BY <1>2, <2>2
<1> QED
  BY <1>1, <1>3, <1>4

LEMMA ShowBookStep ==
  ASSUME WaitsInv, ModeratorKept, NEW b \in Books, NEW op \in {"reviews", "details"},
         ShowBook(op, b)
  PROVE  ModeratorKept'
<1>5. PICK a : a = [book |-> b]
  OBVIOUS
<1>1. SendOn(stack, op, "reviews", a, FALSE) /\ UNCHANGED moderatorVars /\ a.book = b
  BY <1>5 DEF ShowBook, Send
<1>2. PICK e : e = Entry(op, "reviews", a, FALSE)
  OBVIOUS
<1>3. ModeratorEntry(e) /\ ~ Reviewing(e)
  BY <1>1, <1>2, AskedEntry DEF Asks
<1>4. ListTypes' /\ PerBookKept' /\ UNCHANGED <<accounts, people, catalog, opinions, moved>>
  BY <1>1 DEF ModeratorKept, ListTypes, PerBookKept, moderatorVars, accounts, lists
<1> QED
  BY <1>1, <1>2, <1>3, <1>4, ModeratorAsks

-----------------------------------------------------------------------------
LEMMA UsersReturnStep == ASSUME WaitsInv, ModeratorKept, UsersReturn PROVE ModeratorKept'
<1>1. /\ stack # <<>> /\ Innermost.got # None /\ Innermost.op = "users"
      /\ UNCHANGED <<accounts, catalog, perBook, opinions>>
  BY DEF UsersReturn, Returned
<1>2. PICK u : u = Under
  OBVIOUS
<1>3. /\ Wired(wire) /\ Fits(u) /\ InTurn(wire, u) /\ StackTrue(u) /\ RemovalsNoted(u)
      /\ ModeratorEntry(Innermost) /\ ReplyTrue(Innermost) /\ Ordered
  BY <1>1, <1>2, ModeratorTop DEF ModeratorKept
<1>4. /\ Innermost.do = "users" /\ Innermost.arg.then \in Asking \cup {""}
      /\ Innermost.old \in BOOLEAN
  BY <1>1, <1>3 DEF ModeratorEntry, Reviewing
<1>5. \A m : m # "users" => (m \in moved <=> m \in moved')
  BY DEF UsersReturn, Stored
<1>6. UsersAgree'
  <2>1. CASE Worked
    <3>1. /\ people' = [people EXCEPT !.list = Got]
          /\ Stored("users", Innermost.old)
      BY <2>1 DEF UsersReturn
    <3>2. people'.list = Got
      BY <3>1 DEF ModeratorKept, ListTypes
    <3>3. Innermost.old \/ Got = status'
      BY <1>1, <1>3, <1>4, <2>1 DEF ReplyTrue, Worked, Got, accounts
    <3>4. Innermost.old => "users" \in moved'
      BY <3>1 DEF Stored
    <3> QED
      BY <3>2, <3>3, <3>4 DEF UsersAgree
  <2>2. CASE ~ Worked
    <3>1. people' = [people EXCEPT !.dirty = TRUE]
      BY <2>2 DEF UsersReturn
    <3>2. people'.dirty
      BY <3>1 DEF ModeratorKept, ListTypes
    <3> QED
      BY <3>2 DEF UsersAgree
  <2> QED
    BY <2>1, <2>2
<1>7. ListTypes'
  BY <1>1 DEF UsersReturn, ModeratorKept, ListTypes, accounts
<1>8. "users" \notin Books
  BY ModeratorAssumption
<1>9. PerBookKept'
  BY <1>1, <1>5, <1>8 DEF ModeratorKept, PerBookKept, accounts
<1>10. /\ UsersKept(u)' /\ CatalogKept(u)' /\ OpinionsKept(u)'
       /\ \A d \in 1 .. Len(u) : Removing(u[d]) => CatalogDoubted(u, d)' /\ OpinionsDoubted(u, d)'
  <2>1. UsersKept(u)'
    BY <1>6 DEF UsersKept
  <2>2. ~ Unsettled(Innermost) /\ UNCHANGED <<catalog, opinions>>
    BY <1>1 DEF Unsettled
  <2> QED
    BY <1>1, <1>2, <1>4, <1>5, <2>1, <2>2, BelowKept
<1>11. CASE Ends(FALSE)
  <2>1. ListsKept(u)'
    BY <1>10 DEF ListsKept, Doubted
  <2> QED
    BY <1>1, <1>2, <1>7, <1>9, <1>11, <2>1, ModeratorEnds
<1>12. CASE Innermost.arg.then # "" /\ SendNext("change", Innermost.arg.then, <<>>, FALSE)
  <2>1. PICK do \in Asking : do = Innermost.arg.then
    BY <1>4, <1>12
  <2>6. PICK a : a = <<>>
    OBVIOUS
  <2>2. SendOn(u, "change", do, a, FALSE)
    BY <1>2, <1>12, <2>1, <2>6 DEF SendNext
  <2>3. PICK e : e = Entry("change", do, a, FALSE)
    OBVIOUS
  <2>4. ModeratorEntry(e) /\ ~ Reviewing(e)
    <3>1. Asks("change", do, a)
      BY DEF Asks
    <3>2. PICK op, no : op = "change" /\ no = FALSE
      OBVIOUS
    <3>3. no \in BOOLEAN /\ Asks(op, do, a) /\ e = Entry(op, do, a, no)
      BY <2>3, <3>1, <3>2
    <3>4. ModeratorEntry(e) /\ (Reviewing(e) <=> op = "opinions" /\ do = "reviews")
      BY <3>3, AskedEntry
    <3> QED
      BY <3>2, <3>4
  <2>5. do # "moderate" /\ UNCHANGED accounts
    BY <1>1 DEF Asking
  <2>7. PICK op : op = "change"
    OBVIOUS
  <2>8. /\ SendOn(u, op, do, a, FALSE) /\ e = Entry(op, do, a, FALSE)
        /\ op \in {"users", "change"} /\ op # "remove"
    BY <2>2, <2>3, <2>7
  <2> QED
    BY <1>3, <1>7, <1>9, <1>10, <2>4, <2>5, <2>8, ModeratorSent
<1> QED
  BY <1>11, <1>12 DEF UsersReturn

LEMMA ChangeReturnsStep == ASSUME WaitsInv, ModeratorKept, ChangeReturns PROVE ModeratorKept'
<1>1. /\ stack # <<>> /\ Innermost.got # None /\ Innermost.op = "change"
      /\ people' = [people EXCEPT !.list = Blank] /\ Ends(TRUE)
      /\ UNCHANGED <<accounts, catalog, perBook, opinions, moved>>
  BY DEF ChangeReturns, Returned
<1>2. PICK u : u = Under
  OBVIOUS
<1>3. ModeratorEntry(Innermost)
  BY <1>1, ModeratorTop
<1>4. Innermost.do # "books" /\ ~ Unsettled(Innermost)
  BY <1>1, <1>3 DEF ModeratorEntry, Reviewing, Asking, Unsettled
<1>5. ListTypes'
  BY <1>1 DEF ModeratorKept, ListTypes, accounts
<1>6. PerBookKept'
  BY <1>1 DEF ModeratorKept, PerBookKept, accounts
<1>7. UsersAgree'
  BY <1>1 DEF ModeratorKept, ListTypes, UsersAgree
<1>8. ListsKept(u)'
  BY <1>1, <1>2, <1>4, <1>7, BelowKept DEF ListsKept, Doubted, UsersKept
<1> QED
  BY <1>1, <1>2, <1>5, <1>6, <1>8, ModeratorEnds

LEMMA BooksReturnStep == ASSUME WaitsInv, ModeratorKept, BooksReturn PROVE ModeratorKept'
<1>1. /\ stack # <<>> /\ Innermost.got # None /\ Innermost.op = "books" /\ Ends(FALSE)
      /\ BooksKept /\ UNCHANGED <<accounts, people, perBook, opinions>>
  BY DEF BooksReturn, Returned
<1>2. PICK u : u = Under
  OBVIOUS
<1>3. ModeratorEntry(Innermost) /\ ReplyTrue(Innermost)
  BY <1>1, ModeratorTop
<1>4. Innermost.do = "books" /\ ~ Unsettled(Innermost)
  BY <1>1, <1>3 DEF ModeratorEntry, Reviewing, Unsettled
<1>5. \A m : m # "books" => (m \in moved <=> m \in moved')
  BY <1>1 DEF BooksKept, Stored
<1>6. /\ ListTypes' /\ BooksAgree' /\ (Worked \/ catalog'.dirty)
  <2>1. CASE Worked
    <3>1. /\ catalog' = [catalog EXCEPT !.list = Got]
          /\ Stored("books", Innermost.old)
      BY <1>1, <2>1 DEF BooksKept
    <3>2. Got \subseteq Books /\ (Innermost.old \/ Got = on)
      BY <1>3, <1>4, <2>1 DEF ReplyTrue, Worked, Got
    <3>3. /\ catalog'.list = Got /\ catalog'.dirty = catalog.dirty
          /\ catalog' = [list |-> Got, dirty |-> catalog.dirty]
      BY <3>1 DEF ModeratorKept, ListTypes
    <3>4. Innermost.old => "books" \in moved'
      BY <3>1 DEF Stored
    <3>5. BooksAgree'
      BY <1>1, <3>2, <3>3, <3>4 DEF BooksAgree, accounts
    <3>6. ListTypes'
      BY <1>1, <3>2, <3>3 DEF ModeratorKept, ListTypes, accounts
    <3> QED
      BY <2>1, <3>5, <3>6
  <2>2. CASE ~ Worked
    <3>1. catalog' = [list |-> {}, dirty |-> TRUE]
      BY <1>1, <2>2 DEF BooksKept
    <3>2. catalog'.dirty = TRUE /\ catalog'.list = {}
      BY <3>1
    <3>3. BooksAgree'
      BY <3>2 DEF BooksAgree
    <3>4. ListTypes'
      BY <1>1, <3>1, <3>2 DEF ModeratorKept, ListTypes, accounts
    <3> QED
      BY <3>2, <3>3, <3>4
  <2> QED
    BY <2>1, <2>2
<1>7. PerBookKept'
  <2>1. "books" \notin Books
    BY ModeratorAssumption
  <2> QED
    BY <1>1, <1>5, <2>1 DEF ModeratorKept, PerBookKept, accounts
<1>8. ListsKept(u)'
  <2>1. CatalogKept(u)'
    BY <1>6 DEF CatalogKept
  <2>2. UsersKept(u)' /\ OpinionsKept(u)'
    BY <1>1, <1>2, <1>4, <1>5, BelowKept
  <2>3. ASSUME NEW d \in 1 .. Len(u), Removing(u[d])
        PROVE  CatalogDoubted(u, d)' /\ OpinionsDoubted(u, d)'
    <3>1. catalog'.dirty
      BY <1>1, <1>2, <1>6, <2>3, ModeratorTop
    <3> QED
      BY <1>1, <1>2, <1>4, <1>5, <2>3, <3>1, BelowKept
  <2> QED
    BY <2>1, <2>2, <2>3 DEF ListsKept, Doubted
<1> QED
  BY <1>1, <1>2, <1>6, <1>7, <1>8, ModeratorEnds

LEMMA RemoveReturnsStep == ASSUME WaitsInv, ModeratorKept, RemoveReturns PROVE ModeratorKept'
<1>1. /\ stack # <<>> /\ Innermost.got # None /\ Innermost.op = "remove" /\ Ends(Worked)
      /\ UNCHANGED moderatorVars
  BY DEF RemoveReturns, Returned
<1>2. PICK u : u = Under
  OBVIOUS
<1>3. ModeratorEntry(Innermost)
  BY <1>1, ModeratorTop
<1>4. Innermost.do # "books" /\ ~ Unsettled(Innermost)
  BY <1>1, <1>3 DEF ModeratorEntry, Reviewing, Unsettled
<1>5. ListTypes' /\ PerBookKept' /\ UNCHANGED <<accounts, people, catalog, opinions, moved>>
  BY <1>1 DEF ModeratorKept, ListTypes, PerBookKept, moderatorVars, accounts, lists
<1>6. ListsKept(u)'
  BY <1>1, <1>2, <1>4, <1>5, BelowKept DEF ListsKept, Doubted
<1> QED
  BY <1>1, <1>2, <1>5, <1>6, ModeratorEnds

LEMMA ModerateReturnsStep == ASSUME WaitsInv, ModeratorKept, ModerateReturns PROVE ModeratorKept'
<1>1. /\ stack # <<>> /\ Innermost.got # None /\ Innermost.op = "moderate" /\ Ends(Worked)
      /\ IF Worked THEN Forget ELSE UNCHANGED <<catalog, opinions, perBook>>
      /\ UNCHANGED <<accounts, people, moved>>
  BY DEF ModerateReturns, Returned
<1>2. PICK u : u = Under
  OBVIOUS
<1>3. ModeratorEntry(Innermost)
  BY <1>1, ModeratorTop
<1>4. Innermost.do # "books"
  BY <1>1, <1>3 DEF ModeratorEntry, Reviewing
<1>5. UsersKept(u)'
  BY <1>1, <1>2, BelowKept
<1>6. CASE Worked
  <2>1. ListTypes' /\ PerBookKept' /\ catalog'.dirty /\ opinions'.dirty
    BY <1>1, <1>6, Forgotten
  <2>2. ListsKept(u)'
    BY <1>5, <2>1 DEF ListsKept, Doubted, CatalogKept, BooksAgree, OpinionsKept, OpinionsAgree,
       CatalogDoubted, OpinionsDoubted
  <2> QED
    BY <1>1, <1>2, <2>1, <2>2, ModeratorEnds
<1>7. CASE ~ Worked
  <2>1. ListTypes' /\ PerBookKept' /\ UNCHANGED <<catalog, opinions, moved>>
    BY <1>1, <1>7 DEF ModeratorKept, ListTypes, PerBookKept, accounts
  <2>2. ~ Unsettled(Innermost)
    BY <1>7 DEF Unsettled, Worked
  <2>3. ListsKept(u)'
    BY <1>1, <1>2, <1>4, <1>5, <2>1, <2>2, BelowKept DEF ListsKept, Doubted
  <2> QED
    BY <1>1, <1>2, <2>1, <2>3, ModeratorEnds
<1> QED
  BY <1>6, <1>7

LEMMA EditReturnsStep == ASSUME WaitsInv, ModeratorKept, EditReturns PROVE ModeratorKept'
<1>1. /\ stack # <<>> /\ Innermost.got # None /\ Innermost.op = "edit" /\ Ends(Worked)
      /\ UNCHANGED <<accounts, people, perBook, opinions, moved>>
  BY DEF EditReturns, Returned
<1>2. PICK u : u = Under
  OBVIOUS
<1>3. ModeratorEntry(Innermost)
  BY <1>1, ModeratorTop
<1>4. Innermost.do # "books" /\ ~ Unsettled(Innermost)
  BY <1>1, <1>3 DEF ModeratorEntry, Reviewing, Unsettled
<1>5. /\ catalog = [list |-> catalog.list, dirty |-> catalog.dirty]
      /\ catalog.dirty \in BOOLEAN
  BY DEF ModeratorKept, ListTypes
<1>6. PICK b \in BOOLEAN : b = (catalog.dirty \/ Worked)
  OBVIOUS
<1>7. catalog' = [catalog EXCEPT !.dirty = b]
  BY <1>6 DEF EditReturns
<1>8. catalog' = [list |-> catalog.list, dirty |-> b]
  BY <1>5, <1>7, Zenon
<1>9. catalog'.list = catalog.list /\ catalog'.dirty = b
  BY <1>8
<1>10. catalog' = catalog \/ catalog'.dirty
  BY <1>5, <1>6, <1>8, <1>9
<1>11. ListTypes' /\ PerBookKept'
  BY <1>1, <1>8, <1>9 DEF ModeratorKept, ListTypes, PerBookKept, accounts
<1>12. ListsKept(u)'
  <2>1. CatalogKept(u)'
    <3>1. CASE catalog' = catalog
      BY <1>1, <1>2, <1>4, <3>1, BelowKept
    <3>2. CASE catalog'.dirty
      BY <3>2 DEF CatalogKept, BooksAgree
    <3> QED
      BY <1>10, <3>1, <3>2
  <2>2. catalog'.dirty \/ UNCHANGED catalog.dirty
    BY <1>10
  <2> QED
    BY <1>1, <1>2, <1>4, <2>1, <2>2, BelowKept DEF ListsKept, Doubted
<1> QED
  BY <1>1, <1>2, <1>11, <1>12, ModeratorEnds

LEMMA ShowReturnsStep ==
  ASSUME WaitsInv, ModeratorKept, NEW op \in {"reviews", "details"}, ShowReturns(op)
  PROVE  ModeratorKept'
<1>1. /\ stack # <<>> /\ Innermost.got # None /\ Innermost.op = op /\ Ends(FALSE)
      /\ UNCHANGED <<accounts, people, catalog, opinions>>
  BY DEF ShowReturns, Returned
<1>2. PICK u : u = Under
  OBVIOUS
<1>3. ModeratorEntry(Innermost) /\ ReplyTrue(Innermost)
  BY <1>1, ModeratorTop
<1>4. /\ Innermost.do = "reviews" /\ ~ Unsettled(Innermost) /\ Innermost.arg.book \in Books
      /\ Innermost.op \notin {"users", "change", "opinions"}
  BY <1>1, <1>3 DEF ModeratorEntry, Reviewing, Unsettled
<1>5. PICK b \in Books : b = Innermost.arg.book
  BY <1>4
<1>6. /\ perBook = [c \in Books |-> perBook[c]]
      /\ \A c \in Books : c \in moved \/ perBook[c] \in {NotKept, NoReviews, reviewed}
  BY DEF ModeratorKept, ListTypes, PerBookKept
<1>7. /\ perBook' = [c \in Books |-> perBook'[c]]
      /\ \A c \in Books : c # b => perBook'[c] = perBook[c] /\ (c \in moved <=> c \in moved')
      /\ b \in moved' \/ perBook'[b] \in {NotKept, NoReviews, reviewed}
      /\ \A m : m # b => (m \in moved <=> m \in moved')
  <2>1. CASE Worked
    <3>1. perBook' = [perBook EXCEPT ![b] = Got] /\ Stored(b, Innermost.old)
      BY <1>5, <2>1 DEF ShowReturns
    <3>2. Innermost.old \/ Got = reviewed
      BY <1>3, <1>4, <2>1 DEF ReplyTrue, Worked, Got
    <3> QED
      BY <1>6, <3>1, <3>2 DEF Stored
  <2>2. CASE ~ Worked
    <3>1. /\ perBook' = (IF op = "reviews" THEN [perBook EXCEPT ![b] = NoReviews] ELSE perBook)
          /\ UNCHANGED moved
      BY <1>5, <2>2 DEF ShowReturns
    <3> QED
      BY <1>6, <3>1
  <2> QED
    BY <2>1, <2>2
<1>8. PerBookKept'
  BY <1>1, <1>6, <1>7 DEF PerBookKept, accounts
<1>9. ListTypes'
  BY <1>1, <1>7 DEF ModeratorKept, ListTypes, accounts
<1>10. \A m \in {"users", "books", "opinions"} : m \in moved <=> m \in moved'
  BY <1>7, ModeratorAssumption
<1>11. ListsKept(u)'
  BY <1>1, <1>2, <1>4, <1>10, BelowKept DEF ListsKept, Doubted
<1> QED
  BY <1>1, <1>2, <1>8, <1>9, <1>11, ModeratorEnds

-----------------------------------------------------------------------------
(* Moderation: the reviews of all books are collected.                      *)

\* What is added to a true collection is true, and so is what is left of it.
LEMMA MoreCollected ==
  ASSUME NEW left \in Seq(Books), NEW kept, NEW m, NEW n, n = NextAsked(left, kept),
         \A b \in Books : b \in m \/ kept[b] \in {NotKept, NoReviews, reviewed},
         ToSet(left) \subseteq on, Before(left, n) \cap m = {}
  PROVE  /\ \A r \in Entries(Before(left, n), kept) : Good(r)
         /\ n # 0 => left[n] \in on /\ ToSet(After(left, n)) \subseteq on
<1>1. /\ Before(left, n) \subseteq ToSet(left) /\ ToSet(left) \subseteq Books
      /\ \A b \in Before(left, n) : kept[b] # NotKept
      /\ n # 0 => left[n] \in ToSet(left) /\ ToSet(After(left, n)) \subseteq ToSet(left)
  <2>1. ToSet(left) \subseteq Books
    BY LenProperties DEF ToSet
  <2> QED
    BY <2>1, AskedNext
<1>2. \A b \in Before(left, n) : b \in on /\ b \notin m /\ kept[b] # NotKept
  BY <1>1
<1>3. \A b \in Before(left, n) : b \in m \/ kept[b] \in {NotKept, NoReviews, reviewed}
  BY <1>1
<1>4. \A r \in Entries(Before(left, n), kept) : Good(r)
  BY <1>2, <1>3, EntriesTrue
<1> QED
  BY <1>1, <1>4

LEMMA CollectStep ==
  ASSUME WaitsInv, ModeratorKept, stack # <<>>, Innermost.got # None,
         NEW u, u = Under, NEW left \in Seq(Books), NEW out, NEW old \in BOOLEAN, NEW kept,
         NEW marks, Collect(left, out, old, kept, marks),
         \/ old \/ (\E j \in 1 .. Len(u) : Unsettled(u[j]))
         \/ (\A r \in out : Good(r)) /\ ToSet(left) \subseteq on,
         \A d \in 1 .. Len(u) : Removing(u[d]) => old \/ (left = <<>> /\ out = {}),
         \A b \in Books : b \in marks \/ kept[b] \in {NotKept, NoReviews, reviewed},
         perBook' = kept, UNCHANGED <<accounts, people>>, ListTypes',
         UsersKept(u)', CatalogKept(u)',
         \A d \in 1 .. Len(u) : Removing(u[d]) => CatalogDoubted(u, d)'
  PROVE  ModeratorKept'
<1> DEFINE n == NextAsked(left, kept)
           more == out \cup Entries(Before(left, n), kept)
           stale == old \/ Before(left, n) \cap marks # {}
<1>1. /\ n \in 0 .. Len(left)
      /\ n # 0 => left[n] \in ToSet(left) /\ After(left, n) \in Seq(Books)
      /\ Before(left, n) \subseteq ToSet(left)
  BY AskedNext
<1>2. /\ n = 0 => /\ Ends(FALSE) /\ opinions' = [opinions EXCEPT !.list = more]
                  /\ moved' = IF stale THEN marks \cup {"opinions"} ELSE marks \ {"opinions"}
      /\ n # 0 => /\ SendNext("opinions", "reviews",
                        [book |-> left[n], left |-> After(left, n), out |-> more], stale)
                  /\ moved' = marks /\ UNCHANGED opinions
  BY DEF Collect
<1>3. \/ stale \/ (\E j \in 1 .. Len(u) : Unsettled(u[j]))
      \/ /\ \A r \in more : Good(r)
         /\ n # 0 => left[n] \in on /\ ToSet(After(left, n)) \subseteq on
  BY MoreCollected
<1>4. \A d \in 1 .. Len(u) : Removing(u[d]) => stale \/ (n = 0 /\ more = {})
  <2> SUFFICES ASSUME NEW d \in 1 .. Len(u), Removing(u[d]), left = <<>>, out = {}
               PROVE  n = 0 /\ more = {}
    OBVIOUS
  <2>1. Len(left) = 0 /\ ToSet(left) = {}
    BY EmptySeq DEF ToSet
  <2>2. n = 0 /\ Before(left, n) = {}
    BY <1>1, <2>1
  <2> QED
    BY <2>2 DEF Entries
<1>5. PICK no \in BOOLEAN : no = stale
  OBVIOUS
<1>6. "opinions" \notin Books /\ on' = on /\ reviewed' = reviewed /\ status' = status
  BY ModeratorAssumption DEF accounts
<1>7. ToSet(left) \subseteq Books
  BY LenProperties DEF ToSet
<1> HIDE DEF n, more, stale
<1>8. PerBookKept'
  <2>1. \A b \in Books : b \in marks => b \in moved'
    BY <1>2, <1>6
  <2> QED
    BY <1>6, <2>1 DEF PerBookKept
<1>9. CASE n = 0
  <2>1. /\ opinions' = [opinions EXCEPT !.list = more] /\ Ends(FALSE)
        /\ stale <=> "opinions" \in moved'
    BY <1>2, <1>9
  <2>2. opinions'.list = more
    BY <2>1 DEF ModeratorKept, ListTypes
  <2>3. OpinionsKept(u)'
    BY <1>3, <1>6, <2>1, <2>2 DEF OpinionsKept, OpinionsAgree, Good
  <2>4. \A d \in 1 .. Len(u) : Removing(u[d]) => OpinionsDoubted(u, d)'
    BY <1>4, <2>1, <2>2 DEF OpinionsDoubted
  <2>5. ListsKept(u)'
    BY <2>3, <2>4 DEF ListsKept, Doubted
  <2> QED
    BY <1>8, <2>1, <2>5, ModeratorEnds
<1>10. CASE n # 0
  <2>1. PICK a : a = [book |-> left[n], left |-> After(left, n), out |-> more]
    OBVIOUS
  <2>2. a.book = left[n] /\ a.left = After(left, n) /\ a.out = more
    BY <2>1
  <2>3. PICK op, do : op = "opinions" /\ do = "reviews"
    OBVIOUS
  <2>4. SendOn(u, op, do, a, no)
    BY <1>2, <1>5, <1>10, <2>1, <2>3 DEF SendNext
  <2>5. PICK e : e = Entry(op, do, a, no)
    OBVIOUS
  <2>6. ModeratorEntry(e)
    <3>1. Asks(op, do, a)
      BY <1>1, <1>7, <1>10, <2>2, <2>3 DEF Asks
    <3> QED
      BY <2>5, <3>1, AskedEntry
  <2>7. no \/ (\E j \in 1 .. Len(u) : Unsettled(u[j])) \/ SoFar(a)
    BY <1>3, <1>5, <1>10, <2>2 DEF SoFar
  <2>8. no \/ \A d \in 1 .. Len(u) : ~ Removing(u[d])
    BY <1>4, <1>5, <1>10
  <2>9. /\ Wired(wire) /\ Fits(u) /\ InTurn(wire, u) /\ StackTrue(u) /\ RemovalsNoted(u) /\ Ordered
    BY ModeratorTop DEF ModeratorKept
  <2>10. do # "moderate" /\ op # "remove" /\ op = "opinions" /\ UNCHANGED accounts
    BY <2>3
  <2> QED
    BY <1>8, <2>4, <2>5, <2>6, <2>7, <2>8, <2>9, <2>10, ModeratorSent
<1> QED
  BY <1>9, <1>10

LEMMA OpinionsReturnStep == ASSUME WaitsInv, ModeratorKept, OpinionsReturn PROVE ModeratorKept'
<1>1. /\ stack # <<>> /\ Innermost.got # None /\ Innermost.op = "opinions"
      /\ UNCHANGED <<accounts, people>>
  BY DEF OpinionsReturn, Returned
<1>2. PICK u : u = Under
  OBVIOUS
<1>3. /\ ModeratorEntry(Innermost) /\ ReplyTrue(Innermost)
      /\ \A d \in 1 .. Len(u) : Removing(u[d]) =>
           ~ Worked /\ (Reviewing(Innermost) => Innermost.old)
      /\ Reviewing(Innermost) => \/ Innermost.old
                                 \/ \E j \in 1 .. Len(u) : Unsettled(u[j])
                                 \/ SoFar(Innermost.arg)
  BY <1>1, <1>2, ModeratorTop
<1>4. PICK old \in BOOLEAN : old = Innermost.old
  BY <1>3 DEF ModeratorEntry
<1>5. ~ Unsettled(Innermost) /\ Innermost.op \notin {"users", "change"}
  BY <1>1 DEF Unsettled
<1>6. "opinions" \notin Books /\ "users" \notin Books /\ "books" \notin Books
  BY ModeratorAssumption
<1>7. /\ people = [list |-> people.list, dirty |-> people.dirty]
      /\ opinions = [list |-> opinions.list, dirty |-> opinions.dirty]
      /\ perBook = [c \in Books |-> perBook[c]] /\ on \subseteq Books
      /\ catalog = [list |-> catalog.list, dirty |-> catalog.dirty]
      /\ catalog.list \subseteq Books /\ catalog.dirty \in BOOLEAN
      /\ \A c \in Books : c \in moved \/ perBook[c] \in {NotKept, NoReviews, reviewed}
  BY DEF ModeratorKept, ListTypes, PerBookKept
<1>8. on' = on /\ people' = people
  BY <1>1 DEF accounts
\* Collect leaves the marks of the other lists alone.
<1>9. \A left, out, kept, m : Collect(left, out, old, kept, m) =>
        /\ \A x : x # "opinions" => (x \in m <=> x \in moved')
        /\ opinions' = [list |-> opinions'.list, dirty |-> opinions'.dirty]
  <2> SUFFICES ASSUME NEW left, NEW out, NEW kept, NEW m, Collect(left, out, old, kept, m)
               PROVE  /\ \A x : x # "opinions" => (x \in m <=> x \in moved')
                      /\ opinions' = [list |-> opinions'.list, dirty |-> opinions'.dirty]
    OBVIOUS
  <2>1. PICK more : opinions' = [opinions EXCEPT !.list = more] \/ opinions' = opinions
    BY DEF Collect
  <2>2. opinions' = [list |-> opinions'.list, dirty |-> opinions'.dirty]
    BY <1>7, <2>1
  <2>3. moved' = m \cup {"opinions"} \/ moved' = m \ {"opinions"} \/ moved' = m
    BY DEF Collect
  <2> QED
    BY <2>2, <2>3
<1>10. PICK m, name : /\ m = IF ~ Worked THEN moved
                             ELSE IF old THEN moved \cup {name} ELSE moved \ {name}
                      /\ name = IF Innermost.do = "books" THEN "books" ELSE Innermost.arg.book
  OBVIOUS
<1>11. CASE Innermost.do = "books"
  <2>1. /\ perBook' = perBook /\ name = "books"
        /\ catalog' = IF Worked THEN [catalog EXCEPT !.list = Got]
                      ELSE [list |-> {}, dirty |-> TRUE]
        /\ Collect(SetToSeq(catalog'.list), {}, old, perBook, m)
    BY <1>4, <1>10, <1>11 DEF OpinionsReturn
  <2>2. PICK left : left = SetToSeq(catalog'.list)
    OBVIOUS
  <2>3. /\ Worked => Got \subseteq Books /\ (old \/ Got = on)
        /\ \A d \in 1 .. Len(u) : Removing(u[d]) => ~ Worked
    BY <1>3, <1>4, <1>11 DEF ReplyTrue, Worked, Got
  <2>4. /\ catalog' = [list |-> catalog'.list, dirty |-> catalog'.dirty]
        /\ catalog'.dirty \in BOOLEAN /\ catalog'.list \subseteq Books
        /\ Worked => catalog'.list = Got
        /\ ~ Worked => catalog'.list = {} /\ catalog'.dirty
    <3>1. CASE Worked
      <4>1. catalog' = [list |-> Got, dirty |-> catalog.dirty]
        BY <1>7, <2>1, <3>1
      <4> QED
        BY <1>7, <2>3, <3>1, <4>1
    <3>2. CASE ~ Worked
      <4>1. catalog' = [list |-> {}, dirty |-> TRUE]
        BY <2>1, <3>2
      <4>2. catalog'.list = {} /\ catalog'.dirty = TRUE
        BY <4>1
      <4> QED
        BY <3>2, <4>1, <4>2
    <3> QED
      BY <3>1, <3>2
  <2>5. left \in Seq(Books) /\ ToSet(left) \subseteq catalog'.list
    <3>1. IsFiniteSet(catalog'.list)
      BY <2>4, ModeratorAssumption, FS_Subset
    <3>2. left \in Seq(catalog'.list) /\ ToSet(left) \subseteq catalog'.list
      BY <2>2, <3>1, SetSeq
    <3> QED
      BY <2>4, <3>2, SeqMonotonic
  <2>6. Collect(left, {}, old, perBook, m)
    BY <2>1, <2>2
  <2>7. /\ \A x : x # "opinions" => (x \in m <=> x \in moved')
        /\ opinions' = [list |-> opinions'.list, dirty |-> opinions'.dirty]
    BY <1>9, <2>6
  <2>8. /\ \A x : x # "books" => (x \in m <=> x \in moved)
        /\ Worked /\ old => "books" \in m
    BY <1>10, <2>1
  <2>9. ListTypes'
    BY <1>7, <1>8, <2>1, <2>4, <2>7 DEF ListTypes
  <2>10. UsersKept(u)'
    BY <1>1, <1>2, <1>5, <2>7, <2>8, BelowKept
  <2>11. CatalogKept(u)'
    BY <1>8, <2>3, <2>4, <2>7, <2>8 DEF CatalogKept, BooksAgree
  <2>12. \A d \in 1 .. Len(u) : Removing(u[d]) => CatalogDoubted(u, d)'
    BY <2>3, <2>4 DEF CatalogDoubted
  <2>13. old \/ (\E j \in 1 .. Len(u) : Unsettled(u[j]))
             \/ ((\A r \in {} : Good(r)) /\ ToSet(left) \subseteq on)
    BY <2>3, <2>4, <2>5
  <2>14. \A d \in 1 .. Len(u) : Removing(u[d]) => old \/ (left = <<>> /\ {} = {})
    <3> SUFFICES ASSUME NEW d \in 1 .. Len(u), Removing(u[d]) PROVE left = <<>>
      OBVIOUS
    <3>1. ToSet(left) = {}
      BY <2>3, <2>4, <2>5
    <3>2. Len(left) \in Nat /\ \A i \in 1 .. Len(left) : left[i] \in ToSet(left)
      BY <2>5, LenProperties DEF ToSet
    <3>3. Len(left) = 0
      BY <3>1, <3>2
    <3> QED
      BY <2>5, <3>3, EmptySeq
  <2>15. \A b \in Books : b \in m \/ perBook[b] \in {NotKept, NoReviews, reviewed}
    BY <1>6, <1>7, <2>8
  <2>16. PICK none, kept : none = {} /\ kept = perBook
    OBVIOUS
  <2> QED
    BY <1>1, <1>2, <2>1, <2>5, <2>6, <2>9, <2>10, <2>11, <2>12, <2>13, <2>14, <2>15, <2>16,
       CollectStep
<1>12. CASE Innermost.do = "reviews"
  <2>1. PICK b \in Books : b = Innermost.arg.book /\ Innermost.arg.left \in Seq(Books)
    BY <1>1, <1>3, <1>12 DEF ModeratorEntry, Reviewing
  <2>2. PICK kept : kept = [perBook EXCEPT ![b] = IF Worked THEN Got ELSE NoReviews]
    OBVIOUS
  <2>3. PICK left, out : /\ left = Innermost.arg.left
                         /\ out = Innermost.arg.out \cup {<<b, kept[b]>>}
    OBVIOUS
  <2>4. /\ perBook' = kept /\ catalog' = catalog /\ name = b
        /\ Collect(left, out, old, kept, m)
    BY <1>4, <1>10, <1>12, <2>1, <2>2, <2>3 DEF OpinionsReturn
  <2>5. /\ \A x : x # "opinions" => (x \in m <=> x \in moved')
        /\ opinions' = [list |-> opinions'.list, dirty |-> opinions'.dirty]
    BY <1>9, <2>4
  <2>6. /\ \A x : x # b => (x \in m <=> x \in moved)
        /\ Worked /\ old => b \in m
        /\ "users" # b /\ "books" # b
    BY <1>6, <1>10, <2>4
  <2>7. /\ kept[b] = (IF Worked THEN Got ELSE NoReviews)
        /\ \A c \in Books : c # b => kept[c] = perBook[c]
        /\ kept = [c \in Books |-> kept[c]]
    BY <1>7, <2>2
  <2>8. old \/ kept[b] \in {NoReviews, reviewed}
    BY <1>3, <1>4, <1>12, <2>7 DEF ReplyTrue, Worked, Got
  <2>9. ListTypes'
    BY <1>7, <1>8, <2>4, <2>5, <2>7 DEF ListTypes
  <2>10. UsersKept(u)'
    BY <1>1, <1>2, <1>5, <2>5, <2>6, BelowKept
  <2>11. Innermost.do # "books" /\ UNCHANGED catalog
    BY <1>12, <2>4
  <2>12. CatalogKept(u)'
    BY <1>1, <1>2, <1>5, <2>5, <2>6, <2>11, BelowKept
  <2>13. \A d \in 1 .. Len(u) : Removing(u[d]) => CatalogDoubted(u, d)'
    BY <1>1, <1>2, <2>11, BelowKept
  <2>14. Reviewing(Innermost)
    BY <1>1, <1>12 DEF Reviewing
  <2>15. \/ old \/ (\E j \in 1 .. Len(u) : Unsettled(u[j]))
         \/ (\A r \in out : Good(r)) /\ ToSet(left) \subseteq on
    BY <1>3, <1>4, <2>1, <2>3, <2>8, <2>14 DEF SoFar, Good
  <2>16. \A d \in 1 .. Len(u) : Removing(u[d]) => old \/ (left = <<>> /\ out = {})
    BY <1>3, <1>4, <2>14
  <2>17. \A c \in Books : c \in m \/ kept[c] \in {NotKept, NoReviews, reviewed}
    <3> SUFFICES ASSUME NEW c \in Books PROVE c \in m \/ kept[c] \in {NotKept, NoReviews, reviewed}
      OBVIOUS
    <3>1. CASE c # b
      BY <1>7, <2>6, <2>7, <3>1
    <3>2. CASE c = b
      BY <2>6, <2>7, <2>8, <3>2
    <3> QED
      BY <3>1, <3>2
  <2>18. left \in Seq(Books)
    BY <2>1, <2>3
  <2> QED
    BY <1>1, <1>2, <2>4, <2>9, <2>10, <2>12, <2>13, <2>15, <2>16, <2>17, <2>18, CollectStep
<1> QED
  BY <1>11, <1>12 DEF OpinionsReturn

LEMMA ReadOpinionsStep == ASSUME WaitsInv, ModeratorKept, ReadOpinions PROVE ModeratorKept'
<1>1. UNCHANGED <<accounts, people, perBook>>
  BY DEF ReadOpinions
<1>2. /\ people = [list |-> people.list, dirty |-> people.dirty]
      /\ opinions = [list |-> opinions.list, dirty |-> opinions.dirty]
      /\ perBook = [c \in Books |-> perBook[c]] /\ on \subseteq Books
      /\ catalog = [list |-> catalog.list, dirty |-> catalog.dirty]
      /\ catalog.list \subseteq Books /\ catalog.dirty \in BOOLEAN
      /\ \A c \in Books : c \in moved \/ perBook[c] \in {NotKept, NoReviews, reviewed}
  BY DEF ModeratorKept, ListTypes, PerBookKept
<1>3. PICK op \in {"opinions"} : TRUE
  OBVIOUS
<1>4. CASE catalog.dirty
  <2>1. PICK a : a = [left |-> <<>>, out |-> {}]
    OBVIOUS
  <2>2. PICK do : do = "books"
    OBVIOUS
  <2>3. /\ SendOn(stack, op, do, a, FALSE) /\ catalog' = [catalog EXCEPT !.dirty = FALSE]
        /\ opinions' = [opinions EXCEPT !.dirty = FALSE] /\ moved' = moved
    BY <1>3, <1>4, <2>1, <2>2 DEF ReadOpinions, Send
  <2>4. PICK e : e = Entry(op, do, a, FALSE)
    OBVIOUS
  <2>5. ModeratorEntry(e) /\ ~ Reviewing(e)
    <3>1. Asks(op, do, a)
      BY <1>3, <2>2 DEF Asks
    <3>2. PICK no : no = FALSE
      OBVIOUS
    <3>3. no \in BOOLEAN /\ e = Entry(op, do, a, no)
      BY <2>4, <3>2
    <3>4. ModeratorEntry(e) /\ (Reviewing(e) <=> op = "opinions" /\ do = "reviews")
      BY <3>1, <3>3, AskedEntry
    <3> QED
      BY <2>2, <3>4
  <2>6. ListTypes'
    BY <1>1, <1>2, <2>3 DEF ListTypes, accounts
  <2>7. PerBookKept'
    BY <1>1, <1>2, <2>3 DEF PerBookKept, accounts
  <2>8. do # "moderate" /\ op # "remove" /\ op = "opinions" /\ do = "books"
        /\ UNCHANGED accounts /\ UNCHANGED people
    BY <1>1, <1>3, <2>2
  <2> QED
    BY <2>3, <2>4, <2>5, <2>6, <2>7, <2>8, ModeratorAsks
<1>5. CASE ~ catalog.dirty
  <2>1. PICK left, n : left = SetToSeq(catalog.list) /\ n = NextAsked(left, perBook)
    OBVIOUS
  <2>2. left \in Seq(Books) /\ ToSet(left) \subseteq catalog.list
    <3>1. IsFiniteSet(catalog.list)
      BY <1>2, ModeratorAssumption, FS_Subset
    <3>2. left \in Seq(catalog.list) /\ ToSet(left) \subseteq catalog.list
      BY <2>1, <3>1, SetSeq
    <3> QED
      BY <1>2, <3>2, SeqMonotonic
  <2>21. PICK out : out = Entries(Before(left, n), perBook)
    OBVIOUS
  <2>3. PICK old \in BOOLEAN :
          old = ("books" \in moved \/ Before(left, n) \cap moved # {}
                 \/ \E i \in DOMAIN stack : stack[i].do = "books")
    OBVIOUS
  <2>4. /\ catalog' = catalog
        /\ n = 0 => /\ opinions' = Keep(out) /\ Stored("opinions", old)
                    /\ UNCHANGED <<stack, wire>>
        /\ n # 0 => /\ opinions' = [opinions EXCEPT !.dirty = FALSE] /\ moved' = moved
                    /\ SendOn(stack, "opinions", "reviews",
                              [book |-> left[n], left |-> After(left, n), out |-> out], old)
    BY <1>5, <2>1, <2>3, <2>21 DEF ReadOpinions, Idle
  <2>5. PICK s : s = stack
    OBVIOUS
  <2>6. /\ Wired(wire) /\ Fits(s) /\ Ordered /\ InTurn(wire, s) /\ StackTrue(s)
        /\ RemovalsNoted(s) /\ ListsKept(s) /\ DOMAIN s = 1 .. Len(s)
    BY <2>5, SeqShape DEF WaitsInv, ModeratorKept, Fits, Stacked
  <2>7. old \/ (\E j \in 1 .. Len(s) : Unsettled(s[j])) \/ catalog.list = on
    BY <1>5, <2>3, <2>5, <2>6 DEF ListsKept, CatalogKept, BooksAgree
  <2>8. old \/ Before(left, n) \cap moved = {}
    BY <2>3
  <2>9. \/ old \/ (\E j \in 1 .. Len(s) : Unsettled(s[j]))
        \/ /\ \A r \in out : Good(r)
           /\ n # 0 => left[n] \in on /\ ToSet(After(left, n)) \subseteq on
    BY <1>2, <2>1, <2>2, <2>7, <2>8, <2>21, MoreCollected
  <2>10. \A d \in 1 .. Len(s) : Removing(s[d]) => old
    BY <1>5, <2>3, <2>5, <2>6 DEF ListsKept, Doubted, CatalogDoubted
  <2>11. on' = on /\ reviewed' = reviewed /\ status' = status /\ people' = people
         /\ perBook' = perBook
    BY <1>1 DEF accounts
  <2>12. "opinions" \notin Books
    BY ModeratorAssumption
  <2>13. \A x : x # "opinions" => (x \in moved <=> x \in moved')
    BY <2>4 DEF Stored
  <2>14. UsersKept(s)' /\ CatalogKept(s)'
    BY <2>4, <2>6, <2>11, <2>13 DEF ListsKept, UsersKept, UsersAgree, CatalogKept, BooksAgree
  <2>15. \A d \in 1 .. Len(s) : Removing(s[d]) => CatalogDoubted(s, d)'
    BY <2>4, <2>6 DEF ListsKept, Doubted, CatalogDoubted
  <2>16. PerBookKept'
    BY <1>2, <2>11, <2>12, <2>13 DEF PerBookKept
  <2>17. opinions' = [list |-> opinions'.list, dirty |-> opinions'.dirty]
    BY <1>2, <2>4 DEF Keep
  <2>18. ListTypes'
    BY <1>2, <2>4, <2>11, <2>17 DEF ListTypes
  <2>19. CASE n = 0
    <3>1. /\ opinions'.list = out /\ (old => "opinions" \in moved')
      BY <2>4, <2>19 DEF Keep, Stored
    <3>2. OpinionsKept(s)'
      BY <2>9, <2>11, <3>1 DEF OpinionsKept, OpinionsAgree, Good
    <3>3. \A d \in 1 .. Len(s) : Removing(s[d]) => OpinionsDoubted(s, d)'
      BY <2>10, <3>1 DEF OpinionsDoubted
    <3>4. ListsKept(s)'
      BY <2>14, <2>15, <3>2, <3>3 DEF ListsKept, Doubted
    <3>5. s = stack' /\ wire' = wire /\ UNCHANGED accounts
      BY <1>1, <2>4, <2>5, <2>19
    <3>6. StackTrue(stack)' /\ RemovalsNoted(stack)' /\ ListsKept(stack)'
      BY <2>6, <3>4, <3>5, KeptNow
    <3>7. InTurn(wire, stack)' /\ Ordered'
      BY <2>6, <3>5 DEF InTurn, Ordered
    <3> QED
      BY <2>16, <2>18, <3>6, <3>7 DEF ModeratorKept
  <2>20. CASE n # 0
    <3>1. PICK a : a = [book |-> left[n], left |-> After(left, n), out |-> out]
      OBVIOUS
    <3>2. a.book = left[n] /\ a.left = After(left, n) /\ a.out = out
      BY <3>1
    <3>3. PICK do : do = "reviews"
      OBVIOUS
    <3>4. SendOn(s, op, do, a, old)
      BY <1>3, <2>4, <2>5, <2>20, <3>1, <3>3
    <3>5. PICK e : e = Entry(op, do, a, old)
      OBVIOUS
    <3>6. a.book \in Books /\ a.left \in Seq(Books)
      BY <1>2, <2>1, <2>2, <2>20, <3>2, AskedNext
    <3>7. ModeratorEntry(e)
      <4>1. Asks(op, do, a)
        BY <1>3, <3>3, <3>6 DEF Asks
      <4> QED
        BY <3>5, <4>1, AskedEntry
    <3>8. old \/ (\E j \in 1 .. Len(s) : Unsettled(s[j])) \/ SoFar(a)
      BY <2>9, <2>20, <3>2 DEF SoFar
    <3>9. old \/ \A d \in 1 .. Len(s) : ~ Removing(s[d])
      BY <2>10
    <3>10. do # "moderate" /\ op # "remove" /\ op = "opinions" /\ UNCHANGED accounts
      BY <1>1, <1>3, <3>3
    <3> QED
      BY <2>6, <2>14, <2>15, <2>16, <2>18, <3>4, <3>5, <3>7, <3>8, <3>9, <3>10, ModeratorSent
  <2> QED
    BY <2>19, <2>20
<1> QED
  BY <1>4, <1>5

-----------------------------------------------------------------------------
(* Moderation: the server's steps, faults and the refresh.                  *)

\* A request has been served with r, on the entries s.
Served(s, r, t) ==
  /\ Len(t) = Len(s)
  /\ \/ t = s
     \/ \E d \in 1 .. Len(s) :
          /\ s[d].got = None /\ s[d].do = Head(wire).do /\ t[d] = Given(s[d], r)
          /\ \A i \in 1 .. Len(s) : i # d => t[i] = s[i]

LEMMA ServedKept ==
  ASSUME NEW s, Len(s) \in Nat, NEW r, r # None, NEW t, Served(s, r, t), StackTrue(s)',
         RemovalsNoted(s),
         \A d \in 1 .. Len(s) : s[d].do = Head(wire).do => ReplyTrue(Given(s[d], r))'
  PROVE  /\ StackTrue(t)' /\ RemovalsNoted(t)
         /\ \A k \in 1 .. Len(s) :
              /\ t[k].op = s[k].op /\ t[k].do = s[k].do
              /\ Unsettled(s[k]) => Unsettled(t[k])
              /\ Removing(t[k]) => Removing(s[k])
<1>1. ASSUME NEW k \in 1 .. Len(s)
      PROVE  /\ t[k].op = s[k].op /\ t[k].do = s[k].do /\ t[k].arg = s[k].arg
             /\ t[k].old = s[k].old
             /\ Unsettled(s[k]) => Unsettled(t[k])
             /\ Removing(t[k]) => Removing(s[k])
             /\ t[k] = s[k] \/ (s[k].do = Head(wire).do /\ t[k] = Given(s[k], r))
  <2>1. \/ t[k] = s[k]
        \/ /\ s[k].got = None /\ s[k].do = Head(wire).do /\ t[k] = Given(s[k], r)
    BY DEF Served
  <2>2. CASE t[k] = s[k]
    BY <2>2
  <2>3. CASE s[k].got = None /\ s[k].do = Head(wire).do /\ t[k] = Given(s[k], r)
    <3>1. /\ t[k].op = s[k].op /\ t[k].do = s[k].do /\ t[k].arg = s[k].arg
          /\ t[k].old = s[k].old /\ t[k].got = r
      BY <2>3, GivenEntry
    <3> QED
      BY <2>3, <3>1, RepliesDiffer DEF Unsettled, Removing
  <2> QED
    BY <2>1, <2>2, <2>3
<1>2. ASSUME NEW k \in 1 .. Len(s)
      PROVE  ModeratorEntry(t[k])' /\ ReplyTrue(t[k])' /\ CollectedTrue(t, k)'
  <2>1. ModeratorEntry(s[k])' /\ ReplyTrue(s[k])' /\ CollectedTrue(s, k)'
    BY DEF StackTrue
  <2>2. ReplyTrue(t[k])'
    BY <1>1, <2>1
  <2>3. Reviewing(t[k]) <=> Reviewing(s[k])
    BY <1>1 DEF Reviewing
  <2>4. PICK e, f : e = t[k] /\ f = s[k]
    OBVIOUS
  <2>5. /\ e.op = f.op /\ e.do = f.do /\ e.arg = f.arg /\ e.old = f.old
        /\ ModeratorEntry(f)' /\ (Reviewing(e) <=> Reviewing(f))
    BY <1>1, <2>1, <2>3, <2>4
  <2>6. ModeratorEntry(e)'
    <3>1. e.old \in BOOLEAN
      BY <2>5, Zenon DEF ModeratorEntry
    <3> QED
      BY <2>5, <3>1 DEF ModeratorEntry, Reviewing
  <2>7. CollectedTrue(t, k)'
    <3>1. \A j \in 1 .. k - 1 : j \in 1 .. Len(s)
      OBVIOUS
    <3>2. \A j \in 1 .. k - 1 : Unsettled(s[j]) => Unsettled(t[j])
      BY <1>1, <3>1
    <3>3. t[k].arg = s[k].arg /\ (s[k].old => t[k].old)
      BY <1>1
    <3> QED
      BY <2>1, <2>3, <3>2, <3>3 DEF CollectedTrue, Reviewing, Unsettled
  <2> QED
    BY <2>2, <2>4, <2>6, <2>7
<1>3. StackTrue(t)'
  BY <1>2 DEF StackTrue, Served
<1>4. RemovalsNoted(t)
  <2> SUFFICES ASSUME NEW d \in 1 .. Len(s), NEW k \in 1 .. Len(s), d < k, Removing(t[d]),
                      Reviewing(t[k])
               PROVE  t[k].old
    BY DEF RemovalsNoted, Served
  <2>1. Removing(s[d]) /\ Reviewing(s[k]) /\ (s[k].old => t[k].old)
    BY <1>1 DEF Reviewing
  <2> QED
    BY <2>1 DEF RemovalsNoted
<1> QED
  BY <1>1, <1>3, <1>4

LEMMA ReplyServes ==
  ASSUME Wired(wire), NEW s, Fits(s), InTurn(wire, s), NEW r, r # None, wire # <<>>,
         ReplyTo(s, r), NEW t, t = stack'
  PROVE  /\ Served(s, r, t) /\ InTurn(wire, stack)' /\ (Ordered => Ordered')
         /\ ~ Late => Head(wire).depth \in 1 .. Len(s) /\ s[Head(wire).depth].do = Head(wire).do
                      /\ s[Head(wire).depth].got = None
                      /\ t[Head(wire).depth] = Given(s[Head(wire).depth], r)
<1>1. /\ Len(stack') = Len(s) /\ ToSet(wire') \subseteq ToSet(wire)
      /\ \/ stack' = s
         \/ LET d == Head(wire).depth IN
            /\ d \in 1 .. Len(s) /\ s[d].got = None /\ s[d].do = Head(wire).do
            /\ stack'[d] = Given(s[d], r)
            /\ \A i \in 1 .. Len(s) : i # d => stack'[i] = s[i]
  BY ReplyFits
<1>2. Served(s, r, t)
  BY <1>1 DEF Served
<1>3. InTurn(wire, stack)'
  BY TurnReplied DEF InTurn
<1>4. Ordered => Ordered'
  BY <1>1 DEF Ordered
<1>5. ASSUME ~ Late
      PROVE  LET d == Head(wire).depth IN
             /\ d \in 1 .. Len(s) /\ s[d].do = Head(wire).do /\ s[d].got = None
             /\ t[d] = Given(s[d], r)
  <2>1. PICK d : d = Head(wire).depth
    OBVIOUS
  <2>2. Head(wire) = wire[1] /\ 1 \in DOMAIN wire /\ d # 0
    BY <1>5, <2>1, TailSeq, SeqShape DEF Wired, Late
  <2>3. DOMAIN s = 1 .. Len(s) /\ d \in DOMAIN s /\ s[d].do = Head(wire).do /\ s[d].got = None
    BY <2>1, <2>2, SeqShape DEF Fits, Stacked, Linked
  <2>4. t = [s EXCEPT ![d].got = r]
    BY <1>5, <2>1 DEF ReplyTo
  <2>5. t[d] = [s[d] EXCEPT !.got = r] /\ IsEntry(s[d])
    BY <2>3, <2>4 DEF Fits, Stacked, ToSet
  <2>6. t[d] = Given(s[d], r)
    BY <2>5, GivenIs
  <2> QED
    BY <2>1, <2>3, <2>6
<1> QED
  BY <1>2, <1>3, <1>4, <1>5

LEMMA AnswersStep ==
  ASSUME WaitsInv, ModeratorKept, NEW do, Asked(do), NEW r, ReplyTo(stack, r),
         UNCHANGED moderatorVars,
         \/ r = Failed
         \/ do = "users" /\ r = Ok(status)
         \/ do = "books" /\ r = Ok(on)
         \/ do = "reviews" /\ r = Ok(reviewed)
  PROVE  ModeratorKept'
<1>1. wire # <<>> /\ Head(wire).do = do /\ r # None
  BY RepliesDiffer DEF Asked
<1>2. PICK s, t : s = stack /\ t = stack'
  OBVIOUS
<1>3. /\ Wired(wire) /\ Fits(s) /\ Ordered /\ InTurn(wire, s) /\ StackTrue(s)
      /\ RemovalsNoted(s) /\ ListsKept(s) /\ Len(s) \in Nat
  BY <1>2, SeqShape DEF WaitsInv, ModeratorKept, Fits, Stacked
<1>4. Served(s, r, t) /\ InTurn(wire, stack)' /\ Ordered'
  BY <1>1, <1>2, <1>3, ReplyServes
<1>5. ASSUME NEW d \in 1 .. Len(s), s[d].do = Head(wire).do PROVE ReplyTrue(Given(s[d], r))'
  <2>1. on \subseteq Books
    BY DEF ModeratorKept, ListTypes
  <2>2. Given(s[d], r).do = do /\ Given(s[d], r).got = r
    BY <1>1, <1>5, GivenEntry
  <2> QED
    BY <2>1, <2>2, RepliesDiffer DEF ReplyTrue, moderatorVars, accounts
<1>6. /\ StackTrue(t)' /\ RemovalsNoted(t) /\ Len(t) = Len(s)
      /\ \A k \in 1 .. Len(s) : /\ t[k].op = s[k].op /\ t[k].do = s[k].do
                                /\ Unsettled(s[k]) => Unsettled(t[k])
                                /\ Removing(t[k]) => Removing(s[k])
  <2>1. StackTrue(s)'
    BY <1>3, TrueNow DEF moderatorVars
  <2> QED
    BY <1>1, <1>3, <1>4, <1>5, <2>1, ServedKept DEF Served
<1>7. /\ UNCHANGED <<status, on, reviewed, people, catalog, perBook, opinions, moved>>
      /\ UNCHANGED accounts
  BY DEF moderatorVars, accounts, lists
<1>8. UsersKept(t)' /\ CatalogKept(t)' /\ OpinionsKept(t)'
  BY <1>3, <1>6, <1>7 DEF ListsKept, UsersKept, UsersAgree, CatalogKept, BooksAgree, OpinionsKept,
     OpinionsAgree
<1>9. ASSUME NEW d \in 1 .. Len(t), Removing(t[d])
      PROVE  CatalogDoubted(t, d)' /\ OpinionsDoubted(t, d)'
  <2>1. CatalogDoubted(s, d) /\ OpinionsDoubted(s, d)
    BY <1>3, <1>6, <1>9 DEF ListsKept, Doubted
  <2> QED
    BY <1>6, <1>7, <2>1 DEF CatalogDoubted, OpinionsDoubted
<1>10. StackTrue(stack)' /\ RemovalsNoted(stack)' /\ ListsKept(stack)'
  BY <1>2, <1>6, <1>7, <1>8, <1>9, KeptAs DEF ListsKept, Doubted
<1>11. ListTypes' /\ PerBookKept'
  BY <1>7 DEF ModeratorKept, ListTypes, PerBookKept
<1> QED
  BY <1>4, <1>10, <1>11 DEF ModeratorKept

\* Something changes at the server: what had been fetched is old.
LEMMA OvertakenTrue ==
  ASSUME WaitsInv, ModeratorKept, on' \subseteq Books, NEW s, s = Overtaken(stack)
  PROVE  /\ Wired(wire) /\ Fits(s) /\ InTurn(wire, s) /\ StackTrue(s)' /\ RemovalsNoted(s)
         /\ Len(s) = Len(stack) /\ Len(s) \in Nat
         /\ \A k \in 1 .. Len(s) : /\ s[k].op = stack[k].op /\ s[k].do = stack[k].do
                                   /\ s[k].got = stack[k].got
<1>1. Fits(stack) /\ Wired(wire)
  BY DEF WaitsInv
<1>2. /\ Len(stack) \in Nat /\ DOMAIN stack = 1 .. Len(stack) /\ DOMAIN s = DOMAIN stack
      /\ \A k \in DOMAIN stack : IsEntry(stack[k])
  BY <1>1, SeqShape, StackEntries DEF Fits, Stacked, Overtaken
<1>3. Fits(s)
  BY <1>1, OvertakenFits
<1>4. Len(s) = Len(stack)
  BY <1>2, <1>3, SeqShape DEF Fits, Stacked
<1>5. PICK yes : yes = TRUE
  OBVIOUS
<1>6. ASSUME NEW k \in 1 .. Len(stack)
      PROVE  /\ s[k].op = stack[k].op /\ s[k].do = stack[k].do /\ s[k].arg = stack[k].arg
             /\ s[k].got = stack[k].got
             /\ (s[k].old = yes \/ (s[k] = stack[k] /\ stack[k].got = None
                                    /\ stack[k].op # "opinions"))
  <2>1. PICK e : e = [stack[k] EXCEPT !.old = yes]
    OBVIOUS
  <2>2. /\ e.op = stack[k].op /\ e.do = stack[k].do /\ e.arg = stack[k].arg
        /\ e.got = stack[k].got /\ e.old = yes
    BY <1>2, <2>1, AgedIs
  <2>3. s[k] = IF stack[k].got # None \/ stack[k].op = "opinions" THEN e ELSE stack[k]
    BY <1>2, <1>5, <2>1 DEF Overtaken
  <2> QED
    BY <2>2, <2>3
<1>7. InTurn(wire, s)
  BY <1>2, <1>6, TurnMarked DEF ModeratorKept
<1>8. ASSUME NEW k \in 1 .. Len(stack)
      PROVE  ModeratorEntry(s[k])' /\ ReplyTrue(s[k])' /\ CollectedTrue(s, k)'
  <2>1. ModeratorEntry(stack[k]) /\ ReplyTrue(stack[k])
    BY DEF ModeratorKept, StackTrue
  <2>2. PICK e, f : e = s[k] /\ f = stack[k]
    OBVIOUS
  <2>3. ModeratorEntry(f) /\ ReplyTrue(f) /\ e.op = f.op /\ e.do = f.do /\ e.arg = f.arg
        /\ e.got = f.got
        /\ (e.old = yes \/ (e = f /\ f.got = None /\ f.op # "opinions"))
    BY <1>6, <2>1, <2>2
  <2>4. e.old \in BOOLEAN
    <3>1. f.old \in BOOLEAN
      BY <2>3 DEF ModeratorEntry
    <3> QED
      BY <1>5, <2>3, <3>1, Zenon
  <2>5. ModeratorEntry(e)'
    BY <2>3, <2>4 DEF ModeratorEntry, Reviewing
  <2>6. ReplyTrue(e)'
    <3>1. e.got = None \/ e.old
      BY <1>5, <2>3
    <3> QED
      BY <2>3, <3>1, RepliesDiffer DEF ReplyTrue
  <2>7. CollectedTrue(s, k)'
    <3>1. e.op = "opinions" => e.old
      BY <1>5, <2>3
    <3> QED
      BY <2>2, <3>1 DEF CollectedTrue, Reviewing
  <2> QED
    BY <2>2, <2>5, <2>6, <2>7
<1>9. StackTrue(s)'
  BY <1>4, <1>8 DEF StackTrue
<1>10. ASSUME NEW k \in 1 .. Len(s), Reviewing(s[k]) PROVE s[k].old
  BY <1>4, <1>5, <1>6, <1>10 DEF Reviewing
<1> QED
  BY <1>1, <1>2, <1>3, <1>4, <1>6, <1>7, <1>9, <1>10 DEF RemovalsNoted

LEMMA ChangedStep ==
  ASSUME ModeratorKept, NEW t, t = stack', Len(t) = Len(stack), InTurn(wire, stack)', Ordered',
         StackTrue(t)', RemovalsNoted(t), UNCHANGED lists, on' \subseteq Books,
         \A m \in moved : m \in moved',
         \A k \in 1 .. Len(t) : /\ t[k].op = stack[k].op /\ t[k].do = stack[k].do
                                /\ Unsettled(stack[k]) => Unsettled(t[k])
                                /\ Removing(t[k]) => Removing(stack[k]),
         \/ status' = status \/ "users" \in moved' \/ \E k \in 1 .. Len(t) : t[k].op = "change",
         on' = on \/ ("books" \in moved' /\ "opinions" \in moved')
           \/ (CatalogKept(t)' /\ OpinionsKept(t)'),
         reviewed' = reviewed \/ (Books \subseteq moved' /\ "opinions" \in moved')
  PROVE  ModeratorKept'
<1>1. /\ UNCHANGED <<people, catalog, perBook, opinions>>
      /\ ListTypes /\ PerBookKept /\ ListsKept(stack)
  BY DEF lists, ModeratorKept
<1>2. UsersKept(t)'
  BY <1>1 DEF ListsKept, UsersKept, UsersAgree
<1>3. CatalogKept(t)'
  <2>1. CASE on' = on
    BY <1>1, <2>1 DEF ListsKept, CatalogKept, BooksAgree
  <2>2. CASE "books" \in moved'
    BY <2>2 DEF CatalogKept, BooksAgree
  <2> QED
    BY <2>1, <2>2
<1>4. OpinionsKept(t)'
  <2>1. CASE on' = on /\ reviewed' = reviewed
    BY <1>1, <2>1 DEF ListsKept, OpinionsKept, OpinionsAgree
  <2>2. CASE "opinions" \in moved'
    BY <2>2 DEF OpinionsKept, OpinionsAgree
  <2> QED
    BY <2>1, <2>2
<1>5. ASSUME NEW d \in 1 .. Len(t), Removing(t[d])
      PROVE  CatalogDoubted(t, d)' /\ OpinionsDoubted(t, d)'
  <2>1. CatalogDoubted(stack, d) /\ OpinionsDoubted(stack, d)
    BY <1>1, <1>5 DEF ListsKept, Doubted
  <2> QED
    BY <1>1, <2>1 DEF CatalogDoubted, OpinionsDoubted
<1>6. StackTrue(stack)' /\ RemovalsNoted(stack)' /\ ListsKept(stack)'
  BY <1>2, <1>3, <1>4, <1>5, KeptAs DEF ListsKept, Doubted
<1>7. ListTypes'
  BY <1>1 DEF ListTypes
<1>8. PerBookKept'
  BY <1>1 DEF PerBookKept
<1> QED
  BY <1>6, <1>7, <1>8 DEF ModeratorKept

\* A change of the client's is served.
LEMMA ChangeServed ==
  ASSUME WaitsInv, ModeratorKept, NEW do, do \notin {"users", "books", "reviews"}, Asked(do),
         NEW names, Changed(names), on' \subseteq Books, NEW t, t = stack'
  PROVE  /\ Len(t) = Len(stack) /\ InTurn(wire, stack)' /\ Ordered'
         /\ StackTrue(t)' /\ RemovalsNoted(t) /\ \A m \in moved : m \in moved'
         /\ \A k \in 1 .. Len(t) : /\ t[k].op = stack[k].op /\ t[k].do = stack[k].do
                                   /\ Unsettled(stack[k]) => Unsettled(t[k])
                                   /\ Removing(t[k]) => Removing(stack[k])
         /\ \/ \A m \in names : m \in moved'
            \/ \E d \in 1 .. Len(t) : /\ t[d].do = do /\ t[d].got = Ok(0) /\ ModeratorEntry(t[d])
                                      /\ stack[d].got = None
<1>1. PICK s, r, v : s = Overtaken(stack) /\ r = Ok(0) /\ v = t
  OBVIOUS
<1>2. /\ wire # <<>> /\ Head(wire).do = do /\ r # None /\ ReplyTo(s, r) /\ Ordered
  BY <1>1, RepliesDiffer DEF Asked, Changed, ModeratorKept
<1>3. /\ Wired(wire) /\ Fits(s) /\ InTurn(wire, s) /\ StackTrue(s)' /\ RemovalsNoted(s)
      /\ Len(s) = Len(stack) /\ Len(s) \in Nat
      /\ \A k \in 1 .. Len(s) : /\ s[k].op = stack[k].op /\ s[k].do = stack[k].do
                                /\ s[k].got = stack[k].got
  BY <1>1, OvertakenTrue
<1>4. /\ Served(s, r, v) /\ InTurn(wire, stack)' /\ Ordered'
      /\ ~ Late => Head(wire).depth \in 1 .. Len(s) /\ s[Head(wire).depth].do = Head(wire).do
                   /\ s[Head(wire).depth].got = None
                   /\ v[Head(wire).depth] = Given(s[Head(wire).depth], r)
  BY <1>1, <1>2, <1>3, ReplyServes
<1>5. ASSUME NEW d \in 1 .. Len(s), s[d].do = Head(wire).do PROVE ReplyTrue(Given(s[d], r))'
  <2>1. Given(s[d], r).do = do
    BY <1>2, <1>5, GivenEntry
  <2> QED
    BY <2>1 DEF ReplyTrue
<1>6. /\ StackTrue(v)' /\ RemovalsNoted(v) /\ Len(v) = Len(s)
      /\ \A k \in 1 .. Len(s) : /\ v[k].op = s[k].op /\ v[k].do = s[k].do
                                /\ Unsettled(s[k]) => Unsettled(v[k])
                                /\ Removing(v[k]) => Removing(s[k])
  BY <1>2, <1>3, <1>4, <1>5, ServedKept DEF Served
<1>7. /\ StackTrue(t)' /\ RemovalsNoted(t) /\ Len(t) = Len(s)
      /\ \A k \in 1 .. Len(s) : /\ t[k].op = s[k].op /\ t[k].do = s[k].do
                                /\ Unsettled(s[k]) => Unsettled(t[k])
                                /\ Removing(t[k]) => Removing(s[k])
  BY <1>1, <1>6
<1>8. ASSUME NEW k \in 1 .. Len(t)
      PROVE  /\ t[k].op = stack[k].op /\ t[k].do = stack[k].do
             /\ Unsettled(stack[k]) => Unsettled(t[k])
             /\ Removing(t[k]) => Removing(stack[k])
  BY <1>3, <1>7 DEF Unsettled, Removing
<1>9. \A m \in moved : m \in moved'
  BY DEF Changed
<1>10. CASE Late
  BY <1>3, <1>4, <1>7, <1>8, <1>9, <1>10 DEF Changed
<1>11. CASE ~ Late
  <2>1. PICK d \in 1 .. Len(s) : /\ s[d].do = do /\ s[d].got = None /\ t[d] = Given(s[d], r)
    BY <1>1, <1>2, <1>4, <1>11
  <2>2. t[d].do = do /\ t[d].got = Ok(0)
    BY <1>1, <2>1, GivenEntry
  <2>3. ModeratorEntry(t[d])
    <3>1. ModeratorEntry(t[d])'
      BY <1>7 DEF StackTrue
    <3> QED
      BY <3>1 DEF ModeratorEntry, Reviewing
  <2>4. stack[d].got = None /\ d \in 1 .. Len(t)
    BY <1>3, <1>7, <2>1
  <2> QED
    BY <1>3, <1>4, <1>7, <1>8, <1>9, <2>2, <2>3, <2>4
<1> QED
  BY <1>10, <1>11

LEMMA HandleUserStep ==
  ASSUME WaitsInv, ModeratorKept, NEW do \in Asking, NEW as, HandleUser(do, as)
  PROVE  ModeratorKept'
<1>1. Asked(do) /\ UNCHANGED <<on, reviewed, lists>> /\ do \notin {"users", "books", "reviews"}
  BY DEF HandleUser, Asking
<1>2. CASE session
  <2>1. PICK names, t : names = {"users"} /\ t = stack'
    OBVIOUS
  <2>2. Changed(names) /\ on' \subseteq Books
    BY <1>1, <1>2, <2>1 DEF HandleUser, ModeratorKept, ListTypes
  <2>3. /\ Len(t) = Len(stack) /\ InTurn(wire, stack)' /\ Ordered'
        /\ StackTrue(t)' /\ RemovalsNoted(t) /\ \A m \in moved : m \in moved'
        /\ \A k \in 1 .. Len(t) : /\ t[k].op = stack[k].op /\ t[k].do = stack[k].do
                                  /\ Unsettled(stack[k]) => Unsettled(t[k])
                                  /\ Removing(t[k]) => Removing(stack[k])
        /\ \/ \A m \in names : m \in moved'
           \/ \E d \in 1 .. Len(t) : /\ t[d].do = do /\ t[d].got = Ok(0) /\ ModeratorEntry(t[d])
                                     /\ stack[d].got = None
    BY <1>1, <2>1, <2>2, ChangeServed
  <2>4. "users" \in moved' \/ \E k \in 1 .. Len(t) : t[k].op = "change"
    <3>1. ASSUME NEW d \in 1 .. Len(t), t[d].do = do, ModeratorEntry(t[d])
          PROVE  t[d].op = "change"
      BY <3>1 DEF ModeratorEntry, Reviewing, Asking
    <3> QED
      BY <2>1, <2>3, <3>1
  <2> QED
    BY <1>1, <2>1, <2>2, <2>3, <2>4, ChangedStep
<1>3. CASE ~ session
  <2>1. PICK r : r = Failed
    OBVIOUS
  <2>2. ReplyTo(stack, r) /\ UNCHANGED moderatorVars
    BY <1>1, <1>3, <2>1 DEF HandleUser, Refuse, moderatorVars, accounts
  <2> QED
    BY <1>1, <2>1, <2>2, AnswersStep
<1> QED
  BY <1>2, <1>3

LEMMA HandleBookStep ==
  ASSUME WaitsInv, ModeratorKept, NEW do \in {"moderate", "remove"}, NEW becomes,
         HandleBook(do, becomes), becomes \subseteq Books
  PROVE  ModeratorKept'
<1>1. Asked(do) /\ UNCHANGED <<status, reviewed, lists>> /\ do \notin {"users", "books", "reviews"}
  BY DEF HandleBook
<1>2. CASE session
  <2>1. PICK names, t : names = {"books", "opinions"} /\ t = stack'
    OBVIOUS
  <2>2. Changed(names) /\ on' \subseteq Books
    BY <1>1, <1>2, <2>1 DEF HandleBook
  <2>3. /\ Len(t) = Len(stack) /\ InTurn(wire, stack)' /\ Ordered'
        /\ StackTrue(t)' /\ RemovalsNoted(t) /\ \A m \in moved : m \in moved'
        /\ \A k \in 1 .. Len(t) : /\ t[k].op = stack[k].op /\ t[k].do = stack[k].do
                                  /\ Unsettled(stack[k]) => Unsettled(t[k])
                                  /\ Removing(t[k]) => Removing(stack[k])
        /\ \/ \A m \in names : m \in moved'
           \/ \E d \in 1 .. Len(t) : /\ t[d].do = do /\ t[d].got = Ok(0) /\ ModeratorEntry(t[d])
                                     /\ stack[d].got = None
    BY <1>1, <2>1, <2>2, ChangeServed
  <2>4. ASSUME NEW d \in 1 .. Len(t), t[d].do = do, t[d].got = Ok(0), ModeratorEntry(t[d]),
               stack[d].got = None
        PROVE  CatalogKept(t)' /\ OpinionsKept(t)'
    <3>1. t[d].op = do
      BY <2>4 DEF ModeratorEntry, Reviewing, Asking
    <3>2. CASE do = "moderate"
      <4>1. Unsettled(t[d])
        BY <2>4, <3>1, <3>2, RepliesDiffer DEF Unsettled
      <4> QED
        BY <4>1 DEF CatalogKept, OpinionsKept
    <3>3. CASE do = "remove"
      <4>1. Removing(stack[d])
        BY <2>3, <2>4, <3>1, <3>3 DEF Removing
      <4>2. CatalogDoubted(stack, d) /\ OpinionsDoubted(stack, d)
        BY <2>3, <4>1 DEF ModeratorKept, ListsKept, Doubted
      <4>3. UNCHANGED <<catalog, opinions>>
        BY <1>1 DEF lists
      <4>4. CatalogKept(t)'
        BY <2>3, <4>2, <4>3 DEF CatalogDoubted, CatalogKept, BooksAgree
      <4>5. OpinionsKept(t)'
        BY <2>3, <4>2, <4>3 DEF OpinionsDoubted, OpinionsKept, OpinionsAgree
      <4> QED
        BY <4>4, <4>5
    <3> QED
      BY <3>2, <3>3
  <2>5. ("books" \in moved' /\ "opinions" \in moved') \/ (CatalogKept(t)' /\ OpinionsKept(t)')
    BY <2>1, <2>3, <2>4
  <2> QED
    BY <1>1, <2>1, <2>2, <2>3, <2>5, ChangedStep
<1>3. CASE ~ session
  <2>1. PICK r : r = Failed
    OBVIOUS
  <2>2. ReplyTo(stack, r) /\ UNCHANGED moderatorVars
    BY <1>1, <1>3, <2>1 DEF HandleBook, Refuse, moderatorVars, accounts
  <2> QED
    BY <1>1, <2>1, <2>2, AnswersStep
<1> QED
  BY <1>2, <1>3

LEMMA OthersModerateStep == ASSUME WaitsInv, ModeratorKept, OthersModerate PROVE ModeratorKept'
<1>1. PICK s : s = Overtaken(stack)
  OBVIOUS
<1>2. stack' = s /\ UNCHANGED wire /\ UNCHANGED lists
  BY <1>1 DEF OthersModerate, Elsewhere
<1>3. /\ on' \subseteq Books /\ \A m \in moved : m \in moved'
      /\ status' = status \/ "users" \in moved'
      /\ on' = on \/ ("books" \in moved' /\ "opinions" \in moved')
      /\ reviewed' = reviewed \/ (Books \subseteq moved' /\ "opinions" \in moved')
  <2>1. on \subseteq Books
    BY DEF ModeratorKept, ListTypes
  <2> QED
    BY <2>1 DEF OthersModerate
<1>4. /\ InTurn(wire, s) /\ StackTrue(s)' /\ RemovalsNoted(s) /\ Len(s) = Len(stack)
      /\ \A k \in 1 .. Len(s) : /\ s[k].op = stack[k].op /\ s[k].do = stack[k].do
                                /\ s[k].got = stack[k].got
  BY <1>1, <1>3, OvertakenTrue
<1>5. InTurn(wire, stack)' /\ Ordered'
  BY <1>2, <1>4 DEF InTurn, ModeratorKept, Ordered
<1>6. \A k \in 1 .. Len(s) : /\ Unsettled(stack[k]) => Unsettled(s[k])
                             /\ Removing(s[k]) => Removing(stack[k])
  BY <1>4 DEF Unsettled, Removing
<1> QED
  BY <1>2, <1>3, <1>4, <1>5, <1>6, ChangedStep

LEMMA ModeratorServerStep == ASSUME WaitsInv, ModeratorKept, ModeratorServer PROVE ModeratorKept'
<1>1. on \subseteq Books
  BY DEF ModeratorKept, ListTypes
<1>2. ASSUME NEW do, NEW r, Asked(do), ReplyTo(stack, r), UNCHANGED moderatorVars,
             \/ r = Failed
             \/ do = "users" /\ r = Ok(status)
             \/ do = "books" /\ r = Ok(on)
             \/ do = "reviews" /\ r = Ok(reviewed)
      PROVE  ModeratorKept'
  BY <1>2, AnswersStep
<1>3. ASSUME NEW do, NEW x, Asked(do), Answer(x), UNCHANGED moderatorVars,
             \/ do = "users" /\ x = status
             \/ do = "books" /\ x = on
             \/ do = "reviews" /\ x = reviewed
      PROVE  ModeratorKept'
  <2>1. PICK r \in {Ok(x), Failed} : ReplyTo(stack, r)
    BY <1>3 DEF Answer
  <2> QED
    BY <1>2, <1>3, <2>1
<1>4. CASE HandleGetUsersList \/ HandleAllBooks \/ HandleReviews
  BY <1>3, <1>4 DEF HandleGetUsersList, HandleAllBooks, HandleReviews
<1>5. CASE HandleEditBook
  BY <1>2, <1>5 DEF HandleEditBook, Refuse
<1>6. CASE HandleBlockUser \/ HandleUnblockUser \/ HandleDeleteUser
  BY <1>6, HandleUserStep DEF HandleBlockUser, HandleUnblockUser, HandleDeleteUser, Asking
<1>7. CASE HandleRemoveBookByAdmin
  <2>1. PICK becomes : becomes = on \ {Arg.book}
    OBVIOUS
  <2>2. HandleBook("remove", becomes) /\ becomes \subseteq Books
    BY <1>1, <1>7, <2>1 DEF HandleRemoveBookByAdmin
  <2> QED
    BY <2>2, HandleBookStep
<1>8. CASE HandleModerateBook
  <2>1. PICK becomes : becomes = IF Arg.active THEN on \cup {Arg.book} ELSE on \ {Arg.book}
    OBVIOUS
  <2>2. HandleBook("moderate", becomes)
    BY <1>8, <2>1 DEF HandleModerateBook
  <2>3. Arg.book \in Books
    <3>1. wire # <<>> /\ Head(wire).do = "moderate" /\ IsSeq(wire)
      BY <2>2 DEF HandleBook, Asked, WaitsInv, Wired
    <3>2. Head(wire) = wire[1] /\ 1 \in DOMAIN wire
      BY <3>1, TailSeq, SeqShape
    <3>3. Head(wire) \in ToSet(wire)
      BY <3>2 DEF ToSet
    <3> QED
      BY <3>1, <3>3 DEF ModeratorKept, Ordered, Arg
  <2>4. becomes \subseteq Books
    BY <1>1, <2>1, <2>3
  <2> QED
    BY <2>2, <2>4, HandleBookStep
<1>9. CASE OthersModerate
  BY <1>9, OthersModerateStep
<1> QED
  BY <1>4, <1>5, <1>6, <1>7, <1>8, <1>9 DEF ModeratorServer

LEMMA ModeratorClientStep == ASSUME WaitsInv, ModeratorKept, ModeratorClient PROVE ModeratorKept'
<1>1. CASE ReadFigures
  <2>1. ASSUME AskUsers("") PROVE ModeratorKept'
    <3>1. PICK then \in Asking \cup {""} : then = ""
      OBVIOUS
    <3> QED
      BY <2>1, <3>1, AskUsersStep
  <2> QED
    BY <1>1, <2>1, ReadBooksStep DEF ReadFigures, ReadUsers
<1>2. CASE UsersReturn \/ ChangeReturns \/ BooksReturn \/ RemoveReturns \/ ModerateReturns
           \/ EditReturns
  BY <1>2, UsersReturnStep, ChangeReturnsStep, BooksReturnStep, RemoveReturnsStep,
     ModerateReturnsStep, EditReturnsStep
<1>3. CASE \E do \in {"block", "unblock", "delete"} : ChangeUser(do)
  BY <1>3, ChangeUserStep DEF Asking
<1>4. ASSUME NEW b \in Books,
             \/ DeleteBook(b) \/ UpdateBookInfo(b)
             \/ \E active \in BOOLEAN : SetBookStatus(b, active)
             \/ \E op \in {"reviews", "details"} : ShowBook(op, b)
      PROVE  ModeratorKept'
  BY <1>4, BookCommandStep, ShowBookStep
<1>5. CASE \E op \in {"reviews", "details"} : ShowReturns(op)
  BY <1>5, ShowReturnsStep
<1>6. CASE ReadOpinions \/ OpinionsReturn
  BY <1>6, ReadOpinionsStep, OpinionsReturnStep
<1> QED
  BY <1>1, <1>2, <1>3, <1>4, <1>5, <1>6 DEF ModeratorClient

\* The lists are given up; what waits goes on.
LEMMA ListsRefreshed ==
  ASSUME WaitsInv, ModeratorKept, AdminRefresh, shell = "moderator"
  PROVE  ModeratorKept'
<1>1. /\ Forget /\ people' = [people EXCEPT !.dirty = TRUE] /\ moved' = {}
      /\ UNCHANGED accounts /\ wire' = wire
  BY DEF AdminRefresh, RefreshLists
<1>2. ListTypes' /\ PerBookKept' /\ catalog'.dirty /\ opinions'.dirty
  BY <1>1, Forgotten
<1>3. people'.dirty
  <2>1. people = [list |-> people.list, dirty |-> people.dirty]
    BY DEF ModeratorKept, ListTypes
  <2>2. people' = [list |-> people.list, dirty |-> TRUE]
    BY <1>1, <2>1, Zenon
  <2> QED
    BY <2>2
<1>4. stack' = stack
  <2>1. DOMAIN stack = 1 .. Len(stack) /\ stack = [i \in DOMAIN stack |-> stack[i]]
    BY SeqShape DEF WaitsInv, Fits, Stacked, IsSeq
  <2>2. \A i \in DOMAIN stack : stack[i].op \notin {"panel", "refresh"}
    <3> SUFFICES ASSUME NEW i \in 1 .. Len(stack) PROVE stack[i].op \notin {"panel", "refresh"}
      BY <2>1
    <3>1. ModeratorEntry(stack[i])
      BY DEF ModeratorKept, StackTrue
    <3> QED
      BY <3>1 DEF ModeratorEntry, Reviewing
  <2>3. Overrun(Eager) = [i \in DOMAIN stack |-> stack[i]]
    BY <2>2, Zenon DEF Overrun
  <2> QED
    BY <2>1, <2>3 DEF AdminRefresh, RefreshFigures
<1>5. PICK t : t = stack
  OBVIOUS
<1>6. StackTrue(t) /\ RemovalsNoted(t) /\ InTurn(wire, t)
  BY <1>5 DEF ModeratorKept
<1>7. ListsKept(t)'
  BY <1>2, <1>3 DEF ListsKept, UsersKept, UsersAgree, CatalogKept, BooksAgree, OpinionsKept,
     OpinionsAgree, Doubted, CatalogDoubted, OpinionsDoubted
<1>8. StackTrue(stack)' /\ RemovalsNoted(stack)' /\ ListsKept(stack)'
  BY <1>1, <1>4, <1>5, <1>6, <1>7, KeptNow
<1>9. InTurn(wire, stack)' /\ Ordered'
  BY <1>1, <1>4, <1>5, <1>6 DEF InTurn, ModeratorKept, Ordered
<1> QED
  BY <1>2, <1>8, <1>9 DEF ModeratorKept

\* Requests are given up: no reply comes, and no list changes for it.
LEMMA ModeratorFault ==
  ASSUME WaitsInv, ModeratorKept, UNCHANGED moderatorVars,
         Lose \/ \E i \in DOMAIN stack : TimesOut(i)
  PROVE  ModeratorKept'
<1>1. PICK s, t : s = stack /\ t = stack'
  OBVIOUS
<1>2. /\ UNCHANGED <<people, catalog, perBook, opinions, moved>> /\ UNCHANGED accounts
      /\ UNCHANGED <<status, on, reviewed>>
  BY DEF moderatorVars, lists, accounts
<1>3. /\ InTurn(wire, stack)' /\ StackTrue(s) /\ RemovalsNoted(s) /\ ListsKept(s) /\ Len(s) \in Nat
      /\ ListTypes /\ PerBookKept
  BY <1>1, TurnFault, SeqShape DEF ModeratorKept, InTurn, WaitsInv, Fits, Stacked
<1>4. /\ Len(t) = Len(s)
      /\ \A k \in 1 .. Len(s) : t[k] = s[k] \/ (s[k].got = None /\ t[k] = Given(s[k], Failed))
      /\ \A w \in ToSet(wire') : \E v \in ToSet(wire) : w.do = v.do /\ w.arg = v.arg
  <2>1. CASE Lose
    BY <1>1, <2>1, LoseFits
  <2>2. ASSUME NEW i \in DOMAIN stack, TimesOut(i)
        PROVE  /\ Len(t) = Len(s)
               /\ \A k \in 1 .. Len(s) :
                    t[k] = s[k] \/ (s[k].got = None /\ t[k] = Given(s[k], Failed))
               /\ \A w \in ToSet(wire') : \E v \in ToSet(wire) : w.do = v.do /\ w.arg = v.arg
    BY <1>1, <2>2, TimesOutFits
  <2> QED
    BY <2>1, <2>2
<1>5. ASSUME NEW k \in 1 .. Len(s)
      PROVE  /\ t[k].op = s[k].op /\ t[k].do = s[k].do /\ t[k].arg = s[k].arg
             /\ t[k].old = s[k].old /\ (t[k] = s[k] \/ t[k].got = Failed)
             /\ Unsettled(s[k]) => Unsettled(t[k])
             /\ Removing(t[k]) => Removing(s[k])
  <2>1. CASE t[k] = s[k]
    BY <2>1
  <2>2. CASE s[k].got = None /\ t[k] = Given(s[k], Failed)
    <3>1. /\ t[k].op = s[k].op /\ t[k].do = s[k].do /\ t[k].arg = s[k].arg
          /\ t[k].old = s[k].old /\ t[k].got = Failed
      BY <2>2, GivenEntry
    <3> QED
      BY <2>2, <3>1, RepliesDiffer DEF Unsettled, Removing
  <2> QED
    BY <1>4, <2>1, <2>2
<1>6. ASSUME NEW k \in 1 .. Len(s)
      PROVE  ModeratorEntry(t[k]) /\ ReplyTrue(t[k]) /\ CollectedTrue(t, k)
  <2>1. ModeratorEntry(s[k]) /\ ReplyTrue(s[k]) /\ CollectedTrue(s, k)
    BY <1>3 DEF StackTrue
  <2>2. PICK e, f : e = t[k] /\ f = s[k]
    OBVIOUS
  <2>3. /\ e.op = f.op /\ e.do = f.do /\ e.arg = f.arg /\ e.old = f.old
        /\ ModeratorEntry(f) /\ ReplyTrue(f) /\ (e = f \/ e.got = Failed)
    BY <1>5, <2>1, <2>2
  <2>4. e.old \in BOOLEAN
    BY <2>3, Zenon DEF ModeratorEntry
  <2>5. ModeratorEntry(e)
    BY <2>3, <2>4 DEF ModeratorEntry, Reviewing
  <2>6. ReplyTrue(e)
    <3>1. CASE e.got = Failed
      BY <3>1, RepliesDiffer DEF ReplyTrue
    <3> QED
      BY <2>3, <3>1
  <2>7. CollectedTrue(t, k)
    <3>1. \A j \in 1 .. k - 1 : j \in 1 .. Len(s)
      BY <1>3
    <3>2. \A j \in 1 .. k - 1 : Unsettled(s[j]) => Unsettled(t[j])
      BY <1>5, <3>1
    <3>3. t[k].arg = s[k].arg /\ (s[k].old => t[k].old) /\ (Reviewing(t[k]) <=> Reviewing(s[k]))
      BY <1>5 DEF Reviewing
    <3> QED
      BY <2>1, <3>2, <3>3 DEF CollectedTrue
  <2> QED
    BY <2>2, <2>5, <2>6, <2>7
<1>7. StackTrue(t)
  BY <1>4, <1>6 DEF StackTrue
<1>8. RemovalsNoted(t)
  <2> SUFFICES ASSUME NEW d \in 1 .. Len(s), NEW k \in 1 .. Len(s), d < k, Removing(t[d]),
                      Reviewing(t[k])
               PROVE  t[k].old
    BY <1>4 DEF RemovalsNoted
  <2>1. Removing(s[d]) /\ Reviewing(s[k]) /\ (s[k].old => t[k].old)
    BY <1>5 DEF Reviewing
  <2> QED
    BY <1>3, <2>1 DEF RemovalsNoted
<1>9. UsersKept(t)' /\ CatalogKept(t)' /\ OpinionsKept(t)'
  BY <1>2, <1>3, <1>4, <1>5 DEF ListsKept, UsersKept, UsersAgree, CatalogKept, BooksAgree,
     OpinionsKept, OpinionsAgree
<1>10. ASSUME NEW d \in 1 .. Len(t), Removing(t[d])
       PROVE  CatalogDoubted(t, d)' /\ OpinionsDoubted(t, d)'
  <2>1. CatalogDoubted(s, d) /\ OpinionsDoubted(s, d)
    BY <1>3, <1>4, <1>5, <1>10 DEF ListsKept, Doubted
  <2> QED
    BY <1>2, <1>4, <1>5, <2>1 DEF CatalogDoubted, OpinionsDoubted
<1>11. StackTrue(stack)' /\ RemovalsNoted(stack)' /\ ListsKept(stack)'
  BY <1>1, <1>2, <1>7, <1>8, <1>9, <1>10, KeptNow DEF ListsKept, Doubted
<1>12. ListTypes' /\ PerBookKept'
  BY <1>2, <1>3 DEF ListTypes, PerBookKept
<1>13. Ordered'
  BY <1>4 DEF ModeratorKept, Ordered
<1> QED
  BY <1>3, <1>11, <1>12, <1>13 DEF ModeratorKept

LEMMA ModeratorInvStep == WaitsInv /\ ModeratorInv /\ [Next]_vars => ModeratorInv'
<1> SUFFICES ASSUME WaitsInv, ModeratorInv, [Next]_vars PROVE ModeratorInv'
  OBVIOUS
<1>1. CASE Moderate
  BY <1>1, ModeratorClientStep, ModeratorServerStep DEF Moderate, ModeratorInv
<1>2. CASE AdminRefresh
  <2>1. CASE shell = "moderator"
    BY <1>2, <2>1, ListsRefreshed DEF AdminRefresh, ModeratorInv
  <2>2. CASE shell # "moderator"
    <3>1. ListsIdle /\ RefreshLists /\ UNCHANGED shell
      BY <1>2, <2>2 DEF AdminRefresh, ModeratorInv
    <3>2. PICK yes : yes = TRUE
      OBVIOUS
    <3>3. /\ people = [list |-> Blank, dirty |-> yes] /\ catalog = [list |-> {}, dirty |-> yes]
          /\ opinions = [list |-> {}, dirty |-> yes]
      BY <3>1, <3>2, Zenon DEF ListsIdle
    <3>4. /\ people' = [people EXCEPT !.dirty = yes] /\ catalog' = [catalog EXCEPT !.dirty = yes]
          /\ opinions' = [opinions EXCEPT !.dirty = yes]
      BY <3>1, <3>2, Zenon DEF RefreshLists, Forget
    <3>5. people' = people /\ catalog' = catalog /\ opinions' = opinions
      BY <3>3, <3>4
    <3>6. ListsIdle'
      BY <3>1, <3>5, Zenon DEF ListsIdle
    <3> QED
      BY <2>2, <3>1, <3>6 DEF ModeratorInv
  <2> QED
    BY <2>1, <2>2
<1>3. CASE Disconnect \/ GiveUp
  <2>1. /\ UNCHANGED <<shell, moderatorVars>> /\ UNCHANGED <<people, catalog, opinions>>
        /\ Lose \/ \E i \in DOMAIN stack : TimesOut(i)
    BY <1>3 DEF Disconnect, GiveUp, otherThanHome, moderatorVars, lists
  <2>2. ListsIdle => ListsIdle'
    BY <2>1, Zenon DEF ListsIdle
  <2> QED
    BY <2>1, <2>2, ModeratorFault DEF ModeratorInv
<1>4. CASE Watch \/ Read \/ Browse \/ Find
  <2>1. UNCHANGED <<shell, moderatorVars>> /\ shell # "moderator"
    BY <1>4 DEF Watch, Read, Browse, Find, otherThanHome
  <2>2. UNCHANGED <<people, catalog, opinions>>
    BY <2>1 DEF moderatorVars, lists
  <2>3. ListsIdle => ListsIdle'
    BY <2>2, Zenon DEF ListsIdle
  <2> QED
    BY <2>1, <2>3 DEF ModeratorInv
<1>5. CASE UNCHANGED vars
  <2>1. UNCHANGED <<shell, moderatorVars, stack, wire>>
    BY <1>5 DEF vars, waits, otherThanHome
  <2>2. UNCHANGED <<people, catalog, perBook, opinions, moved, status, on, reviewed>>
        /\ UNCHANGED accounts
    BY <2>1 DEF moderatorVars, lists, accounts
  <2>3. ListsIdle => ListsIdle'
    BY <2>2, Zenon DEF ListsIdle
  <2>4. ASSUME ModeratorKept PROVE ModeratorKept'
    <3>1. PICK t : t = stack
      OBVIOUS
    <3>2. StackTrue(t) /\ RemovalsNoted(t) /\ InTurn(wire, t) /\ ListsKept(t)
      BY <2>4, <3>1 DEF ModeratorKept
    <3>3. ListsKept(t)'
      BY <2>2, <3>2 DEF ListsKept, UsersKept, UsersAgree, CatalogKept, BooksAgree, OpinionsKept,
         OpinionsAgree, Doubted, CatalogDoubted, OpinionsDoubted
    <3>4. StackTrue(stack)' /\ RemovalsNoted(stack)' /\ ListsKept(stack)'
      BY <2>1, <2>2, <3>1, <3>2, <3>3, KeptNow
    <3>5. InTurn(wire, stack)' /\ Ordered' /\ ListTypes' /\ PerBookKept'
      BY <2>1, <2>2, <2>4, <3>1, <3>2 DEF InTurn, ModeratorKept, Ordered, ListTypes, PerBookKept
    <3> QED
      BY <3>4, <3>5 DEF ModeratorKept
  <2> QED
    BY <2>1, <2>3, <2>4 DEF ModeratorInv
<1> QED
  BY <1>1, <1>2, <1>3, <1>4, <1>5 DEF Next

LEMMA InitModerator == Init => ModeratorInv
<1> SUFFICES ASSUME stack = <<>>, wire = <<>>, ModeratorInit PROVE ModeratorInv
  BY DEF Init, WaitsInit
<1>1. PICK yes : yes = TRUE
  OBVIOUS
<1>2. /\ people = [list |-> Blank, dirty |-> yes] /\ catalog = [list |-> {}, dirty |-> yes]
      /\ opinions = [list |-> {}, dirty |-> yes] /\ perBook = [b \in Books |-> NotKept]
      /\ on = Books
  BY <1>1, Zenon DEF ModeratorInit
<1>3. ListsIdle
  BY <1>1, <1>2, Zenon DEF ListsIdle
<1>4. Len(stack) = 0 /\ DOMAIN stack = {} /\ ToSet(wire) = {} /\ DOMAIN wire = {}
  BY DEF ToSet
<1>5. ListTypes /\ PerBookKept
  <2>1. catalog.dirty \in BOOLEAN
    BY <1>1, <1>2
  <2> QED
    BY <1>2, <2>1 DEF ListTypes, PerBookKept
<1>6. people.dirty /\ catalog.dirty /\ opinions.dirty
  BY <1>1, <1>2
<1>7. InTurn(wire, stack) /\ StackTrue(stack) /\ RemovalsNoted(stack) /\ Ordered
  BY <1>4 DEF InTurn, StackTrue, RemovalsNoted, Ordered
<1>8. ListsKept(stack)
  BY <1>4, <1>6 DEF ListsKept, UsersKept, UsersAgree, CatalogKept, BooksAgree, OpinionsKept,
     OpinionsAgree, Doubted
<1> QED
  BY <1>3, <1>5, <1>7, <1>8 DEF ModeratorInv, ModeratorKept

LEMMA ModeratorSafe == WaitsInv /\ ModeratorInv => ListsAgree
<1> SUFFICES ASSUME ModeratorInv, stack = <<>> PROVE UsersAgree /\ BooksAgree /\ OpinionsAgree
  BY DEF ListsAgree, AtRest
<1>1. CASE shell = "moderator"
  <2>1. Len(stack) = 0 /\ ListsKept(stack)
    BY <1>1 DEF ModeratorInv, ModeratorKept
  <2> QED
    BY <2>1 DEF ListsKept, UsersKept, CatalogKept, OpinionsKept
<1>2. CASE shell # "moderator"
  <2>1. people.dirty /\ catalog.dirty /\ opinions.dirty
    <3>1. PICK yes : yes = TRUE
      OBVIOUS
    <3>2. /\ people = [list |-> Blank, dirty |-> yes] /\ catalog = [list |-> {}, dirty |-> yes]
          /\ opinions = [list |-> {}, dirty |-> yes]
      BY <1>2, <3>1, Zenon DEF ModeratorInv, ListsIdle
    <3> QED
      BY <3>1, <3>2
  <2> QED
    BY <2>1 DEF UsersAgree, BooksAgree, OpinionsAgree
<1> QED
  BY <1>1, <1>2

\* Once nothing is under way, the lists of users, books and reviews the
\* administrator's service holds to be up to date are the server's, however its
\* commands, readings and replies overlapped, but for changes made elsewhere or
\* after the client gave up (AdminService: users, allBooks, allReviews and what
\* each command forgets).
THEOREM ListsAreTheServers == Spec => []ListsAgree
<1>1. Init => WaitsInv /\ ModeratorInv
  BY InitWaits, InitModerator
<1>2. WaitsInv /\ ModeratorInv /\ [Next]_vars => (WaitsInv /\ ModeratorInv)'
  BY WaitsStep, ModeratorInvStep
<1> QED
  BY <1>1, <1>2, ModeratorSafe, PTL DEF Spec
=============================================================================
