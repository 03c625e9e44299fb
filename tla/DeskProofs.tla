------------------------------ MODULE DeskProofs ------------------------------
(***************************************************************************)
(* Proofs about Desk, for any bounds: what a client keeps of a publisher's *)
(* books and of the notifications agrees with the server once nothing is   *)
(* under way, and no title the page was told of is lost.                   *)
(***************************************************************************)
EXTENDS Desk, SequenceTheorems, FiniteSetTheorems, TLAPS

-----------------------------------------------------------------------------
(* How calls wait, and what they may ask.                                  *)

IsCall(e) ==
  /\ e = [do |-> e.do, arg |-> e.arg, got |-> e.got, old |-> e.old] /\ e.old \in BOOLEAN
  /\ e.got \in {None, Failed} \/ e.got = Ok(e.got.data)
IsRequest(w) == w = [do |-> w.do, arg |-> w.arg, depth |-> w.depth] /\ w.depth \in Nat

IsSeq(s) == s \in Seq(ToSet(s))
Stacked(s) == IsSeq(s) /\ \A i \in DOMAIN s : IsCall(s[i])
Wired(q) == IsSeq(q) /\ \A i \in DOMAIN q : IsRequest(q[i])

\* A request that is waited for is the only one of its place.
Linked(q, s) ==
  \A i \in DOMAIN q :
    LET d == q[i].depth IN
    d # 0 => /\ d \in DOMAIN s /\ s[d].got = None
             /\ s[d].do = q[i].do /\ s[d].arg = q[i].arg
             /\ \A j \in DOMAIN q : q[j].depth = d => j = i

OnBooks == {"update", "status", "promote", "unpromote"}
OfDesk == {"add", "analytics"} \cup OnBooks
OfFeed == {"feed", "read", "readAll"}

\* Who may have asked it, and of what.
Asks(c) ==
  /\ (c.do \in OfDesk /\ who = publisher) \/ (c.do \in OfFeed /\ who = reader)
  /\ c.do \in OnBooks => c.arg.book \in DOMAIN stock
  /\ c.do = "status" => c.arg.on \in BOOLEAN
  /\ c.do = "read" => c.arg.note \in RowsOf(reader)

Asked(q) == \A i \in DOMAIN q : Asks(q[i])

WaitsInv ==
  /\ Stacked(stack) /\ Wired(wire) /\ Linked(wire, stack)
  /\ Asked(stack) /\ Asked(wire) /\ Len(stack) <= MaxDepth

-----------------------------------------------------------------------------
(* What is kept, each variable by itself.                                  *)

Books == [on : BOOLEAN, off : BOOLEAN]
Row == [to : Users, read : BOOLEAN]
Item == [id : Nat, read : BOOLEAN]
IsNote(e) == e.is = "note"

\* A notification on its way is one of the user at the client.
IsEvent(e) ==
  e = [is |-> e.is, id |-> e.id] /\ (IsNote(e) => e.id \in DOMAIN rows /\ rows[e.id].to = session)
EventsFit == \A i \in DOMAIN events : IsEvent(events[i])

KeptInv ==
  /\ stock \in Seq(Books) /\ Len(stock) \in 1 .. MaxBooks
  /\ sold \in Nat /\ sold <= sales /\ sales \in 0 .. MaxSales /\ rows \in Seq(Row)
  /\ session \in {who, Nobody} /\ who \in Users \cup {Nobody}
  /\ desk \in BOOLEAN /\ (who = publisher => desk)
  /\ IsSeq(events) /\ EventsFit
  /\ skewed \in BOOLEAN /\ gaps \in BOOLEAN
  /\ calls \in 0 .. MaxCalls /\ promos \subseteq DOMAIN stock
  /\ feed \in Seq(Item) /\ Ids(feed) \subseteq RowsOf(reader)

-----------------------------------------------------------------------------
(* Titles.                                                                 *)

Good(e) == e.got.is = "ok"
Added(e) == e.do = "add" /\ Good(e)

\* Titles the server has and the page is yet to be told of.
Untold == {i \in DOMAIN stack : Added(stack[i])}

TitlesInv ==
  /\ told \in Nat /\ local \in 0 .. told /\ told + Len(stack) <= calls
  /\ told + Cardinality(Untold) <= Len(stock) - 1 + local

-----------------------------------------------------------------------------
(* Figures.                                                                *)

Noted == who = publisher /\ \E i \in DOMAIN events : IsNote(events[i])
OneShort == [books |-> Len(stock) - 1, sold |-> sold]

\* The figures kept are right but for the one title they are yet to be amended
\* for; with two such titles, the first amendment makes the second one old.
FiguresHold ==
  \/ analytics = Nothing \/ skewed \/ Noted
  \/ \E i \in Untold : stack[i].old
  \/ Untold = {} /\ analytics = Stats
  \/ \E i \in Untold : Untold = {i} /\ analytics = OneShort
  \/ \E i, j \in Untold : i # j

FetchedFigures(e) == e.do = "analytics" /\ Good(e)

FiguresInv ==
  /\ analytics # Nothing =>
       analytics \in [books : 1 .. MaxBooks + told, sold : 0 .. MaxSales]
  /\ FiguresHold
  /\ \A i \in DOMAIN stack : FetchedFigures(stack[i]) =>
       /\ stack[i].got.data \in [books : 1 .. MaxBooks, sold : 0 .. MaxSales]
       /\ stack[i].old \/ Noted \/ Untold # {} \/ stack[i].got.data = Stats

-----------------------------------------------------------------------------
(* Promotions.                                                             *)

Backed(b) == stock[b].off \/ b \in undone

PromotionsInv ==
  /\ PromotionsBacked
  /\ \A i \in DOMAIN stack :
       stack[i].do = "promote" /\ Good(stack[i]) => Backed(stack[i].arg.book)

-----------------------------------------------------------------------------
(* Notifications.                                                          *)

Pushed(n) == \E i \in DOMAIN events : IsNote(events[i]) /\ events[i].id = n

\* A fetch that will bring it, or will leave the list incomplete.
Brings(e, n) == e.do = "feed" /\ (~ Good(e) \/ e.old \/ n \in Ids(e.got.data))

Shown(n) == n \in Ids(feed) \/ Pushed(n) \/ \E i \in DOMAIN stack : Brings(stack[i], n)

\* What an item shows as read is read at the server.
Honest(c) == c.id \in RowsOf(reader) /\ (c.read => rows[c.id].read)
ReadFor(id) == rows[id].read \/ id \in swept

FeedInv ==
  /\ gaps \/ \A n \in RowsOf(reader) : Shown(n)
  /\ \A i \in DOMAIN feed : feed[i].read => ReadFor(feed[i].id)
  /\ \A i \in DOMAIN stack : Good(stack[i]) =>
       /\ stack[i].do = "feed" =>
            /\ stack[i].got.data \in Seq(Item)
            /\ \A j \in DOMAIN stack[i].got.data : Honest(stack[i].got.data[j])
       /\ stack[i].do = "read" => rows[stack[i].arg.note].read
       /\ stack[i].do = "readAll" => \A j \in DOMAIN feed : ReadFor(feed[j].id)

DeskInv == WaitsInv /\ KeptInv /\ TitlesInv /\ FiguresInv /\ PromotionsInv /\ FeedInv

-----------------------------------------------------------------------------
(* Sequences.                                                              *)

LEMMA SeqShape ==
  ASSUME NEW s, IsSeq(s)
  PROVE  /\ Len(s) \in Nat /\ DOMAIN s = 1 .. Len(s)
         /\ (s = <<>> <=> Len(s) = 0)
         /\ \A i \in 1 .. Len(s) : s[i] \in ToSet(s)
         /\ \A x \in ToSet(s) : \E i \in 1 .. Len(s) : s[i] = x
<1>1. Len(s) \in Nat /\ DOMAIN s = 1 .. Len(s)
  BY LenProperties DEF IsSeq
<1>2. s = <<>> <=> Len(s) = 0
  BY EmptySeq DEF IsSeq
<1> QED
  BY <1>1, <1>2 DEF ToSet

LEMMA SeqMade ==
  ASSUME NEW n \in Nat, NEW S, NEW f \in [1 .. n -> S]
  PROVE  IsSeq(f) /\ Len(f) = n
<1>1. f \in [1 .. n -> ToSet(f)]
  BY DEF ToSet
<1>2. IsSeq(f)
  BY <1>1, SeqDef DEF IsSeq
<1>3. 1 .. n = 1 .. Len(f) /\ Len(f) \in Nat
  BY <1>2, SeqShape
<1> QED
  BY <1>2, <1>3

LEMMA PushSeq ==
  ASSUME NEW s, IsSeq(s), NEW e
  PROVE  /\ IsSeq(Append(s, e)) /\ ToSet(Append(s, e)) = ToSet(s) \cup {e}
         /\ Len(Append(s, e)) = Len(s) + 1 /\ DOMAIN Append(s, e) = 1 .. Len(s) + 1
         /\ Append(s, e)[Len(s) + 1] = e
         /\ \A i \in 1 .. Len(s) : Append(s, e)[i] = s[i]
<1> DEFINE t == Append(s, e)
           S == ToSet(s) \cup {e}
<1>1. s \in Seq(S)
  BY SeqMonotonic DEF IsSeq
<1>2. /\ t \in Seq(S) /\ Len(t) = Len(s) + 1 /\ t[Len(s) + 1] = e
      /\ \A i \in 1 .. Len(s) : t[i] = s[i]
  BY <1>1, AppendProperties
<1>3. Len(s) \in Nat /\ DOMAIN s = 1 .. Len(s) /\ DOMAIN t = 1 .. Len(s) + 1
  BY <1>1, <1>2, LenProperties
<1> HIDE DEF t
<1>4. ToSet(t) = S
  BY <1>2, <1>3 DEF ToSet
<1> QED
  BY <1>2, <1>3, <1>4 DEF t, IsSeq

LEMMA FrontSeq ==
  ASSUME NEW s, IsSeq(s), s # <<>>
  PROVE  /\ IsSeq(Front(s)) /\ ToSet(s) = ToSet(Front(s)) \cup {Last(s)}
         /\ Len(s) \in Nat \ {0} /\ Len(Front(s)) = Len(s) - 1
         /\ Last(s) = s[Len(s)]
         /\ \A i \in 1 .. Len(s) - 1 : Front(s)[i] = s[i]
<1> DEFINE t == Front(s)
<1>1. /\ Len(s) \in Nat \ {0} /\ DOMAIN s = 1 .. Len(s)
      /\ \A i \in 1 .. Len(s) : s[i] \in ToSet(s)
  BY SeqShape
<1>2. /\ t \in Seq(ToSet(s)) /\ Len(t) = Len(s) - 1
      /\ \A i \in 1 .. Len(s) - 1 : t[i] = s[i]
  BY <1>1, SubSeqProperties DEF Front
<1>3. DOMAIN t = 1 .. Len(s) - 1 /\ Last(s) = s[Len(s)]
  BY <1>2, LenProperties DEF Last
<1>4. t \in [1 .. Len(s) - 1 -> ToSet(s)]
  BY <1>2, LenProperties
<1> HIDE DEF t
<1>5. ToSet(s) = ToSet(t) \cup {Last(s)}
  <2>1. \A i \in DOMAIN s : (i \in DOMAIN t /\ t[i] = s[i]) \/ s[i] = Last(s)
    BY <1>1, <1>2, <1>3
  <2>2. \A i \in DOMAIN t : i \in DOMAIN s /\ t[i] = s[i]
    BY <1>1, <1>2, <1>3
  <2>3. Len(s) \in DOMAIN s
    BY <1>1
  <2> QED
    BY <1>3, <2>1, <2>2, <2>3 DEF ToSet
<1>6. IsSeq(t)
  BY <1>1, <1>4, SeqMade
<1> QED
  BY <1>1, <1>2, <1>3, <1>5, <1>6 DEF t

LEMMA TailSeq ==
  ASSUME NEW s, IsSeq(s), s # <<>>
  PROVE  /\ IsSeq(Tail(s)) /\ ToSet(Tail(s)) \subseteq ToSet(s)
         /\ Len(s) \in Nat \ {0} /\ Len(Tail(s)) = Len(s) - 1
         /\ Head(s) = s[1] /\ Head(s) \in ToSet(s)
         /\ \A i \in 1 .. Len(s) - 1 : Tail(s)[i] = s[i + 1]
<1> DEFINE t == Tail(s)
<1>1. /\ Len(s) \in Nat \ {0} /\ DOMAIN s = 1 .. Len(s) /\ Head(s) = s[1]
      /\ \A i \in 1 .. Len(s) : s[i] \in ToSet(s)
  BY SeqShape
<1>2. /\ t \in Seq(ToSet(s)) /\ Len(t) = Len(s) - 1
      /\ \A i \in 1 .. Len(s) - 1 : t[i] = s[i + 1]
  BY HeadTailProperties DEF IsSeq
<1>3. DOMAIN t = 1 .. Len(s) - 1 /\ t \in [1 .. Len(s) - 1 -> ToSet(s)]
  BY <1>2, LenProperties
<1> HIDE DEF t
<1>4. IsSeq(t)
  BY <1>1, <1>3, SeqMade
<1>5. ToSet(t) \subseteq ToSet(s)
  BY <1>1, <1>2, <1>3 DEF ToSet
<1> QED
  BY <1>1, <1>2, <1>4, <1>5 DEF t
Below(S, R, x) == {t \in S : <<t, x>> \in R}
Orders(R, S) ==
  /\ \A s, t \in S : s # t => <<s, t>> \in R \/ <<t, s>> \in R
  /\ \A s \in S : <<s, s>> \notin R
  /\ \A s, t, u \in S : <<s, t>> \in R /\ <<t, u>> \in R => <<s, u>> \in R

LEMMA Ranked ==
  ASSUME NEW S, IsFiniteSet(S), NEW R, Orders(R, S)
  PROVE  /\ \A k \in 1 .. Cardinality(S) : \E x \in S : Cardinality(Below(S, R, x)) = k - 1
         /\ \A x \in S : \E k \in 1 .. Cardinality(S) : Cardinality(Below(S, R, x)) = k - 1
         /\ \A x, y \in S : Cardinality(Below(S, R, x)) = Cardinality(Below(S, R, y)) => x = y
<1> DEFINE n == Cardinality(S)
           f == [x \in S |-> Cardinality(Below(S, R, x)) + 1]
<1>1. n \in Nat
  BY FS_CardinalityType
<1>2. ASSUME NEW x \in S
      PROVE  /\ IsFiniteSet(Below(S, R, x)) /\ Cardinality(Below(S, R, x)) \in Nat
             /\ Cardinality(Below(S, R, x)) < n
  <2>1. Below(S, R, x) \in SUBSET S /\ x \notin Below(S, R, x)
    BY DEF Below, Orders
  <2>2. /\ IsFiniteSet(Below(S, R, x)) /\ Cardinality(Below(S, R, x)) <= n
        /\ (n = Cardinality(Below(S, R, x)) => S = Below(S, R, x))
    BY <2>1, FS_Subset
  <2> QED
    BY <1>1, <2>1, <2>2, FS_CardinalityType
<1>3. ASSUME NEW x \in S, NEW y \in S, <<x, y>> \in R
      PROVE  Cardinality(Below(S, R, x)) < Cardinality(Below(S, R, y))
  <2>1. Below(S, R, x) \in SUBSET Below(S, R, y)
    BY <1>3 DEF Below, Orders
  <2>2. x \in Below(S, R, y) /\ x \notin Below(S, R, x)
    BY <1>3 DEF Below, Orders
  <2>3. /\ Cardinality(Below(S, R, x)) <= Cardinality(Below(S, R, y))
        /\ Cardinality(Below(S, R, x)) # Cardinality(Below(S, R, y))
    BY <1>2, <2>1, <2>2, FS_Subset
  <2> QED
    BY <1>2, <2>3
<1>4. f \in [S -> 1 .. n]
  BY <1>1, <1>2
<1>5. ASSUME NEW x \in S, NEW y \in S, f[x] = f[y], x # y
      PROVE  FALSE
  <2>1. <<x, y>> \in R \/ <<y, x>> \in R
    BY <1>5 DEF Orders
  <2>2. Cardinality(Below(S, R, x)) = Cardinality(Below(S, R, y))
    BY <1>2, <1>5
  <2> QED
    BY <1>2, <1>3, <2>1, <2>2
<1>6. f \in Injection(S, 1 .. n)
  BY <1>4, <1>5 DEF Injection, IsInjective
<1>7. IsFiniteSet(1 .. n) /\ Cardinality(1 .. n) = n
  BY <1>1, FS_Interval
<1>8. f \in Surjection(S, 1 .. n)
  BY <1>6, <1>7, FS_Injection
<1>9. ASSUME NEW k \in 1 .. n
      PROVE  \E x \in S : Cardinality(Below(S, R, x)) = k - 1
  <2>1. PICK x \in S : f[x] = k
    BY <1>8 DEF Surjection
  <2> QED
    BY <1>2, <2>1
<1>10. ASSUME NEW x \in S
       PROVE  \E k \in 1 .. n : Cardinality(Below(S, R, x)) = k - 1
  <2>1. f[x] \in 1 .. n /\ Cardinality(Below(S, R, x)) = f[x] - 1
    BY <1>2, <1>4
  <2> QED
    BY <2>1
<1>11. \A x, y \in S : Cardinality(Below(S, R, x)) = Cardinality(Below(S, R, y)) => x = y
  BY <1>5
<1> QED
  BY <1>9, <1>10, <1>11

\* Every nonempty set of naturals has a least member.
LEMMA LeastOf ==
  ASSUME NEW T \in SUBSET Nat, T # {}
  PROVE  Min(T) \in T /\ \A i \in T : Min(T) <= i
<1>1. PICK m \in T : TRUE
  OBVIOUS
<1> DEFINE S == {i \in T : i <= m}
           R == {p \in Nat \X Nat : p[1] < p[2]}
<1>2. S \in SUBSET Nat /\ \A s \in S : s <= m
  OBVIOUS
<1>3. IsFiniteSet(S)
  BY <1>1, <1>2, FS_BoundedSetOfNaturals
<1>4. \A s, t \in Nat : <<s, t>> \in R <=> s < t
  OBVIOUS
<1>5. Orders(R, S)
  BY <1>2, <1>4 DEF Orders
<1>6. Cardinality(S) \in Nat /\ Cardinality(S) # 0
  BY <1>1, <1>3, FS_CardinalityType, FS_EmptySet
<1>7. PICK x \in S : Cardinality(Below(S, R, x)) = 0
  <2>1. 1 \in 1 .. Cardinality(S)
    BY <1>6
  <2> HIDE DEF S, R
  <2>2. PICK x \in S : Cardinality(Below(S, R, x)) = 1 - 1
    BY <1>3, <1>5, <2>1, Ranked
  <2> QED
    BY <2>2
<1>8. Below(S, R, x) = {}
  <2>1. Below(S, R, x) \in SUBSET S
    BY DEF Below
  <2> QED
    BY <1>3, <1>7, <2>1, FS_Subset, FS_EmptySet
<1>9. \A i \in S : ~ (i < x)
  BY <1>2, <1>4, <1>8 DEF Below
<1>10. x \in T /\ \A i \in T : x <= i
  BY <1>1, <1>9
<1> QED
  BY <1>10 DEF Min

-----------------------------------------------------------------------------
(* What steps do to the calls that wait.                                   *)

Entry(do, arg) == [do |-> do, arg |-> arg, got |-> None, old |-> FALSE]
Given(e, r) == [do |-> e.do, arg |-> e.arg, got |-> r, old |-> e.old]
AgedCall(e) == IF e.got # None THEN [e EXCEPT !.old = TRUE] ELSE e
IsReply(r) == r = Failed \/ r = Ok(r.data)
Fits(q, s) == Stacked(s) /\ Wired(q) /\ Linked(q, s)

\* The calls of t ask what calls of s have asked.
From(t, s) ==
  \A i \in DOMAIN t : \E j \in DOMAIN s : t[i].do = s[j].do /\ t[i].arg = s[j].arg

\* The same call, with the same good reply or without one.
Follows(e, f) ==
  /\ f.do = e.do /\ f.arg = e.arg /\ (Good(f) <=> Good(e))
  /\ (Good(e) => f.got = e.got) /\ (e.old => f.old)

\* As far as the calls of D go, nothing has been answered well or has returned.
Calm(D, s, t) ==
  /\ \A i \in DOMAIN s : s[i].do \in D => i \in DOMAIN t /\ Follows(s[i], t[i])
  /\ \A i \in DOMAIN t : t[i].do \in D /\ Good(t[i]) => i \in DOMAIN s /\ Follows(s[i], t[i])

Everything == OfDesk \cup OfFeed

LEMMA Outcomes ==
  /\ None # Failed /\ None.is # "ok" /\ Failed.is # "ok"
  /\ \A x : Ok(x) # None /\ Ok(x).is = "ok" /\ Ok(x).data = x /\ Ok(x) # Failed
  /\ \A r : IsReply(r) => r # None /\ (r.is = "ok" => r = Ok(r.data))
  BY DEF None, Failed, Ok, IsReply

LEMMA EntryIs ==
  ASSUME NEW do, NEW arg
  PROVE  /\ IsCall(Entry(do, arg)) /\ Entry(do, arg).do = do /\ Entry(do, arg).arg = arg
         /\ Entry(do, arg).got = None /\ ~ Entry(do, arg).old /\ ~ Good(Entry(do, arg))
  BY DEF IsCall, Entry, Good, None

LEMMA GivenIs ==
  ASSUME NEW e, IsCall(e), NEW r, IsReply(r)
  PROVE  /\ [e EXCEPT !.got = r] = Given(e, r) /\ IsCall(Given(e, r))
         /\ Given(e, r).do = e.do /\ Given(e, r).arg = e.arg
         /\ Given(e, r).got = r /\ Given(e, r).old = e.old
  BY DEF IsCall, Given, IsReply

LEMMA AgedIs ==
  ASSUME NEW e, IsCall(e)
  PROVE  /\ IsCall(AgedCall(e)) /\ Follows(e, AgedCall(e)) /\ AgedCall(e).got = e.got
         /\ (e.got # None => AgedCall(e).old)
<1>1. CASE e.got = None
  BY <1>1 DEF AgedCall, Follows
<1>2. CASE e.got # None
  <2>1. AgedCall(e) = [do |-> e.do, arg |-> e.arg, got |-> e.got, old |-> TRUE]
    BY <1>2 DEF AgedCall, IsCall
  <2> QED
    BY <2>1 DEF IsCall, Follows, Good
<1> QED
  BY <1>1, <1>2

LEMMA FollowsItself ==
  ASSUME NEW e PROVE Follows(e, e)
  BY DEF Follows

LEMMA AgedStack ==
  ASSUME NEW s, Stacked(s), NEW q, Linked(q, s)
  PROVE  /\ Stacked(Aged(s)) /\ Linked(q, Aged(s)) /\ Len(Aged(s)) = Len(s)
         /\ DOMAIN Aged(s) = DOMAIN s
         /\ From(Aged(s), s) /\ \A D : Calm(D, s, Aged(s))
         /\ \A i \in DOMAIN s :
              /\ Follows(s[i], Aged(s)[i]) /\ Aged(s)[i].got = s[i].got
              /\ s[i].got # None => Aged(s)[i].old
<1>1. Len(s) \in Nat /\ DOMAIN s = 1 .. Len(s)
  BY SeqShape DEF Stacked
<1>2. Aged(s) = [i \in 1 .. Len(s) |-> AgedCall(s[i])]
  BY <1>1 DEF Aged, AgedCall
<1> DEFINE t == Aged(s)
<1>3. /\ DOMAIN t = 1 .. Len(s) /\ \A i \in 1 .. Len(s) : t[i] = AgedCall(s[i])
      /\ t \in [1 .. Len(s) -> ToSet(t)]
  BY <1>2 DEF ToSet
<1> HIDE DEF t
<1>4. \A i \in 1 .. Len(s) : /\ IsCall(t[i]) /\ Follows(s[i], t[i])
                            /\ t[i].got = s[i].got /\ (s[i].got # None => t[i].old)
  BY <1>1, <1>3, AgedIs DEF Stacked
<1>5. IsSeq(t) /\ Len(t) = Len(s)
  BY <1>1, <1>3, SeqMade
<1>6. Stacked(t)
  BY <1>3, <1>4, <1>5 DEF Stacked
<1>7. From(t, s) /\ \A D : Calm(D, s, t)
  BY <1>1, <1>3, <1>4 DEF From, Calm, Follows
<1>8. Linked(q, t)
  BY <1>1, <1>3, <1>4 DEF Linked, Follows
<1> QED
  BY <1>1, <1>3, <1>4, <1>5, <1>6, <1>7, <1>8 DEF t

LEMMA SendFits ==
  ASSUME Fits(wire, stack), NEW do, NEW arg, Send(do, arg)
  PROVE  /\ Fits(wire', stack') /\ Len(stack') = Len(stack) + 1 /\ Len(stack) \in Nat
         /\ DOMAIN stack = 1 .. Len(stack) /\ DOMAIN stack' = 1 .. Len(stack) + 1
         /\ stack'[Len(stack) + 1] = Entry(do, arg)
         /\ \A i \in 1 .. Len(stack) : stack'[i] = stack[i]
         /\ \A i \in DOMAIN wire' : \/ i \in DOMAIN wire /\ wire'[i] = wire[i]
                                    \/ wire'[i].do = do /\ wire'[i].arg = arg
         /\ \A D : Calm(D, stack, stack')
<1> DEFINE e == Entry(do, arg)
           n == Len(stack)
           m == Len(wire)
           w == [do |-> do, arg |-> arg, depth |-> n + 1]
<1>1. stack' = Append(stack, e) /\ wire' = Append(wire, w)
  BY DEF Send, Entry
<1>2. /\ n \in Nat /\ DOMAIN stack = 1 .. n /\ m \in Nat /\ DOMAIN wire = 1 .. m
      /\ IsCall(e) /\ e.got = None /\ e.do = do /\ e.arg = arg /\ ~ Good(e)
  BY SeqShape, EntryIs DEF Fits, Stacked, Wired
<1>3. IsRequest(w) /\ w.depth = n + 1 /\ w.do = do /\ w.arg = arg
  BY <1>2 DEF IsRequest
<1> HIDE DEF e, w
<1>4. /\ IsSeq(stack') /\ Len(stack') = n + 1 /\ DOMAIN stack' = 1 .. n + 1
      /\ stack'[n + 1] = e /\ \A i \in 1 .. n : stack'[i] = stack[i]
  BY <1>1, PushSeq DEF Fits, Stacked
<1>5. /\ IsSeq(wire') /\ DOMAIN wire' = 1 .. m + 1
      /\ wire'[m + 1] = w /\ \A i \in 1 .. m : wire'[i] = wire[i]
  BY <1>1, PushSeq DEF Fits, Wired
<1>6. Stacked(stack')
  BY <1>2, <1>4 DEF Fits, Stacked
<1>7. Wired(wire')
  BY <1>2, <1>3, <1>5 DEF Fits, Wired
<1>8. Linked(wire', stack')
  <2>1. /\ \A i \in 1 .. m : wire[i].depth \in Nat /\ wire[i].depth # n + 1
        /\ \A i \in 1 .. m : wire[i].depth # 0 =>
             LET d == wire[i].depth IN
             /\ d \in 1 .. n /\ stack[d].got = None
             /\ stack[d].do = wire[i].do /\ stack[d].arg = wire[i].arg
             /\ \A j \in 1 .. m : wire[j].depth = d => j = i
    BY <1>2 DEF Fits, Linked, Wired, IsRequest
  <2> SUFFICES ASSUME NEW i \in DOMAIN wire', wire'[i].depth # 0
               PROVE  LET d == wire'[i].depth IN
                      /\ d \in DOMAIN stack' /\ stack'[d].got = None
                      /\ stack'[d].do = wire'[i].do /\ stack'[d].arg = wire'[i].arg
                      /\ \A j \in DOMAIN wire' : wire'[j].depth = d => j = i
    BY DEF Linked
  <2>2. CASE i = m + 1
    BY <1>2, <1>3, <1>4, <1>5, <2>1, <2>2
  <2>3. CASE i \in 1 .. m
    BY <1>2, <1>3, <1>4, <1>5, <2>1, <2>3, SMTT(30)
  <2> QED
    BY <1>2, <1>5, <2>2, <2>3
<1>9. \A i \in DOMAIN wire' : \/ i \in DOMAIN wire /\ wire'[i] = wire[i]
                              \/ wire'[i].do = do /\ wire'[i].arg = arg
  BY <1>2, <1>3, <1>5
<1>10. ASSUME NEW D PROVE Calm(D, stack, stack')
  BY <1>2, <1>4, FollowsItself DEF Calm
<1> QED
  BY <1>2, <1>4, <1>6, <1>7, <1>8, <1>9, <1>10 DEF Fits, e

LEMMA ReplyFits ==
  ASSUME Fits(wire, stack), wire # <<>>, NEW r, IsReply(r), Reply(Head(wire), r)
  PROVE  /\ Fits(wire', stack') /\ Len(stack') = Len(stack) /\ DOMAIN stack' = DOMAIN stack
         /\ From(wire', wire) /\ From(stack', stack)
         /\ 1 \in DOMAIN wire /\ Head(wire) = wire[1] /\ Head(wire).depth \in Nat
         /\ LET d == Head(wire).depth IN
            /\ \A i \in DOMAIN stack : i # d => stack'[i] = stack[i]
            /\ d # 0 => /\ d \in DOMAIN stack /\ stack[d].got = None
                        /\ stack[d].do = Head(wire).do /\ stack[d].arg = Head(wire).arg
                        /\ stack'[d] = Given(stack[d], r)
            /\ d = 0 => stack' = stack
         /\ \A D : r = Failed \/ Head(wire).do \notin D => Calm(D, stack, stack')
<1> DEFINE d == Head(wire).depth
           n == Len(stack)
           m == Len(wire)
<1>1. /\ n \in Nat /\ DOMAIN stack = 1 .. n
      /\ \A i \in 1 .. n : stack[i] \in ToSet(stack) /\ IsCall(stack[i])
  BY SeqShape DEF Fits, Stacked
<1>2. /\ IsSeq(wire') /\ m \in Nat \ {0} /\ Len(wire') = m - 1
      /\ Head(wire) = wire[1]
      /\ \A i \in 1 .. m - 1 : wire'[i] = wire[i + 1]
  BY TailSeq DEF Reply, Fits, Wired
<1>3. DOMAIN wire = 1 .. m /\ DOMAIN wire' = 1 .. m - 1
  BY <1>2, SeqShape DEF Fits, Wired
<1>4. Wired(wire') /\ d \in Nat /\ From(wire', wire)
  <2>1. \A i \in 1 .. m : IsRequest(wire[i])
    BY <1>3 DEF Fits, Wired
  <2>2. \A i \in 1 .. m - 1 : i + 1 \in 1 .. m /\ 1 \in 1 .. m
    BY <1>2
  <2>3. Wired(wire')
    BY <1>2, <1>3, <2>1, <2>2 DEF Wired
  <2>4. From(wire', wire)
    BY <1>2, <1>3, <2>2 DEF From
  <2>5. d \in Nat
    <3>1. 1 \in 1 .. m
      BY <1>2
    <3> QED
      BY <1>2, <2>1, <3>1 DEF IsRequest
  <2> QED
    BY <2>3, <2>4, <2>5
<1>5. \A i \in DOMAIN wire' : LET c == wire'[i].depth IN
         c # 0 => /\ c # d /\ c \in 1 .. n /\ stack[c].got = None
                  /\ stack[c].do = wire'[i].do /\ stack[c].arg = wire'[i].arg
                  /\ \A j \in DOMAIN wire' : wire'[j].depth = c => j = i
  <2>1. Linked(wire, stack)
    BY DEF Fits
  <2> SUFFICES ASSUME NEW i \in DOMAIN wire', wire'[i].depth # 0
               PROVE  LET c == wire'[i].depth IN
                      /\ c # d /\ c \in 1 .. n /\ stack[c].got = None
                      /\ stack[c].do = wire'[i].do /\ stack[c].arg = wire'[i].arg
                      /\ \A j \in DOMAIN wire' : wire'[j].depth = c => j = i
    OBVIOUS
  <2>2. i + 1 \in 1 .. m /\ 1 \in 1 .. m /\ i + 1 # 1 /\ wire'[i] = wire[i + 1]
    BY <1>2, <1>3
  <2>3. \A j \in DOMAIN wire' :
          j + 1 \in 1 .. m /\ wire'[j] = wire[j + 1] /\ (j + 1 = i + 1 => j = i)
    BY <1>2, <1>3
  <2>4. LET c == wire[i + 1].depth IN
        /\ c \in 1 .. n /\ stack[c].got = None
        /\ stack[c].do = wire[i + 1].do /\ stack[c].arg = wire[i + 1].arg
        /\ \A j \in 1 .. m : wire[j].depth = c => j = i + 1
    BY <1>1, <1>3, <2>1, <2>2 DEF Linked
  <2>5. wire[1].depth # wire[i + 1].depth
    BY <2>2, <2>4
  <2> QED
    BY <1>2, <2>2, <2>3, <2>4, <2>5
<1>6. CASE d = 0
  <2>1. stack' = stack
    BY <1>6 DEF Reply
  <2>2. Linked(wire', stack)
    BY <1>1, <1>5 DEF Linked
  <2>3. Fits(wire', stack')
    BY <1>4, <2>1, <2>2 DEF Fits
  <2>4. From(stack', stack) /\ \A D : Calm(D, stack, stack')
    BY <2>1, FollowsItself DEF From, Calm
  <2> QED
    BY <1>1, <1>2, <1>3, <1>4, <1>6, <2>1, <2>3, <2>4
<1>7. CASE d # 0
  <2>1. /\ d \in 1 .. n /\ stack[d].got = None /\ stack[d].do = Head(wire).do
        /\ stack[d].arg = Head(wire).arg
    BY <1>1, <1>2, <1>3, <1>7 DEF Fits, Linked
  <2>2. stack' = [stack EXCEPT ![d].got = r]
    BY <1>7 DEF Reply
  <2>3. stack' = [i \in 1 .. n |-> IF i = d THEN Given(stack[d], r) ELSE stack[i]]
    <3>1. [stack[d] EXCEPT !.got = r] = Given(stack[d], r)
      BY <1>1, <2>1, GivenIs
    <3>2. stack = [i \in 1 .. n |-> stack[i]]
      BY <1>1, LenProperties DEF Fits, Stacked, IsSeq
    <3> QED
      BY <2>1, <2>2, <3>1, <3>2
  <2>4. /\ \A i \in 1 .. n : i # d => stack'[i] = stack[i]
        /\ stack'[d] = Given(stack[d], r) /\ DOMAIN stack' = 1 .. n
    BY <2>1, <2>3
  <2>5. stack' \in [1 .. n -> ToSet(stack) \cup {Given(stack[d], r)}]
    BY <1>1, <2>3
  <2>6. IsSeq(stack') /\ Len(stack') = n
    BY <1>1, <2>5, SeqMade
  <2>7. /\ IsCall(Given(stack[d], r)) /\ stack'[d].do = stack[d].do
        /\ stack'[d].arg = stack[d].arg /\ stack'[d].got = r /\ stack'[d].old = stack[d].old
    BY <1>1, <2>1, <2>4, GivenIs
  <2>8. Stacked(stack')
    BY <1>1, <2>4, <2>6, <2>7 DEF Stacked
  <2>9. Linked(wire', stack')
    BY <1>5, <2>4 DEF Linked
  <2>10. Fits(wire', stack')
    BY <1>4, <2>8, <2>9 DEF Fits
  <2>11. From(stack', stack)
    BY <1>1, <2>4, <2>7 DEF From
  <2>12. ASSUME NEW D, r = Failed \/ Head(wire).do \notin D PROVE Calm(D, stack, stack')
    <3>1. ASSUME r = Failed PROVE Follows(stack[d], stack'[d])
      BY <2>1, <2>7, <3>1, Outcomes DEF Follows, Good
    <3>2. \A i \in 1 .. n : stack[i].do \in D => Follows(stack[i], stack'[i])
      BY <2>1, <2>4, <2>12, <3>1, FollowsItself
    <3>3. \A i \in 1 .. n : stack'[i].do = stack[i].do
      BY <2>4, <2>7
    <3> QED
      BY <1>1, <2>4, <3>2, <3>3 DEF Calm
  <2> QED
    BY <1>1, <1>2, <1>3, <1>4, <1>7, <2>1, <2>4, <2>6, <2>10, <2>11, <2>12
<1> QED
  BY <1>6, <1>7

\* The innermost call returns.
LEMMA FrontFits ==
  ASSUME Fits(wire, stack), NEW do, Returned(do)
  PROVE  LET n == Len(stack) IN
         /\ Fits(wire, Front(stack)) /\ n \in Nat \ {0} /\ Len(Front(stack)) = n - 1
         /\ DOMAIN stack = 1 .. n /\ DOMAIN Front(stack) = 1 .. n - 1
         /\ Innermost = stack[n] /\ IsCall(Innermost) /\ Innermost.do = do
         /\ Innermost.got # None /\ (Good(Innermost) <=> Worked)
         /\ \A i \in 1 .. n - 1 : Front(stack)[i] = stack[i]
         /\ From(Front(stack), stack)
         /\ \A D : do \notin D => Calm(D, stack, Front(stack))
<1>1. stack # <<>> /\ Innermost.do = do /\ Innermost.got # None
  BY DEF Returned
<1>2. /\ IsSeq(Front(stack)) /\ Len(stack) \in Nat \ {0}
      /\ Len(Front(stack)) = Len(stack) - 1 /\ Innermost = stack[Len(stack)]
      /\ \A i \in 1 .. Len(stack) - 1 : Front(stack)[i] = stack[i]
  BY <1>1, FrontSeq DEF Fits, Stacked, Innermost
<1>3. DOMAIN stack = 1 .. Len(stack) /\ DOMAIN Front(stack) = 1 .. Len(stack) - 1
  BY <1>2, SeqShape DEF Fits, Stacked
<1>4. Stacked(Front(stack)) /\ IsCall(Innermost)
  BY <1>2, <1>3 DEF Fits, Stacked
<1>5. Linked(wire, Front(stack))
  BY <1>1, <1>2, <1>3 DEF Fits, Linked
<1>6. From(Front(stack), stack)
  BY <1>2, <1>3 DEF From
<1>7. ASSUME NEW D, do \notin D PROVE Calm(D, stack, Front(stack))
  <2> DEFINE t == Front(stack)
  <2>1. \A i \in 1 .. Len(stack) - 1 : i \in 1 .. Len(stack) /\ t[i] = stack[i]
    BY <1>2
  <2>2. \A i \in 1 .. Len(stack) : stack[i].do \in D => i \in 1 .. Len(stack) - 1
    BY <1>1, <1>2, <1>7
  <2> HIDE DEF t
  <2> QED
    BY <1>3, <2>1, <2>2, FollowsItself DEF Calm, t
<1> QED
  BY <1>1, <1>2, <1>3, <1>4, <1>5, <1>6, <1>7 DEF Fits, Good, Worked

LEMMA TimesOutFits ==
  ASSUME Fits(wire, stack), NEW k \in DOMAIN stack, TimesOut(k)
  PROVE  /\ Fits(wire', stack') /\ Len(stack') = Len(stack) /\ DOMAIN stack' = DOMAIN stack
         /\ From(wire', wire) /\ From(stack', stack)
         /\ \A D : Calm(D, stack, stack')
<1> DEFINE n == Len(stack)
           m == Len(wire)
<1>1. /\ n \in Nat /\ DOMAIN stack = 1 .. n /\ m \in Nat /\ DOMAIN wire = 1 .. m
      /\ \A i \in 1 .. n : stack[i] \in ToSet(stack) /\ IsCall(stack[i])
      /\ \A i \in 1 .. m : wire[i] \in ToSet(wire) /\ IsRequest(wire[i])
  BY SeqShape DEF Fits, Stacked, Wired
<1>2. IsReply(Failed) /\ stack[k].got = None
  BY DEF IsReply, TimesOut
<1>3. stack' = [i \in 1 .. n |-> IF i = k THEN Given(stack[k], Failed) ELSE stack[i]]
  <2>1. [stack[k] EXCEPT !.got = Failed] = Given(stack[k], Failed)
    BY <1>1, <1>2, GivenIs
  <2>2. stack = [i \in 1 .. n |-> stack[i]]
    BY <1>1, LenProperties DEF Fits, Stacked, IsSeq
  <2> QED
    BY <1>1, <2>1, <2>2 DEF TimesOut
<1>4. stack' \in [1 .. n -> ToSet(stack) \cup {Given(stack[k], Failed)}]
  BY <1>1, <1>3
<1>5. IsSeq(stack') /\ Len(stack') = n /\ DOMAIN stack' = 1 .. n
  <2>1. DOMAIN stack' = 1 .. n
    BY <1>3
  <2> QED
    BY <1>1, <1>4, <2>1, SeqMade
<1>6. /\ IsCall(stack'[k]) /\ stack'[k].do = stack[k].do /\ stack'[k].arg = stack[k].arg
      /\ ~ Good(stack'[k]) /\ stack'[k].old = stack[k].old /\ ~ Good(stack[k])
  BY <1>1, <1>2, <1>3, GivenIs, Outcomes DEF Good
<1>7. \A i \in 1 .. n : i # k => stack'[i] = stack[i]
  BY <1>3
<1>8. Stacked(stack') /\ From(stack', stack)
  BY <1>1, <1>5, <1>6, <1>7 DEF Stacked, From
<1>9. \A i \in 1 .. n : Follows(stack[i], stack'[i])
  BY <1>1, <1>6, <1>7, FollowsItself DEF Follows
<1>10. \A D : Calm(D, stack, stack')
  BY <1>1, <1>5, <1>9 DEF Calm, Follows
<1> DEFINE Cut(w) == IF w.depth = k THEN [w EXCEPT !.depth = 0] ELSE w
<1>11. wire' = [i \in 1 .. m |-> Cut(wire[i])]
  BY <1>1 DEF TimesOut
<1>12. /\ DOMAIN wire' = 1 .. m /\ wire' \in [1 .. m -> ToSet(wire')]
       /\ \A i \in 1 .. m : wire'[i] = Cut(wire[i])
  BY <1>11 DEF ToSet
<1>13. ASSUME NEW w, IsRequest(w)
       PROVE  /\ IsRequest(Cut(w)) /\ Cut(w).do = w.do /\ Cut(w).arg = w.arg
              /\ Cut(w).depth = IF w.depth = k THEN 0 ELSE w.depth
  <2>1. CASE w.depth = k
    <3>1. Cut(w) = [do |-> w.do, arg |-> w.arg, depth |-> 0]
      BY <1>13, <2>1 DEF IsRequest
    <3> QED
      BY <2>1, <3>1 DEF IsRequest
  <2>2. CASE w.depth # k
    BY <1>13, <2>2
  <2> QED
    BY <2>1, <2>2
<1> HIDE DEF Cut
<1>14. IsSeq(wire') /\ Len(wire') = m
  BY <1>1, <1>12, SeqMade
<1>15. Wired(wire') /\ From(wire', wire)
  BY <1>1, <1>12, <1>13, <1>14 DEF Wired, From
<1>16. Linked(wire', stack')
  <2> SUFFICES ASSUME NEW i \in 1 .. m, wire'[i].depth # 0
               PROVE  LET d == wire'[i].depth IN
                      /\ d \in 1 .. n /\ stack'[d].got = None
                      /\ stack'[d].do = wire'[i].do /\ stack'[d].arg = wire'[i].arg
                      /\ \A j \in 1 .. m : wire'[j].depth = d => j = i
    BY <1>5, <1>12 DEF Linked
  <2>1. \A j \in 1 .. m : /\ wire'[j].do = wire[j].do /\ wire'[j].arg = wire[j].arg
                         /\ wire'[j].depth = IF wire[j].depth = k THEN 0 ELSE wire[j].depth
    BY <1>1, <1>12, <1>13
  <2>2. wire'[i].depth = wire[i].depth /\ wire[i].depth # k /\ wire[i].depth # 0
    BY <2>1
  <2>3. LET d == wire[i].depth IN
        /\ d \in 1 .. n /\ stack[d].got = None
        /\ stack[d].do = wire[i].do /\ stack[d].arg = wire[i].arg
        /\ \A j \in 1 .. m : wire[j].depth = d => j = i
    BY <1>1, <2>2 DEF Fits, Linked
  <2> QED
    BY <1>7, <2>1, <2>2, <2>3
<1> QED
  BY <1>1, <1>5, <1>8, <1>10, <1>15, <1>16 DEF Fits

\* The connection goes: whatever waits has its reply, and it is old.
LEMMA LoseFits ==
  ASSUME Fits(wire, stack), Lose
  PROVE  /\ Fits(wire', stack') /\ Len(stack') = Len(stack) /\ DOMAIN stack' = DOMAIN stack
         /\ From(wire', wire) /\ From(stack', stack)
         /\ \A D : Calm(D, stack, stack')
         /\ \A i \in DOMAIN stack' : stack'[i].old
<1> DEFINE s == [i \in DOMAIN stack |-> IF stack[i].got = None
                                       THEN [stack[i] EXCEPT !.got = Failed]
                                       ELSE stack[i]]
           n == Len(stack)
<1>1. /\ n \in Nat /\ DOMAIN stack = 1 .. n
      /\ \A i \in 1 .. n : IsCall(stack[i])
  BY SeqShape DEF Fits, Stacked
<1>2. stack' = Aged(s) /\ wire' = <<>>
  BY DEF Lose
<1>3. DOMAIN s = 1 .. n /\ s \in [1 .. n -> ToSet(s)]
  BY <1>1 DEF ToSet
<1>4. ASSUME NEW i \in 1 .. n
      PROVE  IsCall(s[i]) /\ s[i].got # None /\ Follows(stack[i], s[i])
  <2>1. CASE stack[i].got = None
    <3>1. s[i] = Given(stack[i], Failed) /\ IsReply(Failed)
      BY <1>1, <2>1, GivenIs DEF IsReply
    <3> QED
      BY <1>1, <2>1, <3>1, GivenIs, Outcomes DEF Follows, Good
  <2>2. CASE stack[i].got # None
    BY <1>1, <2>2, FollowsItself
  <2> QED
    BY <2>1, <2>2
<1>5. IsSeq(s) /\ Len(s) = n
  BY <1>1, <1>3, SeqMade
<1> HIDE DEF s
<1>6. Stacked(s) /\ Linked(<<>>, s)
  BY <1>3, <1>4, <1>5 DEF Stacked, Linked
<1>7. /\ Stacked(stack') /\ Linked(<<>>, stack') /\ Len(stack') = n /\ DOMAIN stack' = 1 .. n
      /\ From(stack', s)
      /\ \A i \in 1 .. n : Follows(s[i], stack'[i]) /\ stack'[i].old
  BY <1>2, <1>3, <1>4, <1>5, <1>6, AgedStack
<1>8. \A i \in 1 .. n : Follows(stack[i], stack'[i])
  BY <1>4, <1>7 DEF Follows
<1>9. From(stack', stack) /\ \A D : Calm(D, stack, stack')
  BY <1>1, <1>7, <1>8 DEF From, Calm, Follows
<1>10. Wired(wire') /\ From(wire', wire)
  BY <1>2 DEF Wired, IsSeq, From, ToSet
<1> QED
  BY <1>1, <1>2, <1>7, <1>9, <1>10 DEF Fits

-----------------------------------------------------------------------------
(* What does not concern a part of the invariant leaves it as it is.       *)

LEMMA WaitsKept ==
  ASSUME WaitsInv, Fits(wire', stack'), From(stack', stack), From(wire', wire),
         Len(stack') <= MaxDepth, who' = who, DOMAIN stock \subseteq DOMAIN stock',
         RowsOf(reader) \subseteq RowsOf(reader)'
  PROVE  WaitsInv'
<1>1. ASSUME NEW c, NEW d, Asks(d), c.do = d.do, c.arg = d.arg PROVE Asks(c)'
  BY <1>1 DEF Asks
<1>2. Asked(stack)' /\ Asked(wire)'
  BY <1>1 DEF Asked, WaitsInv, From
<1> QED
  BY <1>2 DEF WaitsInv, Fits

LEMMA TitlesKept ==
  ASSUME TitlesInv, Calm({"add"}, stack, stack'), told' = told, local' = local,
         Len(stock') = Len(stock), told + Len(stack') <= calls'
  PROVE  TitlesInv'
<1>1. Untold' = Untold
  BY DEF Untold, Added, Calm, Follows
<1> QED
  BY <1>1 DEF TitlesInv

LEMMA FiguresKept ==
  ASSUME FiguresInv, Calm({"add", "analytics"}, stack, stack'), analytics' = analytics,
         skewed => skewed', Len(stock') = Len(stock), sold' = sold, Noted => Noted',
         told' = told, told \in Nat
  PROVE  FiguresInv'
<1>1. Untold' = Untold /\ \A i \in Untold : stack[i].old => stack'[i].old
  BY DEF Untold, Added, Calm, Follows
<1>2. Stats' = Stats /\ OneShort' = OneShort
  BY DEF Stats, OneShort
<1>3. FiguresHold'
  BY <1>1, <1>2 DEF FiguresInv, FiguresHold
<1>4. ASSUME NEW i \in DOMAIN stack', FetchedFigures(stack'[i])
      PROVE  /\ i \in DOMAIN stack /\ FetchedFigures(stack[i])
             /\ stack'[i].got.data = stack[i].got.data /\ (stack[i].old => stack'[i].old)
  BY <1>4 DEF Calm, Follows, FetchedFigures
<1> QED
  BY <1>1, <1>2, <1>3, <1>4 DEF FiguresInv

LEMMA PromotionsKept ==
  ASSUME WaitsInv, KeptInv, PromotionsInv, promos' \subseteq promos,
         \A i \in DOMAIN stack' : stack'[i].do = "promote" /\ Good(stack'[i]) =>
           \/ i \in DOMAIN stack /\ Follows(stack[i], stack'[i])
           \/ stock'[stack'[i].arg.book].off,
         \A b \in DOMAIN stock : Backed(b) /\ (b \in promos' \/ Promoting(stack', b)) => Backed(b)'
  PROVE  PromotionsInv'
<1>1. PromotionsBacked'
  BY DEF PromotionsInv, PromotionsBacked, Backed, KeptInv
<1>2. ASSUME NEW i \in DOMAIN stack', stack'[i].do = "promote" /\ Good(stack'[i])
      PROVE  stock'[stack'[i].arg.book].off \/ stack'[i].arg.book \in undone'
  <2>1. CASE i \in DOMAIN stack /\ Follows(stack[i], stack'[i])
    <3>1. /\ stack[i].do = "promote" /\ Good(stack[i])
          /\ stack[i].arg = stack'[i].arg
      BY <1>2, <2>1 DEF Follows
    <3>2. PICK b : b = stack[i].arg.book
      OBVIOUS
    <3>3. Backed(b) /\ Promoting(stack', b)
      BY <1>2, <2>1, <3>1, <3>2 DEF PromotionsInv, Promoting
    <3>4. b \in DOMAIN stock
      BY <2>1, <3>1, <3>2 DEF WaitsInv, Asked, Asks, OnBooks
    <3>5. Backed(b)'
      BY <3>3, <3>4
    <3> QED
      BY <3>1, <3>2, <3>5 DEF Backed
  <2> QED
    BY <1>2, <2>1
<1> QED
  BY <1>1, <1>2 DEF PromotionsInv, Backed, Good

LEMMA PromotionsCalm ==
  ASSUME WaitsInv, KeptInv, PromotionsInv, Calm({"promote"}, stack, stack'), promos' = promos,
         \A b \in DOMAIN stock : Backed(b) => Backed(b)'
  PROVE  PromotionsInv'
<1>1. \A i \in DOMAIN stack' : stack'[i].do = "promote" /\ Good(stack'[i]) =>
        i \in DOMAIN stack /\ Follows(stack[i], stack'[i])
  BY DEF Calm
<1> QED
  BY <1>1, PromotionsKept

LEMMA FeedKept ==
  ASSUME FeedInv, Calm(OfFeed, stack, stack'), rows' = rows, feed' = feed, swept' = swept,
         gaps => gaps', \A n : Pushed(n) => Pushed(n)' \/ n \in Ids(feed)
  PROVE  FeedInv'
<1>1. ASSUME NEW n, NEW i \in DOMAIN stack, Brings(stack[i], n)
      PROVE  i \in DOMAIN stack' /\ Brings(stack'[i], n)
  BY <1>1 DEF Brings, Calm, Follows, OfFeed
<1>2. \A n : Shown(n) => Shown(n)'
  BY <1>1 DEF Shown
<1>3. RowsOf(reader)' = RowsOf(reader) /\ \A id : ReadFor(id)' = ReadFor(id)
  BY DEF RowsOf, ReadFor
<1>4. gaps' \/ \A n \in RowsOf(reader)' : Shown(n)'
  BY <1>2, <1>3 DEF FeedInv
<1>5. \A i \in DOMAIN feed' : feed'[i].read => rows'[feed'[i].id].read \/ feed'[i].id \in swept'
  BY DEF FeedInv, ReadFor
<1>6. ASSUME NEW i \in DOMAIN stack', Good(stack'[i]), stack'[i].do \in OfFeed
      PROVE  /\ i \in DOMAIN stack /\ Good(stack[i]) /\ stack[i].do = stack'[i].do
             /\ stack[i].arg = stack'[i].arg /\ stack'[i].got = stack[i].got
  BY <1>6 DEF Calm, Follows
<1>7. ASSUME NEW i \in DOMAIN stack', Good(stack'[i])
      PROVE  /\ stack'[i].do = "feed" =>
                  /\ stack'[i].got.data \in Seq(Item)
                  /\ \A j \in DOMAIN stack'[i].got.data : Honest(stack'[i].got.data[j])
             /\ stack'[i].do = "read" => rows'[stack'[i].arg.note].read
             /\ stack'[i].do = "readAll" => \A j \in DOMAIN feed' : ReadFor(feed'[j].id)
  <2>1. stack'[i].do = "feed" =>
          /\ stack'[i].got.data \in Seq(Item)
          /\ \A j \in DOMAIN stack'[i].got.data : Honest(stack'[i].got.data[j])
    BY <1>6, <1>7 DEF FeedInv, OfFeed
  <2>2. stack'[i].do = "read" => rows'[stack'[i].arg.note].read
    BY <1>6, <1>7 DEF FeedInv, OfFeed
  <2>3. stack'[i].do = "readAll" => \A j \in DOMAIN feed' : ReadFor(feed'[j].id)
    BY <1>6, <1>7 DEF FeedInv, OfFeed
  <2> QED
    BY <2>1, <2>2, <2>3
<1> QED
  BY <1>3, <1>4, <1>5, <1>7 DEF FeedInv, Honest, ReadFor, RowsOf, Good

\* Rows are added and become read; a call that is answered says what is so.
LEMMA FeedGrows ==
  ASSUME WaitsInv, KeptInv, FeedInv, Calm({"feed"}, stack, stack'),
         feed' = feed, swept' = swept, gaps => gaps',
         \A n \in RowsOf(reader) : n \in RowsOf(reader)' /\ (rows[n].read => rows'[n].read),
         \A n \in RowsOf(reader)' : n \in RowsOf(reader) \/ gaps' \/ Pushed(n)',
         \A n : Pushed(n) => Pushed(n)',
         \A i \in DOMAIN stack' : Good(stack'[i]) =>
           \/ i \in DOMAIN stack /\ Follows(stack[i], stack'[i])
           \/ stack'[i].do \notin OfFeed
           \/ stack'[i].do = "read" /\ rows'[stack'[i].arg.note].read
           \/ stack'[i].do = "readAll" /\ \A j \in DOMAIN feed : rows'[feed[j].id].read
  PROVE  FeedInv'
<1>1. \A j \in DOMAIN feed : feed[j].id \in RowsOf(reader)
  BY DEF KeptInv, Ids
<1>2. \A n \in RowsOf(reader) : ReadFor(n) => rows'[n].read \/ n \in swept'
  BY DEF ReadFor
<1>3. \A n : Shown(n) => Shown(n)'
  <2>1. ASSUME NEW n, NEW i \in DOMAIN stack, Brings(stack[i], n)
        PROVE  i \in DOMAIN stack' /\ Brings(stack'[i], n)
    BY <2>1 DEF Brings, Calm, Follows
  <2> QED
    BY <2>1 DEF Shown
<1>4. gaps' \/ \A n \in RowsOf(reader)' : Shown(n)'
  BY <1>3 DEF FeedInv, Shown
<1>5. \A j \in DOMAIN feed' : feed'[j].read => rows'[feed'[j].id].read \/ feed'[j].id \in swept'
  BY <1>1, <1>2 DEF FeedInv
<1>6. \A c : Honest(c) => c.id \in RowsOf(reader)' /\ (c.read => rows'[c.id].read)
  BY DEF Honest
<1>7. ASSUME NEW i \in DOMAIN stack', Good(stack'[i]), stack'[i].do = "feed"
      PROVE  /\ stack'[i].got.data \in Seq(Item)
             /\ \A j \in DOMAIN stack'[i].got.data : Honest(stack'[i].got.data[j])
  <2>1. i \in DOMAIN stack /\ Follows(stack[i], stack'[i])
    BY <1>7 DEF Calm
  <2> QED
    BY <1>7, <2>1 DEF Follows, FeedInv
<1>8. ASSUME NEW i \in DOMAIN stack', Good(stack'[i]), stack'[i].do = "read"
      PROVE  rows'[stack'[i].arg.note].read
  <2>1. CASE i \in DOMAIN stack /\ Follows(stack[i], stack'[i])
    <3>1. stack[i].arg.note \in RowsOf(reader) /\ rows[stack[i].arg.note].read
      BY <1>8, <2>1 DEF Follows, FeedInv, WaitsInv, Asked, Asks
    <3> QED
      BY <2>1, <3>1 DEF Follows
  <2> QED
    BY <1>8, <2>1 DEF OfFeed
<1>9. ASSUME NEW i \in DOMAIN stack', Good(stack'[i]), stack'[i].do = "readAll",
             NEW j \in DOMAIN feed
      PROVE  rows'[feed[j].id].read \/ feed[j].id \in swept'
  <2>1. CASE i \in DOMAIN stack /\ Follows(stack[i], stack'[i])
    <3>1. ReadFor(feed[j].id)
      BY <1>9, <2>1 DEF Follows, FeedInv
    <3> QED
      BY <1>1, <1>2, <3>1
  <2> QED
    BY <1>9, <2>1 DEF OfFeed
<1>10. \A i \in DOMAIN stack' : Good(stack'[i]) =>
         /\ stack'[i].do = "feed" =>
              /\ stack'[i].got.data \in Seq(Item)
              /\ \A j \in DOMAIN stack'[i].got.data :
                   LET c == stack'[i].got.data[j] IN
                   c.id \in RowsOf(reader)' /\ (c.read => rows'[c.id].read)
         /\ stack'[i].do = "read" => rows'[stack'[i].arg.note].read
         /\ stack'[i].do = "readAll" =>
              \A j \in DOMAIN feed' : rows'[feed'[j].id].read \/ feed'[j].id \in swept'
  BY <1>6, <1>7, <1>8, <1>9
<1> QED
  BY <1>4, <1>5, <1>10 DEF FeedInv, Honest, ReadFor, Good, RowsOf

LEMMA KeptSame ==
  ASSUME KeptInv, UNCHANGED <<server, who, desk, events, promos, feed, sales>>,
         skewed' \in BOOLEAN, gaps' \in BOOLEAN, calls' \in 0 .. MaxCalls
  PROVE  KeptInv'
  BY DEF KeptInv, EventsFit, server, IsEvent, IsNote, Ids, RowsOf

-----------------------------------------------------------------------------
(* Calls begin.                                                            *)

LEMMA SendKeeps ==
  ASSUME DeskInv, NEW do, NEW arg, Asks([do |-> do, arg |-> arg]), Send(do, arg),
         feed' = feed, gaps' \in BOOLEAN
  PROVE  /\ WaitsInv' /\ KeptInv' /\ TitlesInv' /\ FiguresInv' /\ PromotionsInv'
         /\ (gaps => gaps') => FeedInv'
<1> USE DeskAssumption
<1>1. /\ UNCHANGED <<server, who, desk, local, analytics, promos, events, sales, faults,
                     told, skewed, swept, undone>>
      /\ calls' = calls + 1 /\ calls < MaxCalls /\ Len(stack) < MaxDepth
  BY DEF Send
<1>2. WaitsInv /\ KeptInv /\ TitlesInv /\ FiguresInv /\ PromotionsInv /\ FeedInv
  BY DEF DeskInv
<1>3. Fits(wire, stack)
  BY <1>2 DEF WaitsInv, Fits
<1>4. /\ Fits(wire', stack') /\ Len(stack') = Len(stack) + 1 /\ Len(stack) \in Nat
      /\ DOMAIN stack = 1 .. Len(stack) /\ DOMAIN stack' = 1 .. Len(stack) + 1
      /\ stack'[Len(stack) + 1] = Entry(do, arg)
      /\ \A i \in 1 .. Len(stack) : stack'[i] = stack[i]
      /\ \A i \in DOMAIN wire' : \/ i \in DOMAIN wire /\ wire'[i] = wire[i]
                                 \/ wire'[i].do = do /\ wire'[i].arg = arg
      /\ \A D : Calm(D, stack, stack')
  BY <1>3, SendFits
<1>5. WaitsInv'
  <2>1. \A c : Asks(c)' <=> Asks(c)
    BY <1>1 DEF Asks, server, RowsOf
  <2>2. \A c : c.do = do /\ c.arg = arg => Asks(c)
    BY DEF Asks
  <2>3. Entry(do, arg).do = do /\ Entry(do, arg).arg = arg
    BY EntryIs
  <2>4. \A i \in DOMAIN stack' : Asks(stack'[i])
    BY <1>2, <1>4, <2>2, <2>3 DEF WaitsInv, Asked
  <2>5. \A i \in DOMAIN wire' : Asks(wire'[i])
    BY <1>2, <1>4, <2>2 DEF WaitsInv, Asked
  <2>6. Asked(stack)' /\ Asked(wire)'
    BY <1>1, <2>4, <2>5 DEF Asked, Asks, server, RowsOf
  <2> QED
    BY <1>1, <1>2, <1>4, <2>6 DEF WaitsInv, Fits
<1>6. KeptInv'
  <2>1. calls' \in 0 .. MaxCalls /\ skewed' \in BOOLEAN
    BY <1>1, <1>2 DEF KeptInv
  <2> QED
    BY <1>1, <1>2, <2>1, KeptSame
<1>7. TitlesInv'
  <2>1. told + Len(stack') <= calls'
    BY <1>1, <1>2, <1>4 DEF TitlesInv, KeptInv
  <2> QED
    BY <1>1, <1>2, <1>4, <2>1, TitlesKept DEF server
<1>8. FiguresInv'
  <2>1. told \in Nat /\ (Noted => Noted')
    BY <1>1, <1>2 DEF TitlesInv, Noted, IsNote
  <2> QED
    BY <1>1, <1>2, <1>4, <2>1, FiguresKept DEF server
<1>9. PromotionsInv'
  <2>1. \A b : Backed(b) => Backed(b)'
    BY <1>1 DEF Backed, server
  <2> QED
    BY <1>1, <1>2, <1>4, <2>1, PromotionsCalm
<1>10. (gaps => gaps') => FeedInv'
  <2>1. \A n : Pushed(n) => Pushed(n)'
    BY <1>1 DEF Pushed, IsNote
  <2> QED
    BY <1>1, <1>2, <1>4, <2>1, FeedKept DEF server
<1> QED
  BY <1>5, <1>6, <1>7, <1>8, <1>9, <1>10

LEMMA AskKeeps ==
  ASSUME DeskInv, NEW do, NEW arg, Asks([do |-> do, arg |-> arg]), Ask(do, arg)
  PROVE  DeskInv'
<1>1. Send(do, arg) /\ feed' = feed /\ gaps' = gaps
  BY DEF Ask
<1>2. gaps' \in BOOLEAN
  BY <1>1 DEF DeskInv, KeptInv
<1> QED
  BY <1>1, <1>2, SendKeeps DEF DeskInv

LEMMA RefreshFeedKeeps == DeskInv /\ RefreshFeed => DeskInv'
<1> SUFFICES ASSUME DeskInv, RefreshFeed PROVE DeskInv'
  OBVIOUS
<1>1. /\ Send("feed", <<>>) /\ who = reader /\ feed = <<>> /\ feed' = feed /\ gaps' = FALSE
      /\ UNCHANGED <<server, swept>>
  BY DEF RefreshFeed, AtFeed, Send
<1>2. Asks([do |-> "feed", arg |-> <<>>])
  BY <1>1 DEF Asks, OfFeed, OnBooks
<1>3. WaitsInv' /\ KeptInv' /\ TitlesInv' /\ FiguresInv' /\ PromotionsInv'
  BY <1>1, <1>2, SendKeeps
<1>4. WaitsInv /\ FeedInv /\ Fits(wire, stack)
  BY DEF DeskInv, WaitsInv, Fits
<1>5. /\ Len(stack) \in Nat /\ DOMAIN stack = 1 .. Len(stack)
      /\ DOMAIN stack' = 1 .. Len(stack) + 1
      /\ stack'[Len(stack) + 1] = Entry("feed", <<>>)
      /\ \A i \in 1 .. Len(stack) : stack'[i] = stack[i]
  BY <1>1, <1>4, SendFits
<1>6. Entry("feed", <<>>).do = "feed" /\ ~ Good(Entry("feed", <<>>))
  BY EntryIs
<1>7. ASSUME NEW n PROVE Shown(n)'
  <2>1. Brings(stack'[Len(stack) + 1], n)
    BY <1>5, <1>6 DEF Brings
  <2> QED
    BY <1>5, <2>1 DEF Shown, Brings, Good, Ids
<1>8. \A i \in DOMAIN stack' : Good(stack'[i]) => i \in DOMAIN stack /\ stack'[i] = stack[i]
  BY <1>5, <1>6
<1>9. FeedInv'
  BY <1>1, <1>4, <1>7, <1>8 DEF FeedInv, server, Honest, RowsOf, ReadFor, Good
<1> QED
  BY <1>3, <1>9 DEF DeskInv

LEMMA RequestsKeep == DeskInv /\ Requests => DeskInv' \/ RefreshDesk \/ \E i \in DOMAIN feed : DeleteNotification(i)
<1> SUFFICES ASSUME DeskInv, Requests, ~ RefreshDesk, \A i \in DOMAIN feed : ~ DeleteNotification(i)
             PROVE  DeskInv'
  OBVIOUS
<1>1. KeptInv
  BY DEF DeskInv
<1>2. CASE AddBook
  <2>1. Asks([do |-> "add", arg |-> <<>>])
    BY <1>2 DEF AddBook, AtDesk, Asks, OfDesk, OnBooks
  <2> QED
    BY <1>2, <2>1, AskKeeps DEF AddBook
<1>3. CASE FetchAnalytics
  <2>1. Asks([do |-> "analytics", arg |-> <<>>])
    BY <1>3 DEF FetchAnalytics, AtDesk, Asks, OfDesk, OnBooks
  <2> QED
    BY <1>3, <2>1, AskKeeps DEF FetchAnalytics
<1>4. CASE MarkAllRead
  <2>1. Asks([do |-> "readAll", arg |-> <<>>])
    BY <1>4 DEF MarkAllRead, AtFeed, Asks, OfFeed, OnBooks
  <2> QED
    BY <1>4, <2>1, AskKeeps DEF MarkAllRead
<1>5. CASE RefreshFeed
  BY <1>5, RefreshFeedKeeps
<1>6. ASSUME NEW b \in DOMAIN stock,
             UpdateBook(b) \/ AddPromotion(b) \/ RemovePromotion(b)
               \/ \E on \in BOOLEAN : SetBookStatus(b, on)
      PROVE  DeskInv'
  <2>1. who = publisher
    BY <1>6 DEF UpdateBook, AddPromotion, RemovePromotion, SetBookStatus, AtDesk
  <2>2. ASSUME NEW do \in OnBooks, NEW arg, arg.book = b, do = "status" => arg.on \in BOOLEAN,
                    Ask(do, arg)
             PROVE  DeskInv'
    <3>1. Asks([do |-> do, arg |-> arg])
      BY <2>1, <2>2 DEF Asks, OfDesk, OnBooks
    <3> QED
      BY <2>2, <3>1, AskKeeps
  <2>3. CASE UpdateBook(b)
    BY <2>2, <2>3 DEF UpdateBook, OnBooks
  <2>4. CASE AddPromotion(b)
    BY <2>2, <2>4 DEF AddPromotion, OnBooks
  <2>5. CASE RemovePromotion(b)
    BY <2>2, <2>5 DEF RemovePromotion, OnBooks
  <2>6. CASE \E on \in BOOLEAN : SetBookStatus(b, on)
    BY <2>2, <2>6 DEF SetBookStatus, OnBooks
  <2> QED
    BY <1>6, <2>3, <2>4, <2>5, <2>6
<1>7. ASSUME NEW n \in Ids(feed), MarkRead(n) PROVE DeskInv'
  <2>1. n \in RowsOf(reader) /\ who = reader
    BY <1>1, <1>7 DEF KeptInv, MarkRead, AtFeed
  <2>2. Asks([do |-> "read", arg |-> [note |-> n]])
    BY <2>1 DEF Asks, OfFeed, OnBooks
  <2> QED
    BY <1>7, <2>2, AskKeeps DEF MarkRead
<1> QED
  BY <1>2, <1>3, <1>4, <1>5, <1>6, <1>7 DEF Requests

-----------------------------------------------------------------------------
(* The server.                                                             *)

LEMMA NotifyFacts ==
  ASSUME KeptInv, NEW u \in Users, Notify(u), session' = session, who' = who
  PROVE  /\ rows' \in Seq(Row) /\ \A n \in DOMAIN rows : n \in DOMAIN rows' /\ rows'[n] = rows[n]
         /\ \A n \in RowsOf(reader) : n \in RowsOf(reader)' /\ rows'[n] = rows[n]
         /\ \A n \in RowsOf(reader)' :
              n \in RowsOf(reader) \/ (u = reader /\ (session = u => Pushed(n)'))
         /\ IsSeq(events') /\ EventsFit'
         /\ \A n : Pushed(n) => Pushed(n)'
         /\ Noted => Noted'
         /\ session = u /\ u = publisher => Noted'
<1> DEFINE new == [to |-> u, read |-> FALSE]
<1>0. PICK n : n = Len(rows)
  OBVIOUS
<1> DEFINE k == n + 1
           note == [is |-> "note", id |-> k]
<1>1. rows \in Seq(Row) /\ new \in Row /\ rows' = Append(rows, new)
  BY DEF KeptInv, Row, Notify
<1>2. /\ rows' \in Seq(Row) /\ n \in Nat /\ DOMAIN rows = 1 .. n /\ DOMAIN rows' = 1 .. k
      /\ rows'[k] = new /\ \A i \in 1 .. n : rows'[i] = rows[i]
  <2>1. /\ rows' \in Seq(Row) /\ Len(rows') = n + 1 /\ rows'[n + 1] = new
        /\ \A i \in 1 .. n : rows'[i] = rows[i]
    BY <1>0, <1>1, AppendProperties
  <2> QED
    BY <1>0, <1>1, <2>1, LenProperties
<1>3. new.to = u /\ ~ new.read
  OBVIOUS
<1> HIDE DEF new
<1>4. \A m \in DOMAIN rows : m \in DOMAIN rows' /\ rows'[m] = rows[m]
  BY <1>2
<1>5. /\ \A m \in RowsOf(reader) : m \in RowsOf(reader)' /\ rows'[m] = rows[m]
      /\ \A m \in RowsOf(reader)' : m \in RowsOf(reader) \/ (u = reader /\ m = k)
  BY <1>2, <1>3 DEF RowsOf
<1>6. \A e : IsEvent(e) => IsEvent(e)'
  BY <1>4 DEF IsEvent, IsNote
<1>7. CASE session = u
  <2>1. events' = Append(events, note)
    BY <1>0, <1>7 DEF Notify
  <2>2. IsEvent(note)' /\ IsNote(note) /\ note.id = k
    BY <1>2, <1>3, <1>7 DEF IsEvent, IsNote
  <2> HIDE DEF note, k
  <2>3. /\ IsSeq(events') /\ DOMAIN events' = 1 .. Len(events) + 1
        /\ events'[Len(events) + 1] = note
        /\ \A i \in 1 .. Len(events) : events'[i] = events[i]
        /\ DOMAIN events = 1 .. Len(events) /\ Len(events) \in Nat
    BY <2>1, PushSeq, SeqShape DEF KeptInv
  <2>4. \A i \in DOMAIN events' : events'[i] = note \/ \E j \in DOMAIN events : events'[i] = events[j]
    BY <2>3
  <2>5. EventsFit'
    <3>1. \A i \in DOMAIN events' : \E e : events'[i] = e /\ IsEvent(e)'
      BY <1>6, <2>2, <2>4 DEF KeptInv, EventsFit
    <3> QED
      BY <3>1 DEF EventsFit, IsEvent, IsNote
  <2>6. \A i \in DOMAIN events : i \in DOMAIN events' /\ events'[i] = events[i]
    BY <2>3
  <2>7. \A m : Pushed(m) => Pushed(m)'
    BY <2>6 DEF Pushed, IsNote
  <2>8. Len(events) + 1 \in DOMAIN events'
    BY <2>3
  <2>9. Pushed(k)'
    BY <2>2, <2>3, <2>8 DEF Pushed, IsNote
  <2>10. Noted => Noted'
    BY <2>6 DEF Noted, IsNote
  <2>11. u = publisher => Noted'
    <3>1. u = publisher => who = publisher
      BY <1>7, DeskAssumption DEF KeptInv
    <3> QED
      BY <2>2, <2>3, <2>8, <3>1 DEF Noted, IsNote
  <2> QED
    BY <1>2, <1>4, <1>5, <2>3, <2>5, <2>7, <2>9, <2>10, <2>11
<1>8. CASE session # u
  <2>1. events' = events
    BY <1>8 DEF Notify
  <2>2. EventsFit'
    <3>1. \A i \in DOMAIN events' : \E e : events'[i] = e /\ IsEvent(e)'
      BY <1>6, <2>1 DEF KeptInv, EventsFit
    <3> QED
      BY <3>1 DEF EventsFit, IsEvent, IsNote
  <2>3. IsSeq(events') /\ (\A m : Pushed(m) => Pushed(m)') /\ (Noted => Noted')
    BY <2>1 DEF KeptInv, Pushed, Noted, IsNote
  <2> QED
    BY <1>2, <1>4, <1>5, <1>8, <2>2, <2>3
<1> QED
  BY <1>7, <1>8

\* The handler takes the request from the wire; whoever waits has the reply.
LEMMA Handles ==
  ASSUME DeskInv, NEW do, Handle(do), NEW r, IsReply(r), Reply(Head(wire), r)
  PROVE  LET d == Head(wire).depth IN
         /\ Fits(wire', stack') /\ Len(stack') = Len(stack) /\ DOMAIN stack' = DOMAIN stack
         /\ DOMAIN stack = 1 .. Len(stack) /\ Len(stack) \in Nat
         /\ From(wire', wire) /\ From(stack', stack)
         /\ Asks(Head(wire)) /\ Head(wire).do = do /\ Len(stack') <= MaxDepth
         /\ \A i \in DOMAIN stack : i # d => stack'[i] = stack[i]
         /\ d # 0 => /\ d \in DOMAIN stack /\ stack[d].got = None /\ stack[d].do = do
                     /\ stack[d].arg = Head(wire).arg
                     /\ stack'[d].do = do /\ stack'[d].arg = Head(wire).arg
                     /\ stack'[d].got = r /\ stack'[d].old = stack[d].old
         /\ d = 0 => stack' = stack
         /\ \A D : r = Failed \/ do \notin D => Calm(D, stack, stack')
<1>1. Fits(wire, stack) /\ wire # <<>> /\ Head(wire).do = do
  BY DEF DeskInv, WaitsInv, Fits, Handle
<1>2. /\ Fits(wire', stack') /\ Len(stack') = Len(stack) /\ DOMAIN stack' = DOMAIN stack
      /\ From(wire', wire) /\ From(stack', stack)
      /\ 1 \in DOMAIN wire /\ Head(wire) = wire[1]
      /\ LET d == Head(wire).depth IN
         /\ \A i \in DOMAIN stack : i # d => stack'[i] = stack[i]
         /\ d # 0 => /\ d \in DOMAIN stack /\ stack[d].got = None
                     /\ stack[d].do = Head(wire).do /\ stack[d].arg = Head(wire).arg
                     /\ stack'[d] = Given(stack[d], r)
         /\ d = 0 => stack' = stack
      /\ \A D : r = Failed \/ Head(wire).do \notin D => Calm(D, stack, stack')
  BY <1>1, ReplyFits
<1>3. Asks(Head(wire)) /\ Len(stack') <= MaxDepth
  BY <1>2 DEF DeskInv, WaitsInv, Asked
<1>4. DOMAIN stack = 1 .. Len(stack) /\ Len(stack) \in Nat
  BY <1>1, SeqShape DEF Fits, Stacked
<1>5. \A i \in DOMAIN stack : IsCall(stack[i])
  BY <1>1 DEF Fits, Stacked
<1> QED
  BY <1>1, <1>2, <1>3, <1>4, <1>5, GivenIs

LEMMA CalmKeeps ==
  ASSUME DeskInv, Fits(wire', stack'), From(wire', wire), From(stack', stack),
         Len(stack') = Len(stack), \A D : Calm(D, stack, stack'),
         UNCHANGED <<server, who, desk, local, analytics, promos, feed, events, calls, sales,
                     history>>
  PROVE  DeskInv'
<1>1. WaitsInv /\ KeptInv /\ TitlesInv /\ FiguresInv /\ PromotionsInv /\ FeedInv
  BY DEF DeskInv
<1>2. WaitsInv'
  BY <1>1, WaitsKept DEF server, RowsOf, WaitsInv
<1>3. KeptInv'
  BY <1>1, KeptSame DEF history, KeptInv
<1>4. TitlesInv'
  BY <1>1, TitlesKept DEF server, history, TitlesInv
<1>5. FiguresInv'
  BY <1>1, FiguresKept DEF server, history, TitlesInv, Noted, IsNote
<1>6. PromotionsInv'
  BY <1>1, PromotionsCalm DEF server, history, Backed
<1>7. FeedInv'
  BY <1>1, FeedKept DEF server, history, Pushed, IsNote
<1> QED
  BY <1>2, <1>3, <1>4, <1>5, <1>6, <1>7 DEF DeskInv

LEMMA RefuseKeeps ==
  ASSUME DeskInv, NEW do, Handle(do), Refuse,
         UNCHANGED <<server, who, desk, local, analytics, promos, feed, events, bounds, history>>
  PROVE  DeskInv'
<1>1. IsReply(Failed) /\ Reply(Head(wire), Failed)
  BY DEF IsReply, Refuse
<1>2. /\ Fits(wire', stack') /\ Len(stack') = Len(stack)
      /\ From(wire', wire) /\ From(stack', stack) /\ \A D : Calm(D, stack, stack')
  BY <1>1, Handles
<1> QED
  BY <1>2, CalmKeeps DEF bounds

LEMMA AnalyticsKeeps == DeskInv /\ HandleGetPublisherAnalytics => DeskInv'
<1> SUFFICES ASSUME DeskInv, HandleGetPublisherAnalytics PROVE DeskInv'
  OBVIOUS
<1>1. /\ Handle("analytics")
      /\ UNCHANGED <<server, who, desk, local, analytics, promos, feed, events, bounds, history>>
  BY DEF HandleGetPublisherAnalytics, Fetch
<1>2. CASE Refuse
  BY <1>1, <1>2, RefuseKeeps
<1>3. CASE Reply(Head(wire), Ok(Stats))
  <2> DEFINE d == Head(wire).depth
  <2>1. IsReply(Ok(Stats))
    BY DEF IsReply, Ok
  <2>2. /\ Fits(wire', stack') /\ Len(stack') = Len(stack) /\ DOMAIN stack' = DOMAIN stack
        /\ From(wire', wire) /\ From(stack', stack) /\ Len(stack') <= MaxDepth
        /\ \A i \in DOMAIN stack : i # d => stack'[i] = stack[i]
        /\ d # 0 => stack'[d].got = Ok(Stats)
        /\ d = 0 => stack' = stack
        /\ \A D : "analytics" \notin D => Calm(D, stack, stack')
    BY <1>1, <1>3, <2>1, Handles
  <2>3. WaitsInv /\ KeptInv /\ TitlesInv /\ FiguresInv /\ PromotionsInv /\ FeedInv
    BY DEF DeskInv
  <2>4. WaitsInv'
    BY <1>1, <2>2, <2>3, WaitsKept DEF server, RowsOf
  <2>5. KeptInv'
    BY <1>1, <2>3, KeptSame DEF history, KeptInv, bounds
  <2>6. TitlesInv'
    BY <1>1, <2>2, <2>3, TitlesKept DEF server, history, TitlesInv, bounds
  <2>7. PromotionsInv'
    BY <1>1, <2>2, <2>3, PromotionsCalm DEF server, history, Backed
  <2>8. FeedInv'
    BY <1>1, <2>2, <2>3, FeedKept DEF server, history, Pushed, IsNote, OfFeed
  <2>9. FiguresInv'
    <3>1. Calm({"add"}, stack, stack')
      BY <2>2
    <3>2. Untold' = Untold /\ \A i \in Untold : stack[i].old => stack'[i].old
      BY <3>1 DEF Untold, Added, Calm, Follows
    <3>3. /\ Stats' = Stats /\ OneShort' = OneShort /\ (Noted <=> Noted')
          /\ UNCHANGED <<analytics, skewed, told>>
      BY <1>1 DEF Stats, OneShort, server, history, Noted, IsNote
    <3>4. FiguresHold'
      BY <2>3, <3>2, <3>3 DEF FiguresInv, FiguresHold
    <3>5. Stats \in [books : 1 .. MaxBooks, sold : 0 .. MaxSales]
      BY <2>3, DeskAssumption DEF KeptInv, Stats
    <3>6. ASSUME NEW i \in DOMAIN stack', FetchedFigures(stack'[i])
          PROVE  /\ stack'[i].got.data \in [books : 1 .. MaxBooks, sold : 0 .. MaxSales]
                 /\ stack'[i].old \/ Noted' \/ Untold' # {} \/ stack'[i].got.data = Stats
      <4>1. CASE i = d /\ d # 0
        BY <2>2, <3>5, <4>1, Outcomes
      <4>2. CASE ~ (i = d /\ d # 0)
        <5>1. i \in DOMAIN stack /\ stack'[i] = stack[i]
          BY <2>2, <4>2
        <5>2. FetchedFigures(stack[i])
          BY <3>6, <5>1 DEF FetchedFigures, Good
        <5> QED
          BY <2>3, <3>2, <3>3, <5>1, <5>2 DEF FiguresInv
      <4> QED
        BY <4>1, <4>2
    <3> QED
      BY <2>3, <3>2, <3>3, <3>4, <3>6 DEF FiguresInv
  <2> QED
    BY <2>4, <2>5, <2>6, <2>7, <2>8, <2>9 DEF DeskInv
<1> QED
  BY <1>2, <1>3 DEF HandleGetPublisherAnalytics, Fetch

\* What the server sends of a list: all of it, as it is.
LEMMA NewestIs ==
  ASSUME KeptInv
  PROVE  /\ Newest(reader) \in Seq(Item) /\ Ids(Newest(reader)) = RowsOf(reader)
         /\ \A j \in DOMAIN Newest(reader) : Honest(Newest(reader)[j])
<1> DEFINE mine == RowsOf(reader)
           Newer(x) == {m \in mine : m > x}
           At(i) == CHOOSE n \in mine : Cardinality(Newer(n)) = i - 1
           R == {p \in Nat \X Nat : p[1] > p[2]}
           f == Newest(reader)
<1>1. /\ rows \in Seq(Row) /\ Len(rows) \in Nat /\ DOMAIN rows = 1 .. Len(rows)
      /\ mine \in SUBSET (1 .. Len(rows)) /\ mine \subseteq Nat
  <2>1. rows \in Seq(Row) /\ Len(rows) \in Nat /\ DOMAIN rows = 1 .. Len(rows)
    BY LenProperties DEF KeptInv
  <2> QED
    BY <2>1 DEF RowsOf
<1>2. IsFiniteSet(mine)
  <2>1. IsFiniteSet(1 .. Len(rows))
    BY <1>1, FS_Interval
  <2> HIDE DEF mine
  <2> QED
    BY <1>1, <2>1, FS_Subset
<1>3. \A s, t \in Nat : <<s, t>> \in R <=> s > t
  OBVIOUS
<1>4. f = [i \in 1 .. Cardinality(mine) |-> Copy(At(i))]
  BY DEF Newest
<1> HIDE DEF mine, R, f
<1>5. Orders(R, mine)
  BY <1>1, <1>3 DEF Orders
<1>6. ASSUME NEW x \in mine PROVE Newer(x) = Below(mine, R, x)
  BY <1>1, <1>3 DEF Below
<1>7. /\ \A k \in 1 .. Cardinality(mine) : \E x \in mine : Cardinality(Newer(x)) = k - 1
      /\ \A x \in mine : \E k \in 1 .. Cardinality(mine) : Cardinality(Newer(x)) = k - 1
      /\ \A x, y \in mine : Cardinality(Newer(x)) = Cardinality(Newer(y)) => x = y
  <2> HIDE DEF Newer
  <2> QED
    BY <1>2, <1>5, <1>6, Ranked
<1>8. ASSUME NEW k \in 1 .. Cardinality(mine)
      PROVE  At(k) \in mine /\ Cardinality(Newer(At(k))) = k - 1
  <2>1. \E x \in mine : Cardinality(Newer(x)) = k - 1
    BY <1>7
  <2> HIDE DEF Newer
  <2> QED
    BY <2>1
<1> HIDE DEF At, Newer
<1>9. Cardinality(mine) \in Nat
  BY <1>2, FS_CardinalityType
<1>10. ASSUME NEW n \in mine
       PROVE  Copy(n) \in Item /\ Copy(n).id = n /\ Honest(Copy(n))
  <2>1. Copy(n) = [id |-> n, read |-> rows[n].read] /\ n \in RowsOf(reader)
    BY DEF Copy, mine
  <2>2. rows[n] \in Row /\ n \in Nat
    BY <1>1
  <2> QED
    BY <2>1, <2>2 DEF Item, Honest, Row
<1>11. /\ DOMAIN f = 1 .. Cardinality(mine) /\ f \in [1 .. Cardinality(mine) -> Item]
       /\ \A i \in DOMAIN f : f[i].id = At(i) /\ At(i) \in mine /\ Honest(f[i])
  BY <1>4, <1>8, <1>10
<1>12. f \in Seq(Item)
  BY <1>9, <1>11, SeqDef
<1>13. ASSUME NEW n \in mine PROVE \E i \in DOMAIN f : f[i].id = n
  <2>1. PICK k \in 1 .. Cardinality(mine) : Cardinality(Newer(n)) = k - 1
    BY <1>7
  <2>2. At(k) = n
    BY <1>7, <1>8, <2>1
  <2> QED
    BY <1>11, <2>2
<1>14. Ids(f) = mine
  BY <1>11, <1>13 DEF Ids
<1> QED
  BY <1>11, <1>12, <1>14 DEF f, mine

LEMMA NotificationsKeep == DeskInv /\ HandleGetNotifications => DeskInv'
<1> SUFFICES ASSUME DeskInv, HandleGetNotifications PROVE DeskInv'
  OBVIOUS
<1> DEFINE x == Newest(reader)
<1>1. /\ Handle("feed")
      /\ UNCHANGED <<server, who, desk, local, analytics, promos, feed, events, bounds, history>>
  BY DEF HandleGetNotifications, Fetch
<1>2. CASE Refuse
  BY <1>1, <1>2, RefuseKeeps
<1>3. CASE Reply(Head(wire), Ok(x))
  <2> DEFINE d == Head(wire).depth
  <2>0. KeptInv
    BY DEF DeskInv
  <2>1. /\ IsReply(Ok(x)) /\ x \in Seq(Item) /\ Ids(x) = RowsOf(reader)
        /\ \A j \in DOMAIN x : Honest(x[j])
    BY <2>0, NewestIs DEF IsReply, Ok
  <2> HIDE DEF x
  <2>2. /\ Fits(wire', stack') /\ Len(stack') = Len(stack) /\ DOMAIN stack' = DOMAIN stack
        /\ From(wire', wire) /\ From(stack', stack) /\ Len(stack') <= MaxDepth
        /\ \A i \in DOMAIN stack : i # d => stack'[i] = stack[i]
        /\ d # 0 => stack[d].got = None /\ stack'[d].got = Ok(x) /\ stack'[d].do = "feed"
        /\ d = 0 => stack' = stack
        /\ \A D : "feed" \notin D => Calm(D, stack, stack')
    BY <1>1, <1>3, <2>1, Handles
  <2>3. WaitsInv /\ KeptInv /\ TitlesInv /\ FiguresInv /\ PromotionsInv /\ FeedInv
    BY DEF DeskInv
  <2>4. WaitsInv'
    BY <1>1, <2>2, <2>3, WaitsKept DEF server, RowsOf
  <2>5. KeptInv'
    BY <1>1, <2>3, KeptSame DEF history, KeptInv, bounds
  <2>6. TitlesInv'
    BY <1>1, <2>2, <2>3, TitlesKept DEF server, history, TitlesInv, bounds
  <2>7. PromotionsInv'
    BY <1>1, <2>2, <2>3, PromotionsCalm DEF server, history, Backed
  <2>8. FiguresInv'
    BY <1>1, <2>2, <2>3, FiguresKept DEF server, history, TitlesInv, Noted, IsNote
  <2>9. FeedInv'
    <3>1. UNCHANGED <<rows, feed, swept, gaps, events>>
      BY <1>1 DEF server, history
    <3>2. RowsOf(reader)' = RowsOf(reader) /\ \A n : Pushed(n)' <=> Pushed(n)
      BY <3>1 DEF RowsOf, Pushed, IsNote
    <3>3. ASSUME NEW i \in DOMAIN stack, NEW n \in RowsOf(reader), Brings(stack[i], n)
          PROVE  i \in DOMAIN stack' /\ Brings(stack'[i], n)
      <4>1. CASE i = d /\ d # 0
        BY <2>1, <2>2, <4>1, Outcomes DEF Brings
      <4>2. CASE ~ (i = d /\ d # 0)
        BY <2>2, <3>3, <4>2
      <4> QED
        BY <4>1, <4>2
    <3>4. ASSUME NEW n \in RowsOf(reader), Shown(n) PROVE Shown(n)'
      BY <3>1, <3>2, <3>3, <3>4 DEF Shown
    <3>5. gaps' \/ \A n \in RowsOf(reader)' : Shown(n)'
      BY <2>3, <3>1, <3>2, <3>4 DEF FeedInv
    <3>6. \A c : Honest(c)' <=> Honest(c)
      BY <3>1, <3>2 DEF Honest
    <3>7. ASSUME NEW i \in DOMAIN stack', Good(stack'[i])
          PROVE  /\ stack'[i].do = "feed" =>
                      /\ stack'[i].got.data \in Seq(Item)
                      /\ \A j \in DOMAIN stack'[i].got.data : Honest(stack'[i].got.data[j])
                 /\ stack'[i].do = "read" => rows[stack'[i].arg.note].read
                 /\ stack'[i].do = "readAll" => \A j \in DOMAIN feed : ReadFor(feed[j].id)
      <4>1. CASE i = d /\ d # 0
        BY <2>1, <2>2, <4>1, Outcomes
      <4>2. CASE ~ (i = d /\ d # 0)
        <5>1. i \in DOMAIN stack /\ stack'[i] = stack[i]
          BY <2>2, <4>2
        <5>2. Good(stack[i])
          BY <3>7, <5>1
        <5>3. FeedInv
          BY <2>3
        <5> QED
          BY <5>1, <5>2, <5>3 DEF FeedInv
      <4> QED
        BY <4>1, <4>2
    <3>8. \A j \in DOMAIN feed : feed[j].read => ReadFor(feed[j].id)
      BY <2>3 DEF FeedInv
    <3> QED
      BY <3>1, <3>2, <3>5, <3>7, <3>8 DEF FeedInv, Honest, ReadFor, Good, RowsOf
  <2> QED
    BY <2>4, <2>5, <2>6, <2>7, <2>8, <2>9 DEF DeskInv
<1> QED
  BY <1>2, <1>3 DEF HandleGetNotifications, Fetch

\* A discount is announced to whoever listens.
LEMMA BroadcastFacts ==
  ASSUME KeptInv, NEW ok, Broadcast(ok), UNCHANGED <<rows, session, who>>
  PROVE  /\ IsSeq(events') /\ EventsFit' /\ (Noted => Noted')
         /\ \A n : Pushed(n) => Pushed(n)'
<1>1. \A e : IsEvent(e) => IsEvent(e)'
  BY DEF IsEvent, IsNote
<1>2. CASE ok
  <2> DEFINE e == [is |-> "discount", id |-> 0]
  <2>1. events' = Append(events, e) /\ IsEvent(e) /\ ~ IsNote(e)
    BY <1>2 DEF Broadcast, IsEvent, IsNote
  <2> HIDE DEF e
  <2>2. /\ IsSeq(events') /\ DOMAIN events' = 1 .. Len(events) + 1
        /\ events'[Len(events) + 1] = e
        /\ \A i \in 1 .. Len(events) : events'[i] = events[i]
        /\ DOMAIN events = 1 .. Len(events) /\ Len(events) \in Nat
    BY <2>1, PushSeq, SeqShape DEF KeptInv
  <2>3. \A i \in DOMAIN events' : events'[i] = e \/ \E j \in DOMAIN events : events'[i] = events[j]
    BY <2>2
  <2>4. EventsFit'
    <3>1. \A i \in DOMAIN events' : \E c : events'[i] = c /\ IsEvent(c)'
      BY <1>1, <2>1, <2>3 DEF KeptInv, EventsFit
    <3> QED
      BY <3>1 DEF EventsFit, IsEvent, IsNote
  <2>5. \A i \in DOMAIN events : i \in DOMAIN events' /\ events'[i] = events[i]
    BY <2>2
  <2> QED
    BY <2>2, <2>4, <2>5 DEF Noted, Pushed, IsNote
<1>3. CASE ~ ok
  <2>1. events' = events
    BY <1>3 DEF Broadcast
  <2> QED
    BY <2>1 DEF KeptInv, EventsFit, IsEvent, IsNote, Noted, Pushed
<1> QED
  BY <1>2, <1>3

\* A book is rewritten; a discount that goes while it is listed is undone.
LEMMA RewriteKeeps ==
  ASSUME DeskInv, NEW do \in OnBooks, Handle(do), NEW to \in Books,
         do = "promote" => to.off, Rewrite(Head(wire).arg.book, to),
         NEW ok, Broadcast(ok),
         UNCHANGED <<sold, rows, session, who, desk, local, analytics, promos, feed, bounds,
                     told, skewed, gaps, swept>>
  PROVE  DeskInv'
<1>1. PICK b : b = Head(wire).arg.book
  OBVIOUS
<1> DEFINE d == Head(wire).depth
           n == Len(stock)
<1>2. /\ stock' = [stock EXCEPT ![b] = to] /\ Reply(Head(wire), Ok(b)) /\ IsReply(Ok(b))
      /\ undone' = IF stock[b].off /\ ~ to.off /\ (b \in promos \/ Promoting(stack, b))
                   THEN undone \cup {b} ELSE undone
  BY <1>1 DEF Rewrite, IsReply, Ok
<1>3. /\ Fits(wire', stack') /\ Len(stack') = Len(stack) /\ DOMAIN stack' = DOMAIN stack
      /\ From(wire', wire) /\ From(stack', stack) /\ Len(stack') <= MaxDepth
      /\ Asks(Head(wire)) /\ Head(wire).do = do
      /\ \A i \in DOMAIN stack : i # d => stack'[i] = stack[i]
      /\ d # 0 => stack'[d].arg = Head(wire).arg /\ stack'[d].do = do
      /\ d = 0 => stack' = stack
      /\ \A D : do \notin D => Calm(D, stack, stack')
  BY <1>2, Handles
<1>4. WaitsInv /\ KeptInv /\ TitlesInv /\ FiguresInv /\ PromotionsInv /\ FeedInv
  BY DEF DeskInv
<1>5. b \in DOMAIN stock
  BY <1>1, <1>3 DEF Asks
<1>6. stock \in Seq(Books) /\ n \in Nat /\ DOMAIN stock = 1 .. n
  BY <1>4, LenProperties DEF KeptInv
<1>7. /\ stock' \in Seq(Books) /\ Len(stock') = n /\ DOMAIN stock' = 1 .. n
      /\ stock'[b] = to /\ \A c \in DOMAIN stock : c # b => stock'[c] = stock[c]
  <2>1. stock' \in Seq(Books) /\ Len(stock') = n
    BY <1>2, <1>5, <1>6, ExceptSeq
  <2> QED
    BY <1>2, <1>5, <1>6, <2>1, LenProperties
<1>8. /\ IsSeq(events') /\ EventsFit' /\ (Noted => Noted')
      /\ \A m : Pushed(m) => Pushed(m)'
  BY <1>4, BroadcastFacts
<1>9. WaitsInv'
  BY <1>3, <1>4, <1>6, <1>7, WaitsKept DEF RowsOf
<1>10. KeptInv'
  BY <1>4, <1>6, <1>7, <1>8 DEF KeptInv, bounds, RowsOf, Ids
<1>11. TitlesInv'
  <2>1. Calm({"add"}, stack, stack')
    BY <1>3 DEF OnBooks
  <2> QED
    BY <1>3, <1>4, <1>7, <2>1, TitlesKept DEF TitlesInv, bounds
<1>12. FiguresInv'
  <2>1. Calm({"add", "analytics"}, stack, stack') /\ told \in Nat
    BY <1>3, <1>4 DEF OnBooks, TitlesInv
  <2> QED
    BY <1>4, <1>7, <1>8, <2>1, FiguresKept
<1>13. FeedInv'
  <2>1. Calm(OfFeed, stack, stack')
    BY <1>3 DEF OnBooks, OfFeed
  <2> QED
    BY <1>4, <1>8, <2>1, FeedKept
<1>14. PromotionsInv'
  <2>1. ASSUME NEW i \in DOMAIN stack', stack'[i].do = "promote", Good(stack'[i])
        PROVE  \/ i \in DOMAIN stack /\ Follows(stack[i], stack'[i])
               \/ stock'[stack'[i].arg.book].off
    <3>1. CASE i = d /\ d # 0
      BY <1>1, <1>3, <1>7, <2>1, <3>1
    <3>2. CASE ~ (i = d /\ d # 0)
      BY <1>3, <3>2, FollowsItself
    <3> QED
      BY <3>1, <3>2
  <2>2. \A c : Promoting(stack', c) => Promoting(stack, c)
    BY <1>3 DEF Promoting, From
  <2>3. ASSUME NEW c \in DOMAIN stock, Backed(c), c \in promos' \/ Promoting(stack', c)
        PROVE  Backed(c)'
    <3>1. CASE c = b
      BY <1>2, <1>7, <2>2, <2>3, <3>1 DEF Backed
    <3>2. CASE c # b
      BY <1>2, <1>7, <2>3, <3>2 DEF Backed
    <3> QED
      BY <3>1, <3>2
  <2> QED
    BY <1>4, <2>1, <2>3, PromotionsKept
<1> QED
  BY <1>9, <1>10, <1>11, <1>12, <1>13, <1>14 DEF DeskInv

LEMMA RewritesKeep ==
  DeskInv /\ (HandleUpdateBook \/ HandleActivation \/ HandleApplyTimedDiscount \/ HandleClearDiscount)
    => DeskInv'
<1> DEFINE Rest == UNCHANGED <<sold, rows, session, who, desk, local, analytics, promos, feed,
                               bounds, told, skewed, gaps, swept>>
           Quiet == Refuse /\ UNCHANGED <<stock, undone>>
           q == Head(wire)
           c == stock[q.arg.book]
<1> SUFFICES ASSUME DeskInv PROVE
      HandleUpdateBook \/ HandleActivation \/ HandleApplyTimedDiscount \/ HandleClearDiscount
        => DeskInv'
  OBVIOUS
<1>1. ASSUME NEW do, Handle(do), Quiet, Rest, UNCHANGED events PROVE DeskInv'
  BY <1>1, RefuseKeeps DEF server, history
<1>2. ASSUME NEW do \in OnBooks, Handle(do) PROVE c \in Books /\ (do = "status" => q.arg.on \in BOOLEAN)
  <2>1. wire # <<>> /\ Head(wire).do = do /\ WaitsInv /\ stock \in Seq(Books)
    BY <1>2 DEF Handle, DeskInv, KeptInv
  <2>2. 1 \in DOMAIN wire /\ Head(wire) = wire[1]
    <3>1. Len(wire) \in Nat \ {0} /\ Head(wire) = wire[1]
      BY <2>1, TailSeq DEF WaitsInv, Wired
    <3>2. DOMAIN wire = 1 .. Len(wire)
      BY <2>1, SeqShape DEF WaitsInv, Wired
    <3> QED
      BY <3>1, <3>2
  <2>3. q.arg.book \in DOMAIN stock /\ (do = "status" => q.arg.on \in BOOLEAN)
    BY <1>2, <2>1, <2>2 DEF WaitsInv, Asked, Asks
  <2> QED
    BY <2>1, <2>3, LenProperties
<1>3. \A ok : ~ ok /\ UNCHANGED events => Broadcast(ok)
  BY DEF Broadcast
<1>4. Broadcast(FALSE) <=> UNCHANGED events
  BY DEF Broadcast
<1>5. ASSUME HandleUpdateBook PROVE DeskInv'
  <2>1. /\ Handle("update") /\ Rest /\ UNCHANGED events
        /\ Quiet \/ Rewrite(q.arg.book, [c EXCEPT !.off = FALSE])
    BY <1>5 DEF HandleUpdateBook, Rewrites
  <2>2. "update" \in OnBooks
    BY DEF OnBooks
  <2>3. [c EXCEPT !.off = FALSE] \in Books
    BY <1>2, <2>1, <2>2 DEF Books
  <2> QED
    BY <1>1, <1>4, <2>1, <2>2, <2>3, RewriteKeeps
<1>6. ASSUME HandleActivation PROVE DeskInv'
  <2>1. /\ Handle("status") /\ Rest /\ UNCHANGED events
        /\ Quiet \/ Rewrite(q.arg.book, [c EXCEPT !.on = q.arg.on])
    BY <1>6 DEF HandleActivation, Rewrites
  <2>2. "status" \in OnBooks
    BY DEF OnBooks
  <2>3. [c EXCEPT !.on = q.arg.on] \in Books
    BY <1>2, <2>1, <2>2 DEF Books
  <2> QED
    BY <1>1, <1>4, <2>1, <2>2, <2>3, RewriteKeeps
<1>7. ASSUME HandleApplyTimedDiscount PROVE DeskInv'
  <2>1. /\ Handle("promote") /\ Rest /\ Broadcast(stock' # stock)
        /\ Quiet \/ Rewrite(q.arg.book, [c EXCEPT !.off = TRUE])
    BY <1>7 DEF HandleApplyTimedDiscount, Rewrites
  <2>2. "promote" \in OnBooks
    BY DEF OnBooks
  <2>3. [c EXCEPT !.off = TRUE] \in Books /\ [c EXCEPT !.off = TRUE].off
    BY <1>2, <2>1, <2>2 DEF Books
  <2>4. Quiet => UNCHANGED events
    BY <2>1 DEF Broadcast
  <2> QED
    BY <1>1, <2>1, <2>2, <2>3, <2>4, RewriteKeeps
<1>8. ASSUME HandleClearDiscount PROVE DeskInv'
  <2>1. /\ Handle("unpromote") /\ Rest /\ Broadcast(Allowed(publisher))
        /\ \/ Quiet /\ ~ Allowed(publisher)
           \/ Rewrite(q.arg.book, [c EXCEPT !.off = FALSE])
    BY <1>8 DEF HandleClearDiscount, Rewrites, EveryBook
  <2>2. "unpromote" \in OnBooks
    BY DEF OnBooks
  <2>3. [c EXCEPT !.off = FALSE] \in Books
    BY <1>2, <2>1, <2>2 DEF Books
  <2>4. ~ Allowed(publisher) => UNCHANGED events
    BY <2>1 DEF Broadcast
  <2> QED
    BY <1>1, <2>1, <2>2, <2>3, <2>4, RewriteKeeps
<1> QED
  BY <1>5, <1>6, <1>7, <1>8

\* Notifications become read, for whom they are for; who asked is told so.
LEMMA RowsReadKeep ==
  ASSUME DeskInv, NEW do \in {"read", "readAll"}, NEW x, Handle(do), Reply(Head(wire), Ok(x)),
         rows' \in Seq(Row), DOMAIN rows' = DOMAIN rows,
         \A n \in DOMAIN rows : rows'[n].to = rows[n].to /\ (rows[n].read => rows'[n].read),
         IF do = "read" THEN rows'[Head(wire).arg.note].read
         ELSE \A n \in RowsOf(reader) : rows'[n].read,
         UNCHANGED <<stock, sold, session, who, desk, local, analytics, promos, feed, events,
                     bounds, history>>
  PROVE  DeskInv'
<1> DEFINE d == Head(wire).depth
<1>1. IsReply(Ok(x))
  BY DEF IsReply, Ok
<1>2. /\ Fits(wire', stack') /\ Len(stack') = Len(stack) /\ DOMAIN stack' = DOMAIN stack
      /\ From(wire', wire) /\ From(stack', stack) /\ Len(stack') <= MaxDepth
      /\ \A i \in DOMAIN stack : i # d => stack'[i] = stack[i]
      /\ d # 0 => stack'[d].arg = Head(wire).arg /\ stack'[d].do = do
      /\ d = 0 => stack' = stack
      /\ \A D : do \notin D => Calm(D, stack, stack')
  BY <1>1, Handles
<1>3. WaitsInv /\ KeptInv /\ TitlesInv /\ FiguresInv /\ PromotionsInv /\ FeedInv
  BY DEF DeskInv
<1>4. RowsOf(reader)' = RowsOf(reader)
  BY DEF RowsOf
<1>5. WaitsInv'
  BY <1>2, <1>3, <1>4, WaitsKept
<1>6. KeptInv'
  <2>1. EventsFit'
    BY <1>3 DEF KeptInv, EventsFit, IsEvent, IsNote
  <2>2. Ids(feed)' \subseteq RowsOf(reader)'
    BY <1>3, <1>4 DEF KeptInv, Ids
  <2> QED
    BY <1>3, <2>1, <2>2 DEF KeptInv, history, bounds
<1>7. TitlesInv'
  BY <1>2, <1>3, TitlesKept DEF history, TitlesInv, bounds
<1>8. FiguresInv'
  BY <1>2, <1>3, FiguresKept DEF history, TitlesInv, Noted, IsNote
<1>9. PromotionsInv'
  BY <1>2, <1>3, PromotionsCalm DEF history, Backed
<1>10. FeedInv'
  <2>1. ASSUME NEW i \in DOMAIN stack', Good(stack'[i])
        PROVE  \/ i \in DOMAIN stack /\ Follows(stack[i], stack'[i])
               \/ stack'[i].do = "read" /\ rows'[stack'[i].arg.note].read
               \/ stack'[i].do = "readAll" /\ \A j \in DOMAIN feed : rows'[feed[j].id].read
    <3>1. CASE i = d /\ d # 0
      <4>1. \A j \in DOMAIN feed : feed[j].id \in RowsOf(reader)
        BY <1>3 DEF KeptInv, Ids
      <4> QED
        BY <1>2, <3>1, <4>1
    <3>2. CASE ~ (i = d /\ d # 0)
      BY <1>2, <3>2, FollowsItself
    <3> QED
      BY <3>1, <3>2
  <2>2. \A n \in RowsOf(reader) : n \in RowsOf(reader)' /\ (rows[n].read => rows'[n].read)
    BY <1>4 DEF RowsOf
  <2>3. \A n : Pushed(n) => Pushed(n)'
    BY DEF Pushed, IsNote
  <2>4. Calm({"feed"}, stack, stack')
    BY <1>2
  <2> QED
    BY <1>3, <1>4, <2>1, <2>2, <2>3, <2>4, FeedGrows DEF history
<1> QED
  BY <1>5, <1>6, <1>7, <1>8, <1>9, <1>10 DEF DeskInv

LEMMA MarksKeep ==
  DeskInv /\ (HandleMarkNotificationRead \/ HandleMarkAllNotificationsRead) => DeskInv'
<1> DEFINE Rest == UNCHANGED <<stock, sold, session, who, desk, local, analytics, promos, feed,
                               events, bounds, history>>
<1> SUFFICES ASSUME DeskInv PROVE
      HandleMarkNotificationRead \/ HandleMarkAllNotificationsRead => DeskInv'
  OBVIOUS
<1>1. ASSUME NEW do, Handle(do), Refuse, UNCHANGED rows, Rest PROVE DeskInv'
  BY <1>1, RefuseKeeps DEF server
<1>2. ASSUME NEW do, Handle(do) PROVE Asks(Head(wire))
  <2>1. wire # <<>> /\ WaitsInv
    BY <1>2 DEF Handle, DeskInv
  <2>2. Len(wire) \in Nat \ {0} /\ Head(wire) = wire[1] /\ DOMAIN wire = 1 .. Len(wire)
    BY <2>1, TailSeq, SeqShape DEF WaitsInv, Wired
  <2>3. 1 \in DOMAIN wire
    BY <2>2
  <2> QED
    BY <2>1, <2>2, <2>3 DEF WaitsInv, Asked
<1>3. rows \in Seq(Row) /\ Len(rows) \in Nat /\ DOMAIN rows = 1 .. Len(rows)
  BY LenProperties DEF DeskInv, KeptInv
<1>4. ASSUME HandleMarkNotificationRead PROVE DeskInv'
  <2> DEFINE n == Head(wire).arg.note
  <2>1. /\ Handle("read") /\ Rest
        /\ \/ Refuse /\ UNCHANGED rows
           \/ rows' = [rows EXCEPT ![n].read = TRUE] /\ Reply(Head(wire), Ok(n))
    BY <1>4 DEF HandleMarkNotificationRead
  <2>2. n \in RowsOf(reader) /\ n \in DOMAIN rows
    BY <1>2, <2>1 DEF Asks, RowsOf, Handle
  <2>3. CASE rows' = [rows EXCEPT ![n].read = TRUE] /\ Reply(Head(wire), Ok(n))
    <3>1. rows \in [1 .. Len(rows) -> Row]
      BY <1>3, LenProperties
    <3>2. rows' \in [1 .. Len(rows) -> Row]
      BY <1>3, <2>2, <2>3, <3>1 DEF Row
    <3>3. rows' \in Seq(Row) /\ DOMAIN rows' = DOMAIN rows
      BY <1>3, <3>2, SeqDef
    <3>4. rows'[n].read /\ \A m \in DOMAIN rows : rows'[m].to = rows[m].to /\ (rows[m].read => rows'[m].read)
      BY <1>3, <2>2, <2>3, <3>1 DEF Row
    <3> QED
      BY <2>1, <2>3, <3>3, <3>4, RowsReadKeep
  <2> QED
    BY <1>1, <2>1, <2>3
<1>5. ASSUME HandleMarkAllNotificationsRead PROVE DeskInv'
  <2>1. /\ Handle("readAll") /\ Rest
        /\ \/ Refuse /\ UNCHANGED rows
           \/ /\ session # Nobody /\ Reply(Head(wire), Ok(0))
              /\ rows' = [n \in DOMAIN rows |->
                            IF rows[n].to = session THEN [rows[n] EXCEPT !.read = TRUE]
                            ELSE rows[n]]
    BY <1>5 DEF HandleMarkAllNotificationsRead
  <2>2. CASE session # Nobody /\ Reply(Head(wire), Ok(0))
             /\ rows' = [n \in DOMAIN rows |->
                            IF rows[n].to = session THEN [rows[n] EXCEPT !.read = TRUE]
                            ELSE rows[n]]
    <3>1. rows \in [1 .. Len(rows) -> Row]
      BY <1>3, LenProperties
    <3>2. session = reader
      <4>1. who = reader
        BY <1>2, <2>1 DEF Asks, Handle, OfDesk, OnBooks
      <4> QED
        BY <2>2, <4>1 DEF DeskInv, KeptInv
    <3>3. rows' \in [1 .. Len(rows) -> Row]
      BY <1>3, <2>2, <3>1 DEF Row
    <3>4. rows' \in Seq(Row) /\ DOMAIN rows' = DOMAIN rows
      BY <1>3, <3>3, SeqDef
    <3>5. /\ \A m \in DOMAIN rows : rows'[m].to = rows[m].to /\ (rows[m].read => rows'[m].read)
          /\ \A m \in RowsOf(reader) : rows'[m].read
      BY <1>3, <2>2, <3>1, <3>2 DEF Row, RowsOf
    <3> QED
      BY <2>1, <2>2, <3>4, <3>5, RowsReadKeep
  <2> QED
    BY <1>1, <2>1, <2>2
<1> QED
  BY <1>4, <1>5

\* Sales and other publishers' books: somebody is notified.
LEMMA NewsKeeps ==
  ASSUME DeskInv, NEW u \in Users, Notify(u), sales' \in 0 .. MaxSales,
         sold' \in Nat, sold' <= sales',
         stack' = stack \/ stack' = Aged(stack),
         \/ sold' = sold /\ skewed' = skewed
         \/ /\ u = publisher /\ skewed' = (skewed \/ session # publisher)
            /\ (session = publisher \/ stack' = Aged(stack)),
         (gaps' = gaps /\ u # reader) \/ gaps' = (gaps \/ session # reader),
         UNCHANGED <<stock, session, who, desk, local, analytics, promos, feed, wire, calls,
                     told, swept, undone>>
  PROVE  DeskInv'
<1>1. WaitsInv /\ KeptInv /\ TitlesInv /\ FiguresInv /\ PromotionsInv /\ FeedInv
  BY DEF DeskInv
<1>2. /\ Fits(wire', stack') /\ From(stack', stack) /\ From(wire', wire)
      /\ Len(stack') = Len(stack) /\ DOMAIN stack' = DOMAIN stack
      /\ \A D : Calm(D, stack, stack')
      /\ \A i \in DOMAIN stack : Follows(stack[i], stack'[i])
      /\ stack' = Aged(stack) => \A i \in DOMAIN stack : Good(stack'[i]) => stack'[i].old
  <2>1. Stacked(stack) /\ Linked(wire, stack) /\ Wired(wire)
    BY <1>1 DEF WaitsInv
  <2>2. CASE stack' = stack
    <3>1. From(stack', stack) /\ (\A D : Calm(D, stack, stack'))
          /\ \A i \in DOMAIN stack : Follows(stack[i], stack'[i])
      BY <2>2, FollowsItself DEF From, Calm
    <3>2. stack' = Aged(stack) => \A i \in DOMAIN stack : Good(stack'[i]) => stack'[i].old
      BY <2>1, <2>2, AgedStack, Outcomes DEF Good
    <3> QED
      BY <2>1, <2>2, <3>1, <3>2 DEF Fits, From
  <2>3. CASE stack' = Aged(stack)
    BY <2>1, <2>3, AgedStack, Outcomes DEF Fits, From, Good
  <2> QED
    BY <2>2, <2>3
<1>3. /\ rows' \in Seq(Row) /\ \A n \in DOMAIN rows : n \in DOMAIN rows' /\ rows'[n] = rows[n]
      /\ \A n \in RowsOf(reader) : n \in RowsOf(reader)' /\ rows'[n] = rows[n]
      /\ \A n \in RowsOf(reader)' :
           n \in RowsOf(reader) \/ (u = reader /\ (session = u => Pushed(n)'))
      /\ IsSeq(events') /\ EventsFit'
      /\ \A n : Pushed(n) => Pushed(n)'
      /\ Noted => Noted'
      /\ session = u /\ u = publisher => Noted'
  BY <1>1, NotifyFacts
<1>4. skewed' \in BOOLEAN /\ gaps' \in BOOLEAN
  BY <1>1 DEF KeptInv
<1>5. WaitsInv'
  <2>1. Len(stack') <= MaxDepth /\ RowsOf(reader) \subseteq RowsOf(reader)'
    BY <1>1, <1>2, <1>3 DEF WaitsInv
  <2> QED
    BY <1>1, <1>2, <2>1, WaitsKept
<1>6. KeptInv'
  <2>1. Ids(feed)' \subseteq RowsOf(reader)'
    BY <1>1, <1>3 DEF KeptInv, Ids
  <2> QED
    BY <1>1, <1>3, <1>4, <2>1 DEF KeptInv
<1>7. TitlesInv'
  BY <1>1, <1>2, TitlesKept DEF TitlesInv
<1>8. PromotionsInv'
  BY <1>1, <1>2, PromotionsCalm DEF Backed
<1>9. FiguresInv'
  <2>1. CASE sold' = sold /\ skewed' = skewed
    BY <1>1, <1>2, <1>3, <2>1, FiguresKept DEF TitlesInv
  <2>2. CASE session = publisher /\ u = publisher
    <3>1. Noted'
      BY <1>3, <2>2
    <3>2. \A i \in DOMAIN stack' : FetchedFigures(stack'[i]) =>
            FetchedFigures(stack[i]) /\ stack'[i].got.data = stack[i].got.data
      BY <1>2 DEF FetchedFigures, Follows
    <3> QED
      BY <1>1, <1>2, <3>1, <3>2 DEF FiguresInv, FiguresHold
  <2>3. CASE session # publisher /\ skewed' = TRUE /\ stack' = Aged(stack)
    <3>1. \A i \in DOMAIN stack' : FetchedFigures(stack'[i]) =>
            FetchedFigures(stack[i]) /\ stack'[i].got.data = stack[i].got.data /\ stack'[i].old
      BY <1>2, <2>3 DEF FetchedFigures, Follows
    <3> QED
      BY <1>1, <1>2, <2>3, <3>1 DEF FiguresInv, FiguresHold
  <2> QED
    BY <2>1, <2>2, <2>3
<1>10. FeedInv'
  <2>1. \A n \in RowsOf(reader)' : n \in RowsOf(reader) \/ gaps' \/ Pushed(n)'
    BY <1>3
  <2>2. \A i \in DOMAIN stack' : i \in DOMAIN stack /\ Follows(stack[i], stack'[i])
    BY <1>2
  <2>3. gaps => gaps'
    BY <1>1 DEF KeptInv
  <2>4. Calm({"feed"}, stack, stack')
    BY <1>2
  <2> QED
    BY <1>1, <1>3, <2>1, <2>2, <2>3, <2>4, FeedGrows
<1> QED
  BY <1>5, <1>6, <1>7, <1>8, <1>9, <1>10 DEF DeskInv

LEMMA SalesKeep == DeskInv /\ (Sale \/ OtherBook) => DeskInv'
<1> SUFFICES ASSUME DeskInv PROVE (Sale => DeskInv') /\ (OtherBook => DeskInv')
  OBVIOUS
<1>1. sold \in Nat /\ sold <= sales /\ sales \in 0 .. MaxSales /\ MaxSales \in Nat
  BY DeskAssumption DEF DeskInv, KeptInv
<1>2. ASSUME Sale PROVE DeskInv'
  <2>1. /\ sales' = sales + 1 /\ sales < MaxSales /\ sold' = sold + 1 /\ Notify(publisher)
        /\ skewed' = (skewed \/ session # publisher)
        /\ stack' = IF session = publisher THEN stack ELSE Aged(stack)
        /\ UNCHANGED <<stock, session, who, desk, local, analytics, promos, feed, wire, calls,
                       told, gaps, swept, undone>>
    BY <1>2 DEF Sale
  <2>2. sales' \in 0 .. MaxSales /\ sold' \in Nat /\ sold' <= sales'
    BY <1>1, <2>1
  <2>3. publisher \in Users /\ publisher # reader
    BY DeskAssumption DEF Users
  <2> QED
    BY <2>1, <2>2, <2>3, NewsKeeps
<1>3. ASSUME OtherBook PROVE DeskInv'
  <2>1. /\ sales' = sales + 1 /\ sales < MaxSales /\ Notify(reader)
        /\ gaps' = (gaps \/ session # reader)
        /\ UNCHANGED <<stock, sold, session, who, desk, local, analytics, promos, feed, stack,
                       wire, calls, told, skewed, swept, undone>>
    BY <1>3 DEF OtherBook
  <2>2. sales' \in 0 .. MaxSales /\ sold' \in Nat /\ sold' <= sales'
    BY <1>1, <2>1
  <2>3. reader \in Users
    BY DEF Users
  <2> QED
    BY <2>1, <2>2, <2>3, NewsKeeps
<1> QED
  BY <1>2, <1>3

LEMMA UntoldFinite ==
  ASSUME NEW s, Stacked(s)
  PROVE  \A T \in SUBSET DOMAIN s : IsFiniteSet(T) /\ Cardinality(T) \in Nat
<1>1. Len(s) \in Nat /\ DOMAIN s = 1 .. Len(s)
  BY SeqShape DEF Stacked
<1>2. IsFiniteSet(DOMAIN s)
  BY <1>1, FS_Interval
<1> QED
  BY <1>2, FS_Subset, FS_CardinalityType

\* A title is published: the page is yet to be told, unless it waits no longer.
LEMMA PublishKeeps == DeskInv /\ HandlePublishBook => DeskInv'
<1> SUFFICES ASSUME DeskInv, HandlePublishBook PROVE DeskInv'
  OBVIOUS
<1> DEFINE d == Head(wire).depth
           n == Len(stock)
           x == n + 1
           new == [on |-> TRUE, off |-> FALSE]
<1>1. /\ Handle("add")
      /\ UNCHANGED <<sold, session, who, desk, local, analytics, promos, feed, bounds, told,
                     swept, undone>>
  BY DEF HandlePublishBook
<1>2. CASE Refuse /\ UNCHANGED <<stock, rows, events, gaps, skewed>>
  BY <1>1, <1>2, RefuseKeeps DEF server, history
<1>3. CASE /\ n < MaxBooks /\ stock' = Append(stock, new)
           /\ Notify(reader) /\ gaps' = TRUE /\ skewed' = (skewed \/ d = 0)
           /\ IF d = 0 THEN wire' = Tail(wire) /\ stack' = Aged(stack)
              ELSE Reply(Head(wire), Ok(x))
  <2>1. WaitsInv /\ KeptInv /\ TitlesInv /\ FiguresInv /\ PromotionsInv /\ FeedInv
    BY DEF DeskInv
  <2>2. /\ stock' \in Seq(Books) /\ n \in Nat \ {0} /\ Len(stock') = x /\ x <= MaxBooks
        /\ DOMAIN stock = 1 .. n /\ DOMAIN stock' = 1 .. x
        /\ \A i \in 1 .. n : stock'[i] = stock[i]
    <3>1. stock \in Seq(Books) /\ n \in 1 .. MaxBooks /\ new \in Books /\ MaxBooks \in Nat
      BY <2>1, DeskAssumption DEF KeptInv, Books
    <3>2. /\ stock' \in Seq(Books) /\ Len(stock') = x
          /\ \A i \in 1 .. n : stock'[i] = stock[i]
      BY <1>3, <3>1, AppendProperties
    <3> QED
      BY <1>3, <3>1, <3>2, LenProperties
  <2>3. /\ rows' \in Seq(Row) /\ \A m \in DOMAIN rows : m \in DOMAIN rows' /\ rows'[m] = rows[m]
        /\ \A m \in RowsOf(reader) : m \in RowsOf(reader)' /\ rows'[m] = rows[m]
        /\ IsSeq(events') /\ EventsFit'
        /\ \A m : Pushed(m) => Pushed(m)'
        /\ Noted => Noted'
    <3>1. reader \in Users
      BY DEF Users
    <3> QED
      BY <1>1, <1>3, <2>1, <3>1, NotifyFacts
  <2>4. Stacked(stack) /\ Linked(wire, stack) /\ Wired(wire) /\ wire # <<>>
    BY <1>1, <2>1 DEF WaitsInv, Handle
  <2>5. /\ Fits(wire', stack') /\ From(stack', stack) /\ From(wire', wire)
        /\ Len(stack') = Len(stack) /\ DOMAIN stack' = DOMAIN stack
        /\ \A D : "add" \notin D => Calm(D, stack, stack')
        /\ d = 0 => /\ Calm({"add"}, stack, stack') /\ skewed' = TRUE
                    /\ \A i \in DOMAIN stack : /\ Follows(stack[i], stack'[i])
                                               /\ Good(stack'[i]) => stack'[i].old
        /\ d # 0 => /\ d \in DOMAIN stack /\ ~ Added(stack[d]) /\ Added(stack'[d])
                    /\ \A i \in DOMAIN stack : i # d => stack'[i] = stack[i]
                    /\ stack'[d].do = "add" /\ skewed' = skewed
    <3>1. CASE d = 0
      <4>1. Reply(Head(wire), Ok(x)) <=> wire' = Tail(wire) /\ stack' = stack
        BY <3>1 DEF Reply
      <4>2. wire' = Tail(wire) /\ stack' = Aged(stack) /\ skewed' = TRUE
        BY <1>3, <3>1
      <4>3. /\ IsSeq(wire') /\ Len(wire) \in Nat \ {0} /\ Len(wire') = Len(wire) - 1
            /\ \A i \in 1 .. Len(wire) - 1 : wire'[i] = wire[i + 1]
        BY <2>4, <4>2, TailSeq DEF Wired
      <4>4. DOMAIN wire = 1 .. Len(wire) /\ DOMAIN wire' = 1 .. Len(wire) - 1
        BY <2>4, <4>3, SeqShape DEF Wired
      <4>5. \A i \in DOMAIN wire' : i + 1 \in DOMAIN wire /\ wire'[i] = wire[i + 1]
        BY <4>3, <4>4
      <4>6. Wired(wire') /\ From(wire', wire)
        BY <2>4, <4>3, <4>5 DEF Wired, From
      <4>7. /\ Stacked(stack') /\ Linked(wire, stack') /\ Len(stack') = Len(stack)
            /\ DOMAIN stack' = DOMAIN stack /\ From(stack', stack)
            /\ \A D : Calm(D, stack, stack')
            /\ \A i \in DOMAIN stack : /\ Follows(stack[i], stack'[i])
                                       /\ stack'[i].got = stack[i].got
                                       /\ stack[i].got # None => stack'[i].old
        BY <2>4, <4>2, AgedStack
      <4>8. Linked(wire', stack')
        <5>1. \A i, j \in DOMAIN wire' : j + 1 = i + 1 => j = i
          BY <4>4
        <5> QED
          BY <4>5, <4>7, <5>1 DEF Linked
      <4>9. \A i \in DOMAIN stack : Good(stack'[i]) => stack'[i].old
        BY <4>7, Outcomes DEF Good
      <4> QED
        BY <3>1, <4>2, <4>6, <4>7, <4>8, <4>9 DEF Fits
    <3>2. CASE d # 0
      <4>1. IsReply(Ok(x)) /\ Reply(Head(wire), Ok(x))
        BY <1>3, <3>2 DEF IsReply, Ok
      <4> HIDE DEF x
      <4>2. /\ Fits(wire', stack') /\ Len(stack') = Len(stack) /\ DOMAIN stack' = DOMAIN stack
            /\ From(wire', wire) /\ From(stack', stack)
            /\ \A i \in DOMAIN stack : i # d => stack'[i] = stack[i]
            /\ d \in DOMAIN stack /\ stack[d].got = None
            /\ stack'[d].do = "add" /\ stack'[d].got = Ok(x)
            /\ \A D : "add" \notin D => Calm(D, stack, stack')
        BY <1>1, <3>2, <4>1, Handles
      <4>3. ~ Added(stack[d]) /\ Added(stack'[d])
        BY <4>2, Outcomes DEF Added, Good
      <4>4. skewed' = skewed
        BY <1>3, <2>1, <3>2 DEF KeptInv
      <4> QED
        BY <3>2, <4>2, <4>3, <4>4
    <3> QED
      BY <3>1, <3>2
  <2>6. WaitsInv'
    <3>1. Len(stack') <= MaxDepth /\ RowsOf(reader) \subseteq RowsOf(reader)'
          /\ DOMAIN stock \subseteq DOMAIN stock'
      BY <2>1, <2>2, <2>3, <2>5 DEF WaitsInv
    <3> QED
      BY <1>1, <2>1, <2>5, <3>1, WaitsKept
  <2>7. KeptInv'
    <3>1. Ids(feed)' \subseteq RowsOf(reader)'
      BY <1>1, <2>1, <2>3 DEF KeptInv, Ids
    <3>2. Len(stock') \in 1 .. MaxBooks /\ promos' \subseteq DOMAIN stock'
      BY <1>1, <2>1, <2>2, DeskAssumption DEF KeptInv
    <3>3. skewed' \in BOOLEAN
      BY <1>3, <2>1 DEF KeptInv
    <3> QED
      BY <1>1, <1>3, <2>1, <2>2, <2>3, <3>1, <3>2, <3>3 DEF KeptInv, bounds
  <2>8. \/ d = 0 /\ Untold' = Untold
        \/ d # 0 /\ d \notin Untold /\ Untold' = Untold \cup {d} /\ d \in DOMAIN stack
    BY <2>5 DEF Untold, Added, Calm, Follows
  <2>9. TitlesInv'
    <3>1. IsFiniteSet(Untold) /\ Cardinality(Untold) \in Nat
      BY <2>4, UntoldFinite DEF Untold
    <3>2. Cardinality(Untold') <= Cardinality(Untold) + 1 /\ Cardinality(Untold') \in Nat
      BY <2>8, <3>1, FS_AddElement
    <3>3. told' = told /\ local' = local /\ calls' = calls
      BY <1>1 DEF bounds
    <3> QED
      BY <2>1, <2>2, <2>5, <3>1, <3>2, <3>3 DEF TitlesInv
  <2>10. PromotionsInv'
    <3>1. Calm({"promote"}, stack, stack')
      BY <2>5
    <3> QED
      BY <1>1, <2>1, <2>2, <3>1, PromotionsCalm DEF Backed
  <2>11. FeedInv'
    <3>1. \A i \in DOMAIN stack' : Good(stack'[i]) =>
            \/ i \in DOMAIN stack /\ Follows(stack[i], stack'[i])
            \/ stack'[i].do \notin OfFeed
      <4>1. CASE d = 0
        <5>1. \A i \in DOMAIN stack' : i \in DOMAIN stack /\ Follows(stack[i], stack'[i])
          BY <2>5, <4>1
        <5> QED
          BY <5>1
      <4>2. CASE d # 0
        BY <2>5, <4>2, FollowsItself DEF OfFeed
      <4> QED
        BY <4>1, <4>2
    <3>2. Calm({"feed"}, stack, stack')
      BY <2>5
    <3> QED
      BY <1>1, <1>3, <2>1, <2>3, <3>1, <3>2, FeedGrows
  <2>12. FiguresInv'
    <3>1. ASSUME NEW i \in DOMAIN stack', FetchedFigures(stack'[i])
          PROVE  /\ FetchedFigures(stack[i]) /\ stack'[i].got.data = stack[i].got.data
                 /\ (d = 0 => stack'[i].old)
      <4>1. CASE d = 0
        <5>1. Follows(stack[i], stack'[i]) /\ (Good(stack'[i]) => stack'[i].old)
          BY <2>5, <4>1
        <5> QED
          BY <3>1, <5>1 DEF FetchedFigures, Follows
      <4>2. CASE d # 0
        <5>1. i # d
          BY <2>5, <3>1, <4>2 DEF FetchedFigures
        <5> QED
          BY <2>5, <3>1, <4>2, <5>1
      <4> QED
        BY <4>1, <4>2
    <3>2. CASE d = 0
      BY <1>1, <2>1, <2>5, <3>1, <3>2 DEF FiguresInv, FiguresHold
    <3>3. CASE d # 0
      <4>1. OneShort' = Stats
        BY <1>1, <2>2 DEF OneShort, Stats
      <4>2. d \in Untold' /\ Untold \subseteq Untold' /\ d \notin Untold
        BY <2>8, <3>3
      <4>3. \A i \in Untold : i # d /\ stack'[i] = stack[i]
        BY <2>5, <3>3, <4>2 DEF Untold
      <4>4. FiguresHold'
        <5>1. CASE analytics = Nothing \/ skewed \/ Noted
          BY <1>1, <2>3, <2>5, <3>3, <5>1 DEF FiguresHold
        <5>2. CASE \E i \in Untold : TRUE
          <6>1. PICK i \in Untold : TRUE
            BY <5>2
          <6> QED
            BY <4>2, <4>3, <6>1 DEF FiguresHold
        <5>3. CASE Untold = {} /\ analytics = Stats
          <6>1. Untold' = {d} /\ analytics' = OneShort'
            BY <1>1, <2>8, <3>3, <4>1, <5>3
          <6> QED
            BY <6>1 DEF FiguresHold
        <5> QED
          BY <2>1, <5>1, <5>2, <5>3 DEF FiguresInv, FiguresHold
      <4>5. \A i \in DOMAIN stack' : FetchedFigures(stack'[i]) =>
              stack'[i].got.data \in [books : 1 .. MaxBooks, sold : 0 .. MaxSales]
        BY <2>1, <2>5, <3>1 DEF FiguresInv
      <4>6. Untold' # {}
        BY <4>2
      <4>7. told' = told /\ analytics' = analytics
        BY <1>1
      <4> QED
        BY <2>1, <4>4, <4>5, <4>6, <4>7 DEF FiguresInv, FetchedFigures, Good
    <3> QED
      BY <3>2, <3>3
  <2> QED
    BY <2>6, <2>7, <2>9, <2>10, <2>11, <2>12 DEF DeskInv
<1> QED
  BY <1>2, <1>3 DEF HandlePublishBook

-----------------------------------------------------------------------------
(* Calls return, and events are run.                                       *)

LEMMA BackFits ==
  ASSUME DeskInv, NEW do, Returned(do), KeepsRest,
         stack' = Front(stack) \/ stack' = Aged(Front(stack))
  PROVE  LET n == Len(stack) IN
         /\ WaitsInv' /\ n \in Nat \ {0} /\ Len(stack') = n - 1
         /\ DOMAIN stack = 1 .. n /\ DOMAIN stack' = 1 .. n - 1
         /\ Innermost = stack[n] /\ IsCall(Innermost) /\ Innermost.do = do
         /\ Innermost.got # None /\ (Good(Innermost) <=> Worked) /\ Asks(Innermost)
         /\ \A i \in DOMAIN stack' : i \in DOMAIN stack /\ i # n /\ Follows(stack[i], stack'[i])
         /\ \A i \in DOMAIN stack : i \in DOMAIN stack' \/ i = n
         /\ stack' = Aged(Front(stack)) =>
              \A i \in DOMAIN stack' : Good(stack'[i]) => stack'[i].old
         /\ \A D : do \notin D => Calm(D, stack, stack')
<1> DEFINE n == Len(stack)
           t == Front(stack)
<1>1. WaitsInv /\ Fits(wire, stack) /\ UNCHANGED <<server, who, desk, wire, events, bounds>>
  BY DEF DeskInv, WaitsInv, Fits, KeepsRest
<1>2. /\ Fits(wire, t) /\ n \in Nat \ {0} /\ Len(t) = n - 1
      /\ DOMAIN stack = 1 .. n /\ DOMAIN t = 1 .. n - 1
      /\ Innermost = stack[n] /\ IsCall(Innermost) /\ Innermost.do = do
      /\ Innermost.got # None /\ (Good(Innermost) <=> Worked)
      /\ \A i \in 1 .. n - 1 : t[i] = stack[i]
      /\ From(t, stack)
      /\ \A D : do \notin D => Calm(D, stack, t)
  BY <1>1, FrontFits
<1> HIDE DEF t
<1>3. /\ Fits(wire, stack') /\ From(stack', t) /\ Len(stack') = n - 1
      /\ DOMAIN stack' = 1 .. n - 1
      /\ \A i \in 1 .. n - 1 : Follows(t[i], stack'[i])
      /\ stack' = Aged(t) => \A i \in 1 .. n - 1 : Good(stack'[i]) => stack'[i].old
  <2>1. /\ Stacked(Aged(t)) /\ Linked(wire, Aged(t)) /\ Len(Aged(t)) = n - 1
        /\ DOMAIN Aged(t) = 1 .. n - 1 /\ From(Aged(t), t)
        /\ \A i \in 1 .. n - 1 : /\ Follows(t[i], Aged(t)[i]) /\ Aged(t)[i].got = t[i].got
                                 /\ t[i].got # None => Aged(t)[i].old
    BY <1>2, AgedStack DEF Fits
  <2>2. \A i \in 1 .. n - 1 : Good(Aged(t)[i]) => Aged(t)[i].old
    BY <2>1, Outcomes DEF Good
  <2>3. CASE stack' = t
    BY <1>2, <2>2, <2>3, FollowsItself DEF From
  <2>4. CASE stack' = Aged(t)
    BY <1>2, <2>1, <2>2, <2>4 DEF Fits
  <2> QED
    BY <2>3, <2>4 DEF t
<1>4. \A i \in 1 .. n - 1 : i \in 1 .. n /\ i # n /\ Follows(stack[i], stack'[i])
  BY <1>2, <1>3
<1>5. \A i \in 1 .. n : i \in 1 .. n - 1 \/ i = n
  BY <1>2
<1>6. From(stack', stack) /\ From(wire', wire)
  BY <1>1, <1>2, <1>3, <1>4 DEF From, Follows
<1>7. ASSUME NEW D, do \notin D PROVE Calm(D, stack, stack')
  BY <1>2, <1>3, <1>4, <1>5, <1>7 DEF Calm
<1>8. n - 1 <= MaxDepth
  BY <1>1, <1>2, DeskAssumption DEF WaitsInv
<1>9. WaitsInv'
  BY <1>1, <1>3, <1>6, <1>8, WaitsKept DEF server, RowsOf
<1>10. Asks(Innermost)
  BY <1>1, <1>2 DEF WaitsInv, Asked
<1> QED
  BY <1>2, <1>3, <1>4, <1>5, <1>7, <1>9, <1>10 DEF t

\* The figures are given up: whatever tells of them is old.
LEMMA FiguresForgotten ==
  ASSUME FiguresInv, told' = told, analytics' = Nothing,
         \A i \in DOMAIN stack' : i \in DOMAIN stack /\ Follows(stack[i], stack'[i]),
         \A i \in DOMAIN stack' : Good(stack'[i]) => stack'[i].old
  PROVE  FiguresInv'
<1>1. ASSUME NEW i \in DOMAIN stack', FetchedFigures(stack'[i])
      PROVE  /\ FetchedFigures(stack[i]) /\ stack'[i].got.data = stack[i].got.data
             /\ stack'[i].old
  BY <1>1 DEF FetchedFigures, Follows
<1> QED
  BY <1>1 DEF FiguresInv, FiguresHold, FetchedFigures, Good

\* What is kept of notifications, and the calls that fetch them, change; it is
\* still known what is missing.
LEMMA FeedReshaped ==
  ASSUME FeedInv, rows' = rows, swept \subseteq swept',
         \A i \in DOMAIN feed' : feed'[i].read => rows[feed'[i].id].read \/ feed'[i].id \in swept',
         \A i \in DOMAIN stack' : i \in DOMAIN stack /\ Follows(stack[i], stack'[i]),
         \/ gaps'
         \/ /\ ~ gaps /\ Ids(feed) \subseteq Ids(feed)'
            /\ \A m : Pushed(m) => Pushed(m)' \/ m \in Ids(feed)'
            /\ \A i \in DOMAIN stack : \/ i \in DOMAIN stack'
                                       \/ \A m : Brings(stack[i], m) => m \in Ids(feed)',
         \/ Ids(feed)' \subseteq Ids(feed) \cup swept'
         \/ \A i \in DOMAIN stack' : stack'[i].do = "readAll" => ~ Good(stack'[i])
  PROVE  FeedInv'
<1>1. ASSUME NEW i \in DOMAIN stack', NEW m, Brings(stack[i], m) PROVE Brings(stack'[i], m)
  <2>1. Follows(stack[i], stack'[i])
    OBVIOUS
  <2> QED
    BY <1>1, <2>1 DEF Brings, Follows
<1>2. RowsOf(reader)' = RowsOf(reader)
  BY DEF RowsOf
<1>3. gaps' \/ \A m \in RowsOf(reader)' : Shown(m)'
  BY <1>1, <1>2 DEF FeedInv, Shown
<1>4. ASSUME NEW i \in DOMAIN stack', Good(stack'[i])
      PROVE  /\ stack'[i].do = stack[i].do /\ stack'[i].arg = stack[i].arg
             /\ stack'[i].got = stack[i].got /\ Good(stack[i]) /\ i \in DOMAIN stack
  BY <1>4 DEF Follows
<1>5. ASSUME NEW i \in DOMAIN stack', Good(stack'[i]), stack'[i].do = "readAll",
             NEW j \in DOMAIN feed'
      PROVE  rows[feed'[j].id].read \/ feed'[j].id \in swept'
  <2>1. feed'[j].id \in Ids(feed)'
    BY DEF Ids
  <2>2. CASE feed'[j].id \in Ids(feed)
    <3>1. PICK k \in DOMAIN feed : feed[k].id = feed'[j].id
      BY <2>2 DEF Ids
    <3>2. ReadFor(feed[k].id)
      BY <1>4, <1>5 DEF FeedInv
    <3> QED
      BY <3>1, <3>2 DEF ReadFor
  <2> QED
    BY <1>5, <2>1, <2>2
<1>6. ASSUME NEW i \in DOMAIN stack', Good(stack'[i]), stack'[i].do = "feed"
      PROVE  /\ stack'[i].got.data \in Seq(Item)
             /\ \A j \in DOMAIN stack'[i].got.data : Honest(stack'[i].got.data[j])
  BY <1>4, <1>6 DEF FeedInv
<1>7. ASSUME NEW i \in DOMAIN stack', Good(stack'[i]), stack'[i].do = "read"
      PROVE  rows[stack'[i].arg.note].read
  BY <1>4, <1>7 DEF FeedInv
<1> QED
  BY <1>2, <1>3, <1>5, <1>6, <1>7 DEF FeedInv, Honest, ReadFor, Good, RowsOf

\* The part of the invariant that no return disturbs.
LEMMA ReturnKeepsRest ==
  ASSUME KeptInv, KeepsRest, promos' \subseteq DOMAIN stock, feed' \in Seq(Item),
         Ids(feed)' \subseteq RowsOf(reader), skewed' \in BOOLEAN, gaps' \in BOOLEAN
  PROVE  KeptInv'
<1>1. UNCHANGED <<stock, sold, rows, session, who, desk, events, calls, sales>>
  BY DEF KeepsRest, server, bounds
<1>2. EventsFit' /\ RowsOf(reader)' = RowsOf(reader)
  BY <1>1 DEF KeptInv, EventsFit, IsEvent, IsNote, RowsOf
<1> QED
  BY <1>1, <1>2 DEF KeptInv

LEMMA ReturnKeeps ==
  ASSUME DeskInv, NEW do, Returned(do), KeepsRest,
         stack' = Front(stack) \/ stack' = Aged(Front(stack)), skewed' \in BOOLEAN, gaps' \in BOOLEAN
  PROVE  /\ do # "add" /\ UNCHANGED <<told, local>> => TitlesInv'
         /\ do # "promote" /\ UNCHANGED <<promos, undone>> => PromotionsInv'
         /\ do \notin {"add", "analytics"} /\ UNCHANGED <<analytics, skewed, told>> => FiguresInv'
         /\ do \notin OfFeed /\ UNCHANGED <<feed, gaps, swept>> => FeedInv'
         /\ UNCHANGED <<promos, feed>> => KeptInv'
<1>1. WaitsInv /\ KeptInv /\ TitlesInv /\ FiguresInv /\ PromotionsInv /\ FeedInv
  BY DEF DeskInv
<1>2. UNCHANGED <<stock, sold, rows, session, who, desk, events, calls, sales>>
  BY DEF KeepsRest, server, bounds
<1>3. /\ Len(stack) \in Nat \ {0} /\ Len(stack') = Len(stack) - 1
      /\ \A D : do \notin D => Calm(D, stack, stack')
  BY BackFits
<1>4. ASSUME do # "add", UNCHANGED <<told, local>> PROVE TitlesInv'
  <2>1. Calm({"add"}, stack, stack')
    BY <1>3, <1>4
  <2>2. told + Len(stack') <= calls'
    BY <1>1, <1>2, <1>3 DEF TitlesInv, KeptInv
  <2> QED
    BY <1>1, <1>2, <1>4, <2>1, <2>2, TitlesKept
<1>5. ASSUME do # "promote", UNCHANGED <<promos, undone>> PROVE PromotionsInv'
  <2>1. Calm({"promote"}, stack, stack')
    BY <1>3, <1>5
  <2> QED
    BY <1>1, <1>2, <1>5, <2>1, PromotionsCalm DEF Backed
<1>6. ASSUME do \notin {"add", "analytics"}, UNCHANGED <<analytics, skewed, told>> PROVE FiguresInv'
  <2>1. Calm({"add", "analytics"}, stack, stack')
    BY <1>3, <1>6
  <2>2. told \in Nat /\ (Noted => Noted')
    BY <1>1, <1>2 DEF TitlesInv, Noted, IsNote
  <2> QED
    BY <1>1, <1>2, <1>6, <2>1, <2>2, FiguresKept
<1>7. ASSUME do \notin OfFeed, UNCHANGED <<feed, gaps, swept>> PROVE FeedInv'
  <2>1. Calm(OfFeed, stack, stack') /\ \A m : Pushed(m) => Pushed(m)'
    BY <1>2, <1>3, <1>7 DEF Pushed, IsNote
  <2> QED
    BY <1>1, <1>2, <1>7, <2>1, FeedKept
<1>8. ASSUME UNCHANGED <<promos, feed>> PROVE KeptInv'
  <2>1. /\ promos' \subseteq DOMAIN stock /\ feed' \in Seq(Item)
        /\ Ids(feed)' \subseteq RowsOf(reader)
    BY <1>1, <1>8 DEF KeptInv, Ids
  <2> QED
    BY <1>1, <2>1, ReturnKeepsRest
<1> QED
  BY <1>4, <1>5, <1>6, <1>7, <1>8

LEMMA AddReturnsKeep == DeskInv /\ AddReturns => DeskInv'
<1> SUFFICES ASSUME DeskInv, AddReturns PROVE DeskInv'
  OBVIOUS
<1> USE DeskAssumption
<1> DEFINE n == Len(stack)
<1>1. /\ Returned("add") /\ KeepsRest /\ stack' = Aged(Front(stack))
      /\ told' = told + 1 /\ local' = IF Worked THEN local ELSE local + 1
      /\ UNCHANGED <<promos, feed, gaps, swept, undone>>
      /\ UNCHANGED <<stock, sold, rows, session, who, desk, events, calls, sales>>
      /\ skewed' = (skewed \/ analytics = Nothing \/ ~ Worked \/ Innermost.old)
      /\ analytics' = IF analytics = Nothing THEN [books |-> 1, sold |-> 0]
                      ELSE [analytics EXCEPT !.books = @ + 1]
  BY DEF AddReturns, KeepsRest, server, bounds
<1>2. WaitsInv /\ KeptInv /\ TitlesInv /\ FiguresInv /\ PromotionsInv /\ FeedInv
  BY DEF DeskInv
<1>3. /\ WaitsInv' /\ n \in Nat \ {0} /\ Len(stack') = n - 1
      /\ DOMAIN stack = 1 .. n /\ DOMAIN stack' = 1 .. n - 1
      /\ Innermost = stack[n] /\ IsCall(Innermost) /\ Innermost.do = "add"
      /\ (Good(Innermost) <=> Worked)
      /\ \A i \in DOMAIN stack' : i \in DOMAIN stack /\ i # n /\ Follows(stack[i], stack'[i])
      /\ \A i \in DOMAIN stack : i \in DOMAIN stack' \/ i = n
      /\ \A i \in DOMAIN stack' : Good(stack'[i]) => stack'[i].old
  BY <1>1, BackFits
<1>4. skewed' \in BOOLEAN /\ gaps' \in BOOLEAN
  BY <1>1, <1>2 DEF KeptInv
<1>5. KeptInv' /\ PromotionsInv' /\ FeedInv'
  <2>1. "add" \notin OfFeed
    BY DEF OfFeed
  <2> QED
    BY <1>1, <1>4, <2>1, ReturnKeeps
<1>6. /\ \A i : i \in Untold' <=> i \in Untold /\ i # n
      /\ n \in Untold <=> Worked
      /\ \A i \in Untold' : stack'[i].old
  BY <1>3 DEF Untold, Added, Follows
<1>7. TitlesInv'
  <2>1. IsFiniteSet(Untold) /\ Cardinality(Untold) \in Nat
    BY <1>2, UntoldFinite DEF Untold, WaitsInv
  <2>2. Cardinality(Untold') = Cardinality(Untold) - IF Worked THEN 1 ELSE 0
    <3>1. CASE Worked
      <4>1. Untold' = Untold \ {n} /\ n \in Untold
        BY <1>6, <3>1
      <4> QED
        BY <2>1, <3>1, <4>1, FS_RemoveElement
    <3>2. CASE ~ Worked
      <4>1. Untold' = Untold
        BY <1>6, <3>2
      <4> QED
        BY <2>1, <3>2, <4>1
    <3> QED
      BY <3>1, <3>2
  <2> DEFINE k == Cardinality(Untold)
             m == Len(stock)
  <2>3. /\ k \in Nat /\ m \in Nat /\ calls \in Nat /\ told \in Nat /\ local \in 0 .. told
        /\ told + n <= calls /\ told + k <= m - 1 + local
    BY <1>2, <2>1 DEF TitlesInv, KeptInv
  <2>4. /\ told' \in Nat /\ local' \in 0 .. told' /\ told' + Len(stack') <= calls'
        /\ told' + Cardinality(Untold') <= Len(stock') - 1 + local'
    <3>1. PICK w : w = IF Worked THEN 1 ELSE 0
      OBVIOUS
    <3>2. /\ told' = told + 1 /\ local' = local + 1 - w /\ calls' = calls /\ Len(stock') = m
          /\ Len(stack') = n - 1 /\ Cardinality(Untold') = k - w /\ w \in {0, 1}
      BY <1>1, <1>3, <2>2, <2>3, <3>1
    <3>3. n \in Nat
      BY <1>3
    <3> HIDE DEF k, m, n
    <3> QED
      BY <2>3, <3>2, <3>3
  <2> QED
    BY <2>4 DEF TitlesInv
<1>8. FiguresInv'
  <2>1. ASSUME NEW i \in DOMAIN stack', FetchedFigures(stack'[i])
        PROVE  /\ FetchedFigures(stack[i]) /\ stack'[i].got.data = stack[i].got.data
               /\ stack'[i].old
    BY <1>3, <2>1 DEF FetchedFigures, Follows
  <2>2. /\ analytics' # Nothing
        /\ analytics' \in [books : 1 .. MaxBooks + told', sold : 0 .. MaxSales]
    <3>1. told \in Nat /\ told' = told + 1
      BY <1>1, <1>2 DEF TitlesInv
    <3>2. CASE analytics = Nothing
      <4>1. analytics' = [books |-> 1, sold |-> 0]
        BY <1>1, <3>2
      <4>2. 1 \in 1 .. MaxBooks + told' /\ 0 \in 0 .. MaxSales
        BY <3>1
      <4> QED
        BY <4>1, <4>2 DEF Nothing
    <3>3. CASE analytics # Nothing
      <4>1. analytics \in [books : 1 .. MaxBooks + told, sold : 0 .. MaxSales]
        BY <1>2, <3>3 DEF FiguresInv
      <4>2. analytics' = [books |-> analytics.books + 1, sold |-> analytics.sold]
        BY <1>1, <3>3, <4>1
      <4>3. analytics.books + 1 \in 1 .. MaxBooks + told' /\ analytics.sold \in 0 .. MaxSales
        BY <3>1, <4>1
      <4> QED
        BY <4>2, <4>3 DEF Nothing
    <3> QED
      BY <3>2, <3>3
  <2>3. FiguresHold'
    <3>1. CASE skewed'
      BY <3>1 DEF FiguresHold
    <3>2. CASE Noted
      BY <1>1, <3>2 DEF FiguresHold, Noted, IsNote
    <3>3. CASE \E i \in Untold' : TRUE
      BY <1>6, <3>3 DEF FiguresHold
    <3>4. CASE ~ skewed' /\ ~ Noted /\ Untold' = {}
      <4>1. /\ Worked /\ analytics # Nothing /\ ~ Innermost.old /\ ~ skewed
            /\ Untold = {n} /\ ~ stack[n].old
        BY <1>1, <1>3, <1>6, <3>4
      <4>2. analytics = OneShort
        BY <1>2, <3>4, <4>1 DEF FiguresInv, FiguresHold
      <4>3. analytics' = [books |-> Len(stock), sold |-> sold]
        <5>1. Len(stock) \in Nat /\ Len(stock) - 1 + 1 = Len(stock)
          BY <1>2 DEF KeptInv
        <5>2. analytics' = [OneShort EXCEPT !.books = @ + 1]
          BY <1>1, <4>1, <4>2
        <5> QED
          BY <5>1, <5>2 DEF OneShort
      <4> QED
        BY <1>1, <3>4, <4>3 DEF FiguresHold, Stats
    <3> QED
      BY <1>4, <3>1, <3>2, <3>3, <3>4
  <2>4. \A i \in DOMAIN stack' : FetchedFigures(stack'[i]) =>
          /\ stack'[i].got.data \in [books : 1 .. MaxBooks, sold : 0 .. MaxSales]
          /\ stack'[i].old
    BY <1>2, <1>3, <2>1 DEF FiguresInv
  <2> QED
    BY <2>2, <2>3, <2>4 DEF FiguresInv, FetchedFigures, Good
<1> QED
  BY <1>3, <1>5, <1>7, <1>8 DEF DeskInv

\* updateBook, setBookStatus and removeBook.
LEMMA ForgettingReturnsKeep == DeskInv /\ (UpdateReturns \/ StatusReturns) => DeskInv'
<1> DEFINE Forgets == analytics' = Nothing /\ skewed' = FALSE /\ stack' = Aged(Front(stack))
           Keeps == Return /\ UNCHANGED <<analytics, skewed>>
<1> SUFFICES ASSUME DeskInv, NEW do \in {"update", "status"}, Returned(do), KeepsRest,
                    UNCHANGED <<local, promos, feed, told, gaps, swept, undone>>,
                    Forgets \/ Keeps
             PROVE  DeskInv'
  BY DEF UpdateReturns, StatusReturns
<1>1. KeptInv /\ FiguresInv
  BY DEF DeskInv
<1>2. skewed' \in BOOLEAN /\ gaps' \in BOOLEAN
  BY <1>1 DEF KeptInv
<1>3. stack' = Front(stack) \/ stack' = Aged(Front(stack))
  BY DEF Return
<1>4. KeptInv' /\ TitlesInv' /\ PromotionsInv' /\ FeedInv' /\ (Keeps => FiguresInv')
  BY <1>2, <1>3, ReturnKeeps DEF OfFeed
<1>5. /\ WaitsInv'
      /\ \A i \in DOMAIN stack' : i \in DOMAIN stack /\ Follows(stack[i], stack'[i])
      /\ stack' = Aged(Front(stack)) => \A i \in DOMAIN stack' : Good(stack'[i]) => stack'[i].old
  BY <1>3, BackFits
<1>6. Forgets => FiguresInv'
  BY <1>1, <1>5, FiguresForgotten
<1> QED
  BY <1>4, <1>5, <1>6 DEF DeskInv

LEMMA PromotionReturnsKeep ==
  DeskInv /\ (AddPromotionReturns \/ RemovePromotionReturns) => DeskInv'
<1> SUFFICES ASSUME DeskInv, AddPromotionReturns \/ RemovePromotionReturns PROVE DeskInv'
  OBVIOUS
<1> DEFINE b == Innermost.arg.book
           n == Len(stack)
<1>1. PICK do \in {"promote", "unpromote"} :
        /\ Returned(do) /\ Return /\ KeepsRest
        /\ UNCHANGED <<local, analytics, feed, told, skewed, gaps, swept>>
        /\ do = "promote" => /\ promos' = IF Worked THEN promos \cup {b} ELSE promos
                             /\ undone' = undone
        /\ do = "unpromote" => /\ promos' = promos \ {b}
                               /\ undone' = IF Promoting(Front(stack), b) THEN undone
                                            ELSE undone \ {b}
  BY DEF AddPromotionReturns, RemovePromotionReturns, history
<1>2. WaitsInv /\ KeptInv /\ TitlesInv /\ FiguresInv /\ PromotionsInv /\ FeedInv
  BY DEF DeskInv
<1>3. stack' = Front(stack) /\ skewed' \in BOOLEAN /\ gaps' \in BOOLEAN
  BY <1>1, <1>2 DEF Return, KeptInv
<1>4. /\ WaitsInv' /\ n \in DOMAIN stack /\ Innermost = stack[n] /\ Innermost.do = do
      /\ (Good(Innermost) <=> Worked) /\ Asks(Innermost)
      /\ \A i \in DOMAIN stack' : i \in DOMAIN stack /\ Follows(stack[i], stack'[i])
  <2>1. n \in Nat \ {0} /\ DOMAIN stack = 1 .. n
    BY <1>1, <1>3, BackFits
  <2>2. n \in DOMAIN stack
    BY <2>1
  <2> QED
    BY <1>1, <1>3, <2>2, BackFits
<1>5. TitlesInv' /\ FiguresInv' /\ FeedInv'
  BY <1>1, <1>3, ReturnKeeps DEF OfFeed
<1>6. b \in DOMAIN stock
  BY <1>4 DEF Asks, OnBooks
<1>7. KeptInv'
  <2>1. /\ promos' \subseteq DOMAIN stock /\ feed' \in Seq(Item)
        /\ Ids(feed)' \subseteq RowsOf(reader)
    BY <1>1, <1>2, <1>6 DEF KeptInv, Ids
  <2> QED
    BY <1>1, <1>2, <1>3, <2>1, ReturnKeepsRest
<1>8. PromotionsInv'
  <2>0. stock' = stock
    BY <1>1 DEF KeepsRest, server
  <2>1. \A c \in promos : Backed(c)
    BY <1>2 DEF PromotionsInv, PromotionsBacked, Backed
  <2>2. \A i \in DOMAIN stack' : stack'[i].do = "promote" /\ Good(stack'[i]) =>
          Backed(stack'[i].arg.book) /\ Promoting(stack', stack'[i].arg.book)
    BY <1>2, <1>4 DEF PromotionsInv, Follows, Promoting
  <2>3. CASE do = "promote"
    <3>1. Worked => Backed(b)
      BY <1>2, <1>4, <2>3 DEF PromotionsInv
    <3>2. promos' \subseteq promos \cup {b} /\ (~ Worked => promos' = promos) /\ undone' = undone
      BY <1>1, <2>3
    <3>3. \A c \in promos' : Backed(c)
      BY <2>1, <3>1, <3>2
    <3> QED
      BY <2>0, <2>2, <3>2, <3>3 DEF PromotionsInv, PromotionsBacked, Backed, Good
  <2>4. CASE do = "unpromote"
    <3>1. /\ promos' = promos \ {b}
          /\ undone' = IF Promoting(stack', b) THEN undone ELSE undone \ {b}
      BY <1>1, <1>3, <2>4
    <3>2. \A c \in promos' : stock'[c].off \/ c \in undone'
      BY <2>0, <2>1, <3>1 DEF Backed
    <3>3. \A i \in DOMAIN stack' : stack'[i].do = "promote" /\ Good(stack'[i]) =>
            stock'[stack'[i].arg.book].off \/ stack'[i].arg.book \in undone'
      BY <2>0, <2>2, <3>1 DEF Backed
    <3> QED
      BY <3>2, <3>3 DEF PromotionsInv, PromotionsBacked, Backed, Good
  <2> QED
    BY <2>3, <2>4
<1> QED
  BY <1>4, <1>5, <1>7, <1>8 DEF DeskInv

LEMMA FetchReturnsKeep == DeskInv /\ FetchAnalyticsReturns => DeskInv'
<1> SUFFICES ASSUME DeskInv, FetchAnalyticsReturns PROVE DeskInv'
  OBVIOUS
<1> DEFINE n == Len(stack)
<1>1. /\ Returned("analytics") /\ KeepsRest
      /\ UNCHANGED <<local, promos, feed, told, gaps, swept, undone>>
      /\ IF Worked THEN /\ analytics' = Innermost.got.data /\ skewed' = Innermost.old
                        /\ stack' = Aged(Front(stack))
         ELSE stack' = Front(stack) /\ UNCHANGED <<analytics, skewed>>
      /\ UNCHANGED <<stock, sold, who, events>>
  BY DEF FetchAnalyticsReturns, Return, KeepsRest, server
<1>2. WaitsInv /\ KeptInv /\ TitlesInv /\ FiguresInv /\ PromotionsInv /\ FeedInv
  BY DEF DeskInv
<1>3. stack' = Front(stack) \/ stack' = Aged(Front(stack))
  BY <1>1
<1>4. /\ WaitsInv' /\ n \in Nat \ {0} /\ DOMAIN stack = 1 .. n
      /\ Innermost = stack[n] /\ IsCall(Innermost) /\ Innermost.do = "analytics"
      /\ (Good(Innermost) <=> Worked)
      /\ \A i \in DOMAIN stack' : i \in DOMAIN stack /\ i # n /\ Follows(stack[i], stack'[i])
      /\ \A i \in DOMAIN stack : i \in DOMAIN stack' \/ i = n
      /\ stack' = Aged(Front(stack)) => \A i \in DOMAIN stack' : Good(stack'[i]) => stack'[i].old
  BY <1>1, <1>3, BackFits
<1>5. skewed' \in BOOLEAN /\ gaps' \in BOOLEAN
  BY <1>1, <1>2, <1>4 DEF KeptInv, IsCall
<1>6. KeptInv' /\ TitlesInv' /\ PromotionsInv' /\ FeedInv'
  BY <1>1, <1>3, <1>5, ReturnKeeps DEF OfFeed
<1>7. /\ Untold' = Untold /\ Stats' = Stats /\ OneShort' = OneShort /\ (Noted' <=> Noted)
      /\ \A i \in Untold : stack[i].old => stack'[i].old
  BY <1>1, <1>4 DEF Untold, Added, Follows, Stats, OneShort, Noted, IsNote
<1>8. ASSUME NEW i \in DOMAIN stack', FetchedFigures(stack'[i])
      PROVE  /\ i \in DOMAIN stack /\ FetchedFigures(stack[i])
             /\ stack'[i].got.data = stack[i].got.data /\ (stack[i].old => stack'[i].old)
  BY <1>4, <1>8 DEF FetchedFigures, Follows
<1>9. \A i \in DOMAIN stack' : FetchedFigures(stack'[i]) =>
        /\ stack'[i].got.data \in [books : 1 .. MaxBooks, sold : 0 .. MaxSales]
        /\ stack'[i].old \/ Noted \/ Untold # {} \/ stack'[i].got.data = Stats
  BY <1>2, <1>8 DEF FiguresInv
<1>10. CASE ~ Worked
  <2>1. analytics' = analytics /\ skewed' = skewed /\ told' = told
    BY <1>1, <1>10
  <2>2. FiguresHold'
    BY <1>2, <1>7, <2>1 DEF FiguresInv, FiguresHold
  <2>3. FiguresInv'
    BY <1>2, <1>7, <1>9, <2>1, <2>2 DEF FiguresInv, FetchedFigures, Good
  <2> QED
    BY <1>4, <1>6, <2>3 DEF DeskInv
<1>11. CASE Worked
  <2>1. /\ analytics' = stack[n].got.data /\ skewed' = stack[n].old /\ told' = told
        /\ \A i \in DOMAIN stack' : Good(stack'[i]) => stack'[i].old
    BY <1>1, <1>4, <1>11
  <2>2. n \in DOMAIN stack /\ FetchedFigures(stack[n])
    BY <1>4, <1>11 DEF FetchedFigures
  <2>3. /\ analytics' \in [books : 1 .. MaxBooks, sold : 0 .. MaxSales]
        /\ stack[n].old \/ Noted \/ Untold # {} \/ analytics' = Stats
    BY <1>2, <2>1, <2>2 DEF FiguresInv
  <2>4. analytics' \in [books : 1 .. MaxBooks + told', sold : 0 .. MaxSales]
    BY <1>2, <2>1, <2>3, DeskAssumption DEF TitlesInv
  <2>5. \A i \in Untold' : stack'[i].old
    BY <2>1 DEF Untold, Added, Good
  <2>6. FiguresHold'
    BY <1>7, <2>1, <2>3, <2>5 DEF FiguresHold
  <2>7. \A i \in DOMAIN stack' : FetchedFigures(stack'[i]) => stack'[i].old
    BY <2>1 DEF FetchedFigures
  <2>8. FiguresInv'
    BY <1>9, <2>4, <2>6, <2>7 DEF FiguresInv, FetchedFigures, Good
  <2> QED
    BY <1>4, <1>6, <2>8 DEF DeskInv
<1> QED
  BY <1>10, <1>11

\* The first entry of that id becomes read.
LEMMA ReadIs ==
  ASSUME NEW f \in Seq(Item), NEW n
  PROVE  /\ Read(f, n) \in Seq(Item) /\ DOMAIN Read(f, n) = DOMAIN f
         /\ \A i \in DOMAIN f : /\ Read(f, n)[i].id = f[i].id
                                /\ Read(f, n)[i].read => f[i].read \/ f[i].id = n
<1>1. Len(f) \in Nat /\ DOMAIN f = 1 .. Len(f) /\ f \in [1 .. Len(f) -> Item]
  BY LenProperties
<1>2. CASE n \notin Ids(f)
  BY <1>2 DEF Read
<1>3. CASE n \in Ids(f)
  <2> DEFINE I == {i \in 1 .. Len(f) : f[i].id = n}
             k == Min(I)
  <2>1. I # {} /\ I \in SUBSET Nat
    BY <1>1, <1>3 DEF Ids
  <2>2. Read(f, n) = [f EXCEPT ![k].read = TRUE]
    BY <1>3, <2>1 DEF Read, SelectInSeq
  <2>3. k \in I
    <3> HIDE DEF I
    <3> QED
      BY <2>1, LeastOf
  <2>4. k \in DOMAIN f /\ f[k].id = n
    BY <1>1, <2>3
  <2> HIDE DEF k
  <2>5. /\ Read(f, n) \in [1 .. Len(f) -> Item]
        /\ \A i \in DOMAIN f : /\ Read(f, n)[i].id = f[i].id
                               /\ Read(f, n)[i].read => f[i].read \/ f[i].id = n
    BY <1>1, <2>2, <2>4 DEF Item
  <2> QED
    BY <1>1, <2>5, SeqDef
<1> QED
  BY <1>2, <1>3

LEMMA MarkReturnsKeep == DeskInv /\ (MarkReadReturns \/ MarkAllReadReturns) => DeskInv'
<1> SUFFICES ASSUME DeskInv, MarkReadReturns \/ MarkAllReadReturns PROVE DeskInv'
  OBVIOUS
<1> DEFINE m == Innermost.arg.note
           n == Len(stack)
<1>1. PICK do \in {"read", "readAll"} :
        /\ Returned(do) /\ Return /\ KeepsRest
        /\ UNCHANGED <<local, analytics, promos, told, skewed, gaps, swept, undone>>
        /\ feed' = IF ~ Worked THEN feed ELSE IF do = "read" THEN Read(feed, m)
                   ELSE [i \in DOMAIN feed |-> [feed[i] EXCEPT !.read = TRUE]]
  BY DEF MarkReadReturns, MarkAllReadReturns, history
<1>2. WaitsInv /\ KeptInv /\ TitlesInv /\ FiguresInv /\ PromotionsInv /\ FeedInv
  BY DEF DeskInv
<1>3. stack' = Front(stack) /\ skewed' \in BOOLEAN /\ gaps' \in BOOLEAN
  BY <1>1, <1>2 DEF Return, KeptInv
<1>4. /\ WaitsInv' /\ n \in DOMAIN stack /\ Innermost = stack[n] /\ Innermost.do = do
      /\ (Good(Innermost) <=> Worked)
      /\ \A i \in DOMAIN stack' : i \in DOMAIN stack /\ Follows(stack[i], stack'[i])
      /\ \A i \in DOMAIN stack : i \in DOMAIN stack' \/ i = n
  <2>1. n \in Nat \ {0} /\ DOMAIN stack = 1 .. n
    BY <1>1, <1>3, BackFits
  <2>2. n \in DOMAIN stack
    BY <2>1
  <2> QED
    BY <1>1, <1>3, <2>2, BackFits
<1>5. TitlesInv' /\ FiguresInv' /\ PromotionsInv'
  BY <1>1, <1>3, ReturnKeeps
<1>6. /\ feed' \in Seq(Item) /\ DOMAIN feed' = DOMAIN feed
      /\ \A i \in DOMAIN feed :
           /\ feed'[i].id = feed[i].id
           /\ feed'[i].read => \/ feed[i].read
                               \/ do = "read" /\ Worked /\ feed[i].id = m
                               \/ do = "readAll" /\ Worked
  <2>1. feed \in Seq(Item) /\ Len(feed) \in Nat /\ feed \in [1 .. Len(feed) -> Item]
    BY <1>2, LenProperties DEF KeptInv
  <2>2. CASE ~ Worked
    BY <1>1, <2>1, <2>2
  <2>3. CASE Worked /\ do = "read"
    BY <1>1, <2>1, <2>3, ReadIs
  <2>4. CASE Worked /\ do = "readAll"
    <3>1. feed' = [i \in DOMAIN feed |-> [feed[i] EXCEPT !.read = TRUE]]
      BY <1>1, <2>4
    <3>2. feed' \in [1 .. Len(feed) -> Item]
      BY <2>1, <3>1 DEF Item
    <3>3. feed' \in Seq(Item) /\ DOMAIN feed' = DOMAIN feed
      BY <2>1, <3>2, SeqDef
    <3>4. \A i \in DOMAIN feed : feed'[i].id = feed[i].id
      BY <2>1, <3>1 DEF Item
    <3> QED
      BY <2>4, <3>3, <3>4
  <2> QED
    BY <1>1, <2>2, <2>3, <2>4
<1>7. Ids(feed)' = Ids(feed)
  BY <1>6 DEF Ids
<1>8. KeptInv'
  <2>1. promos' \subseteq DOMAIN stock /\ Ids(feed)' \subseteq RowsOf(reader)
    BY <1>1, <1>2, <1>7 DEF KeptInv
  <2> QED
    BY <1>1, <1>2, <1>3, <1>6, <2>1, ReturnKeepsRest
<1>9. FeedInv'
  <2>1. /\ rows' = rows /\ events' = events /\ swept' = swept /\ gaps' = gaps
        /\ \A c : Pushed(c) => Pushed(c)'
    BY <1>1 DEF KeepsRest, server, Pushed, IsNote
  <2>2. ASSUME NEW i \in DOMAIN feed', feed'[i].read
        PROVE  rows[feed'[i].id].read \/ feed'[i].id \in swept'
    <3>1. i \in DOMAIN feed /\ feed'[i].id = feed[i].id
      BY <1>6
    <3>2. CASE feed[i].read
      BY <1>2, <2>1, <3>1, <3>2 DEF FeedInv, ReadFor
    <3>3. CASE do = "read" /\ Worked /\ feed[i].id = m
      BY <1>2, <1>4, <3>1, <3>3 DEF FeedInv
    <3>4. CASE do = "readAll" /\ Worked
      BY <1>2, <1>4, <2>1, <3>1, <3>4 DEF FeedInv, ReadFor
    <3> QED
      BY <1>6, <2>2, <3>1, <3>2, <3>3, <3>4
  <2>3. \A i \in DOMAIN stack : \/ i \in DOMAIN stack'
                               \/ \A c : Brings(stack[i], c) => c \in Ids(feed)'
    BY <1>4 DEF Brings
  <2> QED
    BY <1>2, <1>4, <1>7, <2>1, <2>2, <2>3, FeedReshaped
<1> QED
  BY <1>4, <1>5, <1>8, <1>9 DEF DeskInv

LEMMA ConcatIs ==
  ASSUME NEW f \in Seq(Item), NEW g \in Seq(Item)
  PROVE  /\ f \o g \in Seq(Item)
         /\ \A i \in DOMAIN (f \o g) : \/ \E j \in DOMAIN f : (f \o g)[i] = f[j]
                                       \/ \E j \in DOMAIN g : (f \o g)[i] = g[j]
         /\ Ids(f \o g) = Ids(f) \cup Ids(g)
<1> DEFINE h == f \o g
           a == Len(f)
           b == Len(g)
<1>1. /\ h \in Seq(Item) /\ Len(h) = a + b
      /\ \A i \in 1 .. a + b : h[i] = IF i <= a THEN f[i] ELSE g[i - a]
  BY ConcatProperties
<1>2. /\ a \in Nat /\ b \in Nat /\ DOMAIN f = 1 .. a /\ DOMAIN g = 1 .. b
      /\ DOMAIN h = 1 .. a + b
  BY <1>1, LenProperties
<1> HIDE DEF h
<1>3. ASSUME NEW i \in DOMAIN h
      PROVE  \/ \E j \in DOMAIN f : h[i] = f[j]
             \/ \E j \in DOMAIN g : h[i] = g[j]
  <2>1. CASE i <= a
    BY <1>1, <1>2, <2>1
  <2>2. CASE ~ (i <= a)
    <3>1. i - a \in 1 .. b
      BY <1>2, <2>2
    <3> QED
      BY <1>1, <1>2, <2>2, <3>1
  <2> QED
    BY <2>1, <2>2
<1>4. \A j \in DOMAIN f : j \in DOMAIN h /\ h[j] = f[j]
  BY <1>1, <1>2
<1>5. ASSUME NEW j \in DOMAIN g PROVE j + a \in DOMAIN h /\ h[j + a] = g[j]
  <2>1. j + a \in 1 .. a + b /\ ~ (j + a <= a) /\ (j + a) - a = j
    BY <1>2
  <2> QED
    BY <1>1, <1>2, <2>1
<1>6. Ids(h) = Ids(f) \cup Ids(g)
  <2>1. Ids(h) \subseteq Ids(f) \cup Ids(g)
    BY <1>3 DEF Ids
  <2>2. Ids(f) \subseteq Ids(h)
    BY <1>4 DEF Ids
  <2>3. Ids(g) \subseteq Ids(h)
    BY <1>5 DEF Ids
  <2> QED
    BY <2>1, <2>2, <2>3
<1> QED
  BY <1>1, <1>3, <1>6 DEF h

LEMMA FeedReturnsKeep == DeskInv /\ RefreshFeedReturns => DeskInv'
<1> SUFFICES ASSUME DeskInv, RefreshFeedReturns PROVE DeskInv'
  OBVIOUS
<1> DEFINE x == Innermost.got.data
           n == Len(stack)
<1>1. /\ Returned("feed") /\ Return /\ KeepsRest
      /\ UNCHANGED <<local, analytics, promos, told, skewed, undone>>
      /\ feed' = IF Worked THEN feed \o x ELSE feed
      /\ gaps' = (gaps \/ ~ Worked \/ Innermost.old)
      /\ swept' = IF Worked /\ AllMarked THEN swept \cup Ids(x) ELSE swept
  BY DEF RefreshFeedReturns
<1>2. WaitsInv /\ KeptInv /\ TitlesInv /\ FiguresInv /\ PromotionsInv /\ FeedInv
  BY DEF DeskInv
<1>3. stack' = Front(stack) /\ skewed' \in BOOLEAN
  BY <1>1, <1>2 DEF Return, KeptInv
<1>4. /\ WaitsInv' /\ n \in DOMAIN stack /\ Innermost = stack[n] /\ Innermost.do = "feed"
      /\ (Good(Innermost) <=> Worked) /\ IsCall(Innermost)
      /\ \A i \in DOMAIN stack' : i \in DOMAIN stack /\ Follows(stack[i], stack'[i])
      /\ \A i \in DOMAIN stack : i \in DOMAIN stack' \/ i = n
  <2>1. n \in Nat \ {0} /\ DOMAIN stack = 1 .. n
    BY <1>1, <1>3, BackFits
  <2>2. n \in DOMAIN stack
    BY <2>1
  <2> QED
    BY <1>1, <1>3, <2>2, BackFits
<1>5. gaps' \in BOOLEAN
  BY <1>1, <1>2, <1>4 DEF KeptInv, IsCall
<1>6. TitlesInv' /\ FiguresInv' /\ PromotionsInv'
  BY <1>1, <1>3, <1>5, ReturnKeeps
<1>7. feed \in Seq(Item) /\ Ids(feed) \subseteq RowsOf(reader)
  BY <1>2 DEF KeptInv
<1>8. Worked => x \in Seq(Item) /\ \A j \in DOMAIN x : Honest(x[j])
  BY <1>2, <1>4 DEF FeedInv
<1> HIDE DEF x
<1>9. /\ feed' \in Seq(Item) /\ Ids(feed)' \subseteq RowsOf(reader)
      /\ Ids(feed) \subseteq Ids(feed)' /\ (Worked => Ids(feed)' = Ids(feed) \cup Ids(x))
      /\ ~ Worked => Ids(feed)' = Ids(feed)
      /\ \A i \in DOMAIN feed' : \/ \E j \in DOMAIN feed : feed'[i] = feed[j]
                                 \/ Worked /\ \E j \in DOMAIN x : feed'[i] = x[j]
  <2>1. CASE ~ Worked
    BY <1>1, <1>7, <2>1 DEF Ids
  <2>2. CASE Worked
    <3>1. Ids(x) \subseteq RowsOf(reader)
      BY <1>8, <2>2 DEF Ids, Honest
    <3>2. feed' = feed \o x
      BY <1>1, <2>2
    <3>3. Ids(feed)' = Ids(feed \o x)
      BY <3>2 DEF Ids
    <3> QED
      BY <1>7, <1>8, <2>2, <3>1, <3>2, <3>3, ConcatIs
  <2> QED
    BY <2>1, <2>2
<1>10. KeptInv'
  <2>1. promos' \subseteq DOMAIN stock
    BY <1>1, <1>2 DEF KeptInv
  <2> QED
    BY <1>1, <1>2, <1>3, <1>5, <1>9, <2>1, ReturnKeepsRest
<1>11. FeedInv'
  <2>1. /\ rows' = rows /\ events' = events /\ swept \subseteq swept'
        /\ \A c : Pushed(c) => Pushed(c)'
    BY <1>1 DEF KeepsRest, server, Pushed, IsNote
  <2>2. ASSUME NEW i \in DOMAIN feed', feed'[i].read
        PROVE  rows[feed'[i].id].read \/ feed'[i].id \in swept'
    <3>1. ASSUME NEW j \in DOMAIN feed, feed'[i] = feed[j]
          PROVE  rows[feed'[i].id].read \/ feed'[i].id \in swept'
      BY <1>2, <2>1, <2>2, <3>1 DEF FeedInv, ReadFor
    <3>2. ASSUME Worked, NEW j \in DOMAIN x, feed'[i] = x[j]
          PROVE  rows[feed'[i].id].read
      BY <1>8, <2>2, <3>2 DEF Honest
    <3> QED
      BY <1>9, <3>1, <3>2
  <2>3. \/ gaps'
        \/ /\ ~ gaps /\ Ids(feed) \subseteq Ids(feed)'
           /\ \A c : Pushed(c) => Pushed(c)' \/ c \in Ids(feed)'
           /\ \A i \in DOMAIN stack : \/ i \in DOMAIN stack'
                                      \/ \A c : Brings(stack[i], c) => c \in Ids(feed)'
    <3>1. CASE gaps \/ ~ Worked \/ Innermost.old
      BY <1>1, <1>2, <1>4, <3>1 DEF KeptInv, IsCall
    <3>2. CASE ~ gaps /\ Worked /\ ~ Innermost.old
      <4>1. \A c : Brings(stack[n], c) => c \in Ids(feed)'
        BY <1>4, <1>9, <3>2 DEF Brings, x
      <4> QED
        BY <1>4, <1>9, <2>1, <3>2, <4>1
    <3> QED
      BY <3>1, <3>2
  <2>4. \/ Ids(feed)' \subseteq Ids(feed) \cup swept'
        \/ \A i \in DOMAIN stack' : stack'[i].do = "readAll" => ~ Good(stack'[i])
    <3>1. CASE ~ Worked
      BY <1>9, <3>1
    <3>2. CASE Worked /\ AllMarked
      BY <1>1, <1>9, <3>2
    <3>3. CASE ~ AllMarked
      <4>1. ASSUME NEW i \in DOMAIN stack', stack'[i].do = "readAll", Good(stack'[i])
            PROVE  FALSE
        <5>1. i \in DOMAIN stack /\ stack[i].do = "readAll" /\ Good(stack[i])
          BY <1>4, <4>1 DEF Follows
        <5>2. stack[i].got # None
          BY <5>1, Outcomes DEF Good
        <5> QED
          BY <3>3, <5>1, <5>2 DEF AllMarked
      <4> QED
        BY <4>1
    <3> QED
      BY <3>1, <3>2, <3>3
  <2> QED
    BY <1>2, <1>4, <2>1, <2>2, <2>3, <2>4, FeedReshaped
<1> QED
  BY <1>4, <1>6, <1>10, <1>11 DEF DeskInv

LEMMA PopFacts ==
  ASSUME KeptInv, events # <<>>, events' = Tail(events), UNCHANGED <<rows, session, who>>
  PROVE  /\ IsSeq(events') /\ EventsFit' /\ IsEvent(Head(events))
         /\ \A m : Pushed(m) => Pushed(m)' \/ (IsNote(Head(events)) /\ m = Head(events).id)
         /\ Noted => Noted' \/ IsNote(Head(events))
<1> DEFINE n == Len(events)
<1>1. /\ IsSeq(events') /\ n \in Nat \ {0} /\ Len(events') = n - 1
      /\ Head(events) = events[1] /\ \A i \in 1 .. n - 1 : events'[i] = events[i + 1]
  BY TailSeq DEF KeptInv
<1>2. DOMAIN events = 1 .. n /\ DOMAIN events' = 1 .. n - 1
  BY <1>1, SeqShape DEF KeptInv
<1>3. \A i \in DOMAIN events' : i + 1 \in DOMAIN events /\ events'[i] = events[i + 1]
  BY <1>1, <1>2
<1>4. \A i \in DOMAIN events : i = 1 \/ (i - 1 \in DOMAIN events' /\ events'[i - 1] = events[i])
  <2> SUFFICES ASSUME NEW i \in 1 .. n, i # 1
               PROVE  i - 1 \in 1 .. n - 1 /\ events'[i - 1] = events[i]
    BY <1>2
  <2>1. i - 1 \in 1 .. n - 1 /\ (i - 1) + 1 = i
    BY <1>1
  <2> QED
    BY <1>1, <2>1
<1>5. IsEvent(Head(events))
  <2>1. 1 \in DOMAIN events
    BY <1>1, <1>2
  <2> QED
    BY <1>1, <2>1 DEF KeptInv, EventsFit
<1>6. EventsFit'
  BY <1>3 DEF KeptInv, EventsFit, IsEvent, IsNote
<1>7. \A m : Pushed(m) => Pushed(m)' \/ (IsNote(Head(events)) /\ m = Head(events).id)
  BY <1>1, <1>4 DEF Pushed, IsNote
<1>8. Noted => Noted' \/ IsNote(Head(events))
  BY <1>1, <1>4 DEF Noted, IsNote
<1> QED
  BY <1>1, <1>5, <1>6, <1>7, <1>8

LEMMA AgedOrSame ==
  ASSUME WaitsInv, wire' = wire, stack' = stack \/ stack' = Aged(stack)
  PROVE  /\ Fits(wire', stack') /\ From(stack', stack) /\ From(wire', wire)
         /\ Len(stack') = Len(stack) /\ DOMAIN stack' = DOMAIN stack
         /\ \A D : Calm(D, stack, stack')
         /\ \A i \in DOMAIN stack : Follows(stack[i], stack'[i])
         /\ stack' = Aged(stack) => \A i \in DOMAIN stack : Good(stack'[i]) => stack'[i].old
<1>1. Stacked(stack) /\ Linked(wire, stack) /\ Wired(wire)
  BY DEF WaitsInv
<1>2. CASE stack' = stack
  <2>1. From(stack', stack) /\ (\A D : Calm(D, stack, stack'))
        /\ \A i \in DOMAIN stack : Follows(stack[i], stack'[i])
    BY <1>2, FollowsItself DEF From, Calm
  <2>2. stack' = Aged(stack) => \A i \in DOMAIN stack : Good(stack'[i]) => stack'[i].old
    BY <1>1, <1>2, AgedStack, Outcomes DEF Good
  <2> QED
    BY <1>1, <1>2, <2>1, <2>2 DEF Fits, From
<1>3. CASE stack' = Aged(stack)
  BY <1>1, <1>3, AgedStack, Outcomes DEF Fits, From, Good
<1> QED
  BY <1>2, <1>3

\* The figures and the list may change; no call begins or returns.
LEMMA EventKeeps ==
  ASSUME DeskInv, stack' = stack \/ stack' = Aged(stack), wire' = wire,
         UNCHANGED <<server, who, desk, local, promos, told, undone, sales>>,
         calls' \in 0 .. MaxCalls, calls <= calls', gaps' \in BOOLEAN,
         IsSeq(events'), EventsFit',
         \/ UNCHANGED <<analytics, skewed>> /\ (Noted => Noted')
         \/ analytics' = Nothing /\ skewed' = FALSE /\ stack' = Aged(stack),
         feed' \in Seq(Item), Ids(feed)' \subseteq RowsOf(reader), FeedInv'
  PROVE  DeskInv'
<1>1. WaitsInv /\ KeptInv /\ TitlesInv /\ FiguresInv /\ PromotionsInv
  BY DEF DeskInv
<1>2. /\ Fits(wire', stack') /\ From(stack', stack) /\ From(wire', wire)
      /\ Len(stack') = Len(stack) /\ DOMAIN stack' = DOMAIN stack
      /\ \A D : Calm(D, stack, stack')
      /\ \A i \in DOMAIN stack : Follows(stack[i], stack'[i])
      /\ stack' = Aged(stack) => \A i \in DOMAIN stack : Good(stack'[i]) => stack'[i].old
  BY <1>1, AgedOrSame
<1>3. UNCHANGED <<stock, sold, rows, session>> /\ skewed' \in BOOLEAN
  BY <1>1 DEF server, KeptInv
<1>4. WaitsInv'
  BY <1>1, <1>2, <1>3, WaitsKept DEF RowsOf, WaitsInv
<1>5. KeptInv'
  BY <1>1, <1>3 DEF KeptInv, RowsOf
<1>6. TitlesInv'
  <2>1. told + Len(stack') <= calls'
    <3>1. Len(stack) \in Nat
      BY <1>1, SeqShape DEF WaitsInv, Stacked
    <3> QED
      BY <1>1, <1>2, <3>1 DEF TitlesInv, KeptInv
  <2> QED
    BY <1>1, <1>2, <1>3, <2>1, TitlesKept
<1>7. FiguresInv'
  <2>1. CASE UNCHANGED <<analytics, skewed>> /\ (Noted => Noted')
    BY <1>1, <1>2, <1>3, <2>1, FiguresKept DEF TitlesInv
  <2>2. CASE analytics' = Nothing /\ stack' = Aged(stack)
    BY <1>1, <1>2, <2>2, FiguresForgotten
  <2> QED
    BY <2>1, <2>2
<1>8. PromotionsInv'
  BY <1>1, <1>2, <1>3, PromotionsCalm DEF Backed
<1> QED
  BY <1>4, <1>5, <1>6, <1>7, <1>8 DEF DeskInv

LEMMA EventsKeep == DeskInv /\ (OnNotification \/ OnDiscountApplied) => DeskInv'
<1> SUFFICES ASSUME DeskInv, OnNotification \/ OnDiscountApplied PROVE DeskInv'
  OBVIOUS
<1>1. WaitsInv /\ KeptInv /\ FeedInv
  BY DEF DeskInv
<1> DEFINE c == Head(events)
           m == c.id
           new == [id |-> m, read |-> FALSE]
<1>2. /\ events # <<>> /\ events' = Tail(events) /\ c.is \in {"note", "discount"}
      /\ UNCHANGED <<server, who, desk, local, promos, wire, bounds, told, undone>>
      /\ \/ /\ analytics' = Nothing /\ skewed' = FALSE /\ stack' = Aged(stack)
            /\ UNCHANGED <<feed, swept>> /\ gaps' = IF IsNote(c) THEN TRUE ELSE gaps
         \/ /\ ~ IsNote(c) /\ UNCHANGED <<analytics, skewed, stack, feed, gaps, swept>>
         \/ /\ IsNote(c) /\ ~ desk /\ UNCHANGED <<analytics, skewed, stack>>
            /\ feed' = <<new>> \o feed
            /\ gaps' = (gaps \/ (feed = <<>> /\ ~ Fetching))
            /\ swept' = IF AllMarked THEN swept \cup {m} ELSE swept
  <2>1. CASE OnNotification
    BY <2>1 DEF OnNotification, IsNote, Hears, Invalidate
  <2>2. CASE OnDiscountApplied
    BY <2>2 DEF OnDiscountApplied, IsNote, Invalidate
  <2> QED
    BY <2>1, <2>2
<1>3. UNCHANGED <<stock, sold, rows, session, calls, sales>>
  BY <1>2 DEF server, bounds
<1>4. /\ IsSeq(events') /\ EventsFit' /\ IsEvent(c)
      /\ \A k : Pushed(k) => Pushed(k)' \/ (IsNote(c) /\ k = m)
      /\ Noted => Noted' \/ IsNote(c)
  BY <1>1, <1>2, <1>3, PopFacts
<1>5. stack' = stack \/ stack' = Aged(stack)
  BY <1>2
<1>6. /\ DOMAIN stack' = DOMAIN stack
      /\ \A i \in DOMAIN stack' : i \in DOMAIN stack /\ Follows(stack[i], stack'[i])
      /\ \A D : Calm(D, stack, stack')
  BY <1>1, <1>2, <1>5, AgedOrSame
<1>7. calls' \in 0 .. MaxCalls /\ calls <= calls' /\ gaps' \in BOOLEAN
  <2>1. gaps \in BOOLEAN /\ calls \in 0 .. MaxCalls /\ MaxCalls \in Nat
    BY <1>1, DeskAssumption DEF KeptInv
  <2>2. gaps' \in BOOLEAN
    <3> HIDE DEF c, new, m
    <3> QED
      BY <1>2, <2>1, Zenon
  <2> QED
    BY <1>3, <2>1, <2>2
<1>8. feed \in Seq(Item) /\ Ids(feed) \subseteq RowsOf(reader)
  BY <1>1 DEF KeptInv
<1>9. CASE UNCHANGED <<feed, swept>> /\ (IsNote(c) => gaps') /\ (~ IsNote(c) => gaps' = gaps)
  <2>1. Ids(feed)' = Ids(feed)
    BY <1>9 DEF Ids
  <2>2. \A i \in DOMAIN feed' : feed'[i].read => rows[feed'[i].id].read \/ feed'[i].id \in swept'
    BY <1>1, <1>9 DEF FeedInv, ReadFor
  <2>3. \/ gaps'
        \/ /\ ~ gaps /\ Ids(feed) \subseteq Ids(feed)'
           /\ \A k : Pushed(k) => Pushed(k)' \/ k \in Ids(feed)'
           /\ \A i \in DOMAIN stack : \/ i \in DOMAIN stack'
                                      \/ \A k : Brings(stack[i], k) => k \in Ids(feed)'
    BY <1>1, <1>4, <1>6, <1>9, <2>1 DEF KeptInv
  <2>4. FeedInv'
    BY <1>1, <1>3, <1>6, <1>9, <2>1, <2>2, <2>3, FeedReshaped
  <2>5. \/ UNCHANGED <<analytics, skewed>> /\ (Noted => Noted')
        \/ analytics' = Nothing /\ skewed' = FALSE /\ stack' = Aged(stack)
    <3>1. CASE IsNote(c) /\ ~ desk /\ UNCHANGED <<analytics, skewed, stack>>
      BY <1>1, <3>1 DEF KeptInv, Noted
    <3>2. CASE ~ IsNote(c) /\ UNCHANGED <<analytics, skewed, stack>>
      BY <1>4, <3>2
    <3> QED
      BY <1>2, <3>1, <3>2
  <2> QED
    BY <1>2, <1>3, <1>4, <1>5, <1>7, <1>8, <1>9, <2>1, <2>4, <2>5, EventKeeps
<1>10. CASE /\ IsNote(c) /\ ~ desk /\ UNCHANGED <<analytics, skewed, stack>>
            /\ feed' = <<new>> \o feed
            /\ gaps' = (gaps \/ (feed = <<>> /\ ~ Fetching))
            /\ swept' = IF AllMarked THEN swept \cup {m} ELSE swept
  <2>1. m \in RowsOf(reader) /\ m \in Nat /\ who # publisher
    <3>1. m \in DOMAIN rows /\ rows[m].to = session /\ who # publisher
      BY <1>1, <1>4, <1>10 DEF IsEvent, KeptInv
    <3>2. rows \in Seq(Row) /\ Len(rows) \in Nat /\ DOMAIN rows = 1 .. Len(rows)
      BY <1>1, LenProperties DEF KeptInv
    <3>3. rows[m] \in Row /\ m \in Nat
      BY <3>1, <3>2
    <3>4. session \in Users
      BY <3>1, <3>3 DEF Row
    <3>5. session = reader
      BY <1>1, <3>1, <3>4, DeskAssumption DEF KeptInv, Users
    <3> QED
      BY <3>1, <3>3, <3>5 DEF RowsOf
  <2>2. /\ new \in Item /\ <<new>> \in Seq(Item) /\ Ids(<<new>>) = {m}
        /\ ~ new.read /\ new.id = m
    BY <2>1 DEF Item, Ids
  <2>3. PICK one : one = <<new>>
    OBVIOUS
  <2>4. /\ one \o feed \in Seq(Item) /\ Ids(one \o feed) = {m} \cup Ids(feed)
        /\ \A i \in DOMAIN (one \o feed) :
             (one \o feed)[i] = new \/ \E j \in DOMAIN feed : (one \o feed)[i] = feed[j]
    <3> HIDE DEF new
    <3>0. DOMAIN <<new>> = {1} /\ <<new>>[1] = new
      OBVIOUS
    <3>1. \A j \in DOMAIN one : one[j] = new
      BY <2>3, <3>0
    <3>2. one \in Seq(Item) /\ Ids(one) = {m}
      BY <2>2, <2>3
    <3> QED
      BY <1>8, <3>1, <3>2, ConcatIs
  <2>4a. feed' = one \o feed
    BY <1>10, <2>3
  <2> HIDE DEF new
  <2>5. /\ feed' \in Seq(Item) /\ Ids(feed)' = {m} \cup Ids(feed)
        /\ \A i \in DOMAIN feed' : feed'[i] = new \/ \E j \in DOMAIN feed : feed'[i] = feed[j]
    BY <2>4, <2>4a DEF Ids
  <2>6. swept \subseteq swept'
    BY <1>10
  <2>7. \A i \in DOMAIN feed' : feed'[i].read => rows[feed'[i].id].read \/ feed'[i].id \in swept'
    BY <1>1, <2>2, <2>5, <2>6 DEF FeedInv, ReadFor
  <2>8. \/ gaps'
        \/ /\ ~ gaps /\ Ids(feed) \subseteq Ids(feed)'
           /\ \A k : Pushed(k) => Pushed(k)' \/ k \in Ids(feed)'
           /\ \A i \in DOMAIN stack : \/ i \in DOMAIN stack'
                                      \/ \A k : Brings(stack[i], k) => k \in Ids(feed)'
    BY <1>1, <1>4, <1>6, <1>10, <2>5 DEF KeptInv
  <2>9. \/ Ids(feed)' \subseteq Ids(feed) \cup swept'
        \/ \A i \in DOMAIN stack' : stack'[i].do = "readAll" => ~ Good(stack'[i])
    <3>1. CASE AllMarked
      BY <1>10, <2>5, <3>1
    <3>2. CASE ~ AllMarked
      BY <1>10, <3>2, Outcomes DEF AllMarked, Good
    <3> QED
      BY <3>1, <3>2
  <2>10. FeedInv'
    BY <1>1, <1>3, <1>6, <2>6, <2>7, <2>8, <2>9, FeedReshaped
  <2>11. (Noted => Noted') /\ Ids(feed)' \subseteq RowsOf(reader)
    BY <1>8, <2>1, <2>5 DEF Noted
  <2> QED
    BY <1>2, <1>3, <1>4, <1>5, <1>7, <1>10, <2>5, <2>10, <2>11, EventKeeps
<1> QED
  BY <1>2, <1>9, <1>10

LEMMA RefreshDeskKeeps == DeskInv /\ RefreshDesk => DeskInv'
<1> SUFFICES ASSUME DeskInv, RefreshDesk PROVE DeskInv'
  OBVIOUS
<1>1. /\ calls < MaxCalls /\ calls' = calls + 1
      /\ analytics' = Nothing /\ skewed' = FALSE /\ stack' = Aged(stack)
      /\ UNCHANGED <<server, who, desk, local, promos, feed, wire, events, sales, told, gaps,
                     swept, undone>>
  BY DEF RefreshDesk, Invalidate
<1>2. WaitsInv /\ KeptInv /\ FeedInv
  BY DEF DeskInv
<1>3. UNCHANGED <<stock, sold, rows, session>>
  BY <1>1 DEF server
<1>4. calls' \in 0 .. MaxCalls /\ calls <= calls' /\ gaps' \in BOOLEAN
  BY <1>1, <1>2, DeskAssumption DEF KeptInv
<1>5. IsSeq(events') /\ EventsFit' /\ feed' \in Seq(Item) /\ Ids(feed)' \subseteq RowsOf(reader)
  BY <1>1, <1>2, <1>3 DEF KeptInv, EventsFit, IsEvent, IsNote, Ids
<1>6. Calm(OfFeed, stack, stack')
  BY <1>1, <1>2, AgedOrSame
<1>7. FeedInv'
  <2>1. \A m : Pushed(m) => Pushed(m)'
    BY <1>1 DEF Pushed, IsNote
  <2> QED
    BY <1>1, <1>2, <1>3, <1>6, <2>1, FeedKept
<1> QED
  BY <1>1, <1>4, <1>5, <1>7, EventKeeps

LEMMA DeleteKeeps == ASSUME DeskInv, NEW i \in DOMAIN feed, DeleteNotification(i) PROVE DeskInv'
<1>1. /\ calls < MaxCalls /\ calls' = calls + 1 /\ feed' = RemoveAt(feed, i) /\ gaps' = TRUE
      /\ UNCHANGED <<server, who, desk, local, analytics, promos, stack, wire, events, sales,
                     told, skewed, swept, undone>>
  BY DEF DeleteNotification
<1>2. WaitsInv /\ KeptInv /\ FeedInv
  BY DEF DeskInv
<1>3. UNCHANGED <<stock, sold, rows, session>>
  BY <1>1 DEF server
<1>4. calls' \in 0 .. MaxCalls /\ calls <= calls'
  BY <1>1, <1>2, DeskAssumption DEF KeptInv
<1>5. IsSeq(events') /\ EventsFit' /\ (Noted => Noted')
  BY <1>1, <1>2, <1>3 DEF KeptInv, EventsFit, IsEvent, IsNote, Noted
<1>6. feed \in Seq(Item) /\ Len(feed) \in Nat /\ i \in 1 .. Len(feed) /\ DOMAIN feed = 1 .. Len(feed)
  BY <1>2, LenProperties DEF KeptInv
<1>7. feed' \in Seq(ToSet(feed))
  <2>1. \A j \in 1 .. Len(feed) : feed[j] \in ToSet(feed)
    BY <1>6 DEF ToSet
  <2>2. SubSeq(feed, 1, i - 1) \in Seq(ToSet(feed))
    BY <1>6, <2>1, SubSeqProperties
  <2>3. SubSeq(feed, i + 1, Len(feed)) \in Seq(ToSet(feed))
    BY <1>6, <2>1, SubSeqProperties
  <2> QED
    BY <1>1, <2>2, <2>3, ConcatProperties DEF RemoveAt
<1>8. \A j \in DOMAIN feed' : \E k \in DOMAIN feed : feed'[j] = feed[k]
  <2>1. \A j \in DOMAIN feed' : feed'[j] \in ToSet(feed)
    BY <1>7, LenProperties
  <2> QED
    BY <2>1 DEF ToSet
<1>9. feed' \in Seq(Item)
  <2>1. ToSet(feed) \subseteq Item
    BY <1>6 DEF ToSet
  <2> QED
    BY <1>7, <2>1, SeqMonotonic
<1>10. Ids(feed)' \subseteq Ids(feed) /\ Ids(feed) \subseteq RowsOf(reader)
  BY <1>2, <1>8 DEF KeptInv, Ids
<1>11. FeedInv'
  <2>1. \A j \in DOMAIN stack' : j \in DOMAIN stack /\ Follows(stack[j], stack'[j])
    BY <1>1, FollowsItself
  <2>2. \A j \in DOMAIN feed' : feed'[j].read => rows[feed'[j].id].read \/ feed'[j].id \in swept'
    BY <1>1, <1>2, <1>8 DEF FeedInv, ReadFor
  <2>3. gaps' /\ swept \subseteq swept' /\ Ids(feed)' \subseteq Ids(feed) \cup swept'
    BY <1>1, <1>10
  <2> QED
    BY <1>2, <1>3, <2>1, <2>2, <2>3, FeedReshaped
<1> QED
  BY <1>1, <1>4, <1>5, <1>9, <1>10, <1>11, EventKeeps

-----------------------------------------------------------------------------
(* Waits that end, lost connections, and other users.                      *)

LEMMA TimesOutKeeps == ASSUME DeskInv, NEW i \in DOMAIN stack, TimesOut(i) PROVE DeskInv'
<1>1. Fits(wire, stack)
  BY DEF DeskInv, WaitsInv, Fits
<1>2. /\ Fits(wire', stack') /\ Len(stack') = Len(stack)
      /\ From(wire', wire) /\ From(stack', stack) /\ \A D : Calm(D, stack, stack')
  BY <1>1, TimesOutFits
<1>3. UNCHANGED <<server, who, desk, local, analytics, promos, feed, events, calls, sales, history>>
  BY DEF TimesOut
<1> QED
  BY <1>2, <1>3, CalmKeeps

LEMMA LoseKeeps == DeskInv /\ Lose => DeskInv'
<1> SUFFICES ASSUME DeskInv, Lose PROVE DeskInv'
  OBVIOUS
<1>1. WaitsInv /\ KeptInv /\ TitlesInv /\ FiguresInv /\ PromotionsInv /\ FeedInv
  BY DEF DeskInv
<1>2. Fits(wire, stack)
  BY <1>1 DEF WaitsInv, Fits
<1>3. /\ Fits(wire', stack') /\ Len(stack') = Len(stack) /\ DOMAIN stack' = DOMAIN stack
      /\ From(wire', wire) /\ From(stack', stack)
      /\ \A D : Calm(D, stack, stack')
      /\ \A i \in DOMAIN stack' : stack'[i].old
  BY <1>2, LoseFits
<1>4. /\ session' = Nobody /\ events' = <<>> /\ skewed' = TRUE /\ gaps' = TRUE
      /\ UNCHANGED <<stock, sold, rows, who, desk, local, analytics, promos, feed, calls, sales,
                     told, swept, undone>>
  BY DEF Lose
<1>5. WaitsInv'
  BY <1>1, <1>3, <1>4, WaitsKept DEF RowsOf, WaitsInv
<1>6. KeptInv'
  <2>1. IsSeq(events') /\ EventsFit'
    BY <1>4 DEF IsSeq, EventsFit, ToSet
  <2> QED
    BY <1>1, <1>4, <2>1 DEF KeptInv, RowsOf, Ids
<1>7. TitlesInv'
  BY <1>1, <1>3, <1>4, TitlesKept DEF TitlesInv
<1>8. FiguresInv'
  <2>1. ASSUME NEW i \in DOMAIN stack', FetchedFigures(stack'[i])
        PROVE  FetchedFigures(stack[i]) /\ stack'[i].got.data = stack[i].got.data /\ stack'[i].old
    <3>1. Calm({"analytics"}, stack, stack')
      BY <1>3
    <3>2. i \in DOMAIN stack /\ Follows(stack[i], stack'[i])
      BY <2>1, <3>1 DEF Calm, FetchedFigures
    <3> QED
      BY <1>3, <2>1, <3>2 DEF FetchedFigures, Follows
  <2>2. FiguresHold'
    BY <1>4 DEF FiguresHold
  <2> QED
    BY <1>1, <1>3, <1>4, <2>1, <2>2 DEF FiguresInv, FetchedFigures, Good
<1>9. PromotionsInv'
  BY <1>1, <1>3, <1>4, PromotionsCalm DEF Backed
<1>10. FeedInv'
  <2>1. \A i \in DOMAIN stack' : stack'[i].do = "readAll" /\ Good(stack'[i]) =>
          \A j \in DOMAIN feed : ReadFor(feed[j].id)
    <3>1. Calm({"readAll"}, stack, stack')
      BY <1>3
    <3> QED
      BY <1>1, <3>1 DEF Calm, Follows, FeedInv
  <2>2. \A i \in DOMAIN stack' : Good(stack'[i]) /\ stack'[i].do = "read" =>
          rows[stack'[i].arg.note].read
    <3>1. Calm({"read"}, stack, stack')
      BY <1>3
    <3> QED
      BY <1>1, <3>1 DEF Calm, Follows, FeedInv
  <2>3. \A i \in DOMAIN stack' : Good(stack'[i]) /\ stack'[i].do = "feed" =>
          /\ stack'[i].got.data \in Seq(Item)
          /\ \A j \in DOMAIN stack'[i].got.data : Honest(stack'[i].got.data[j])
    <3>1. Calm({"feed"}, stack, stack')
      BY <1>3
    <3> QED
      BY <1>1, <3>1 DEF Calm, Follows, FeedInv
  <2>4. \A j \in DOMAIN feed : feed[j].read => ReadFor(feed[j].id)
    BY <1>1 DEF FeedInv
  <2> QED
    BY <1>4, <2>1, <2>2, <2>3, <2>4 DEF FeedInv, Honest, ReadFor, RowsOf, Good
<1> QED
  BY <1>5, <1>6, <1>7, <1>8, <1>9, <1>10 DEF DeskInv

LEMMA SessionsKeep == DeskInv /\ (SignOut \/ \E u \in Users : SignIn(u)) => DeskInv'
<1> SUFFICES ASSUME DeskInv, SignOut \/ \E u \in Users : SignIn(u) PROVE DeskInv'
  OBVIOUS
<1>1. /\ stack = <<>> /\ wire = <<>> /\ events = <<>>
      /\ session' = who' /\ who' \in Users \cup {Nobody}
      /\ desk \in BOOLEAN /\ desk' \in BOOLEAN /\ (who' = publisher => desk')
      /\ UNCHANGED <<stock, sold, rows, local, analytics, promos, feed, stack, wire, events,
                     bounds, history>>
  BY DeskAssumption DEF SignOut, SignIn, AtRest, DeskInv, KeptInv
<1>2. WaitsInv /\ KeptInv /\ TitlesInv /\ FiguresInv /\ PromotionsInv /\ FeedInv
  BY DEF DeskInv
<1>3. DOMAIN stack = {} /\ DOMAIN wire = {} /\ DOMAIN events = {}
  BY <1>1
<1>4. WaitsInv'
  BY <1>1, <1>2, <1>3 DEF WaitsInv, Asked, Stacked, Wired, Linked
<1>5. KeptInv'
  <2>1. EventsFit'
    BY <1>1, <1>3 DEF EventsFit
  <2> QED
    BY <1>1, <1>2, <2>1 DEF KeptInv, RowsOf, Ids, bounds, history
<1>6. TitlesInv'
  BY <1>1, <1>2 DEF TitlesInv, Untold, bounds, history
<1>7. FiguresInv'
  <2>1. ~ Noted /\ ~ Noted'
    BY <1>1, <1>3 DEF Noted
  <2>2. FiguresHold'
    BY <1>1, <1>2, <2>1 DEF FiguresInv, FiguresHold, Untold, Stats, OneShort, history
  <2> QED
    BY <1>1, <1>2, <1>3, <2>2 DEF FiguresInv, history
<1>8. PromotionsInv'
  BY <1>1, <1>2, <1>3 DEF PromotionsInv, PromotionsBacked, history
<1>9. FeedInv'
  <2>1. \A D : Calm(D, stack, stack')
    BY <1>1, <1>3 DEF Calm
  <2>2. \A n : Pushed(n) => Pushed(n)'
    BY <1>1 DEF Pushed, IsNote
  <2> QED
    BY <1>1, <1>2, <2>1, <2>2, FeedKept DEF history
<1> QED
  BY <1>4, <1>5, <1>6, <1>7, <1>8, <1>9 DEF DeskInv

-----------------------------------------------------------------------------
LEMMA DeskInit == Init => DeskInv
<1> SUFFICES ASSUME Init PROVE DeskInv
  OBVIOUS
<1> USE DeskAssumption
<1>1. /\ stock = <<[on |-> TRUE, off |-> FALSE]>> /\ sold = 0 /\ rows = <<>>
      /\ session = Nobody /\ who = Nobody /\ desk = FALSE /\ local = 0
      /\ analytics = Nothing /\ promos = {} /\ feed = <<>>
      /\ stack = <<>> /\ wire = <<>> /\ events = <<>>
      /\ calls = 0 /\ sales = 0
      /\ told = 0 /\ skewed = FALSE /\ gaps = FALSE /\ swept = {} /\ undone = {}
  BY DEF Init
<1>2. DOMAIN stack = {} /\ DOMAIN wire = {} /\ DOMAIN events = {} /\ DOMAIN feed = {}
      /\ RowsOf(reader) = {}
  BY <1>1 DEF RowsOf
<1>3. WaitsInv
  <2>1. IsSeq(<<>>) /\ Len(<<>>) = 0
    BY DEF IsSeq
  <2> QED
    BY <1>1, <1>2, <2>1 DEF WaitsInv, Stacked, Wired, Linked, Asked
<1>4. KeptInv
  <2>1. stock \in Seq(Books) /\ Len(stock) = 1
    BY <1>1 DEF Books
  <2>2. IsSeq(events) /\ EventsFit /\ Ids(feed) = {}
    BY <1>1, <1>2 DEF IsSeq, EventsFit, Ids
  <2>3. rows \in Seq(Row) /\ feed \in Seq(Item)
    BY <1>1
  <2>4. /\ Len(stock) \in 1 .. MaxBooks /\ sold \in Nat /\ sold <= sales /\ sales \in 0 .. MaxSales
        /\ calls \in 0 .. MaxCalls
    BY <1>1, <2>1
  <2>5. /\ session \in {who, Nobody} /\ who \in Users \cup {Nobody} /\ desk \in BOOLEAN
        /\ who # publisher /\ skewed \in BOOLEAN /\ gaps \in BOOLEAN /\ promos \subseteq DOMAIN stock
    BY <1>1
  <2> QED
    BY <1>2, <2>1, <2>2, <2>3, <2>4, <2>5 DEF KeptInv
<1>5. TitlesInv
  <2>1. Untold = {} /\ Cardinality(Untold) = 0
    BY <1>2, FS_EmptySet DEF Untold
  <2>2. Len(stock) = 1 /\ Len(stack) = 0
    BY <1>1
  <2> QED
    BY <1>1, <2>1, <2>2 DEF TitlesInv
<1>6. FiguresInv
  BY <1>1, <1>2 DEF FiguresInv, FiguresHold
<1>7. PromotionsInv
  BY <1>1, <1>2 DEF PromotionsInv, PromotionsBacked
<1>8. FeedInv
  BY <1>1, <1>2 DEF FeedInv
<1> QED
  BY <1>3, <1>4, <1>5, <1>6, <1>7, <1>8 DEF DeskInv

LEMMA DeskStutters == DeskInv /\ UNCHANGED vars => DeskInv'
<1> SUFFICES ASSUME DeskInv, UNCHANGED vars PROVE DeskInv'
  OBVIOUS
<1>1. WaitsInv /\ KeptInv
  BY DEF DeskInv
<1>2. /\ wire' = wire /\ stack' = stack
      /\ UNCHANGED <<server, who, desk, local, analytics, promos, feed, events, calls, sales,
                     history>>
  BY DEF vars, bounds
<1>3. /\ Fits(wire', stack') /\ From(stack', stack) /\ From(wire', wire)
      /\ Len(stack') = Len(stack) /\ \A D : Calm(D, stack, stack')
  BY <1>1, <1>2, AgedOrSame
<1> QED
  BY <1>2, <1>3, CalmKeeps

LEMMA DeskStep == DeskInv /\ [Next]_vars => DeskInv'
<1> SUFFICES ASSUME DeskInv, Next PROVE DeskInv'
  BY DeskStutters
<1>1. CASE Requests
  BY <1>1, RequestsKeep, RefreshDeskKeeps, DeleteKeeps
<1>2. CASE Server
  BY <1>2, PublishKeeps, RewritesKeep, AnalyticsKeeps, NotificationsKeep, MarksKeep, SalesKeep
     DEF Server
<1>3. CASE Returns
  BY <1>3, AddReturnsKeep, ForgettingReturnsKeep, PromotionReturnsKeep, FetchReturnsKeep,
     FeedReturnsKeep, MarkReturnsKeep DEF Returns
<1>4. CASE Events
  BY <1>4, EventsKeep DEF Events
<1>5. CASE \E i \in DOMAIN stack : TimesOut(i)
  BY <1>5, TimesOutKeeps
<1>6. CASE Lose
  BY <1>6, LoseKeeps
<1>7. CASE SignOut \/ \E u \in Users : SignIn(u)
  BY <1>7, SessionsKeep
<1> QED
  BY <1>1, <1>2, <1>3, <1>4, <1>5, <1>6, <1>7 DEF Next

LEMMA DeskInvariant == Spec => []DeskInv
<1>1. Init => DeskInv
  BY DeskInit
<1>2. DeskInv /\ [Next]_vars => DeskInv'
  BY DeskStep
<1> QED
  BY <1>1, <1>2, PTL DEF Spec

-----------------------------------------------------------------------------
\* Every title the page was told it has added is a book at the server or in the
\* list kept for the time without one, for any number of books, calls waiting
\* within each other and faults. Against a title the page is told of once the
\* call returns stands one published before that, which is why the titles
\* answered and yet to be told of are counted too (addBook, handlePublishBook).
THEOREM TitlesAreKept == Spec => []NoTitleLost
<1>1. DeskInv => NoTitleLost
  <2> SUFFICES ASSUME DeskInv PROVE NoTitleLost
    OBVIOUS
  <2>1. WaitsInv /\ TitlesInv /\ KeptInv
    BY DEF DeskInv
  <2>2. Cardinality(Untold) \in Nat
    BY <2>1, UntoldFinite DEF WaitsInv, Untold
  <2> QED
    BY <2>1, <2>2 DEF TitlesInv, KeptInv, NoTitleLost
<1> QED
  BY <1>1, DeskInvariant, PTL

\* The page's books, figures and promotions are the server's: variables have
\* their types; figures kept when nothing is under way are the server's unless
\* known to be off; and a listed promotion is a discount at the server, unless
\* the server took it off. While calls wait the figures may lack the title a
\* call is about to add, which is what the invariant says of them (addBook,
\* getPublisherAnalytics, EvtNotification, addPromotion, removePromotion).
THEOREM DeskIsTheServers == Spec => []DeskAgrees
<1>1. DeskInv => DeskAgrees
  <2> SUFFICES ASSUME DeskInv PROVE DeskAgrees
    OBVIOUS
  <2>1. WaitsInv /\ KeptInv /\ TitlesInv /\ FiguresInv /\ PromotionsInv
    BY DEF DeskInv
  <2>2. TypeOK
    <3>1. sold \in 0 .. MaxSales
      BY <2>1, DeskAssumption DEF KeptInv
    <3>2. Len(stack) \in Nat /\ DOMAIN stack = 1 .. Len(stack)
      BY <2>1, SeqShape DEF WaitsInv, Stacked
    <3>3. analytics \in [books : 1 .. MaxBooks + MaxCalls, sold : 0 .. MaxSales] \cup {Nothing}
      <4>1. told \in Nat /\ told <= MaxCalls
        BY <2>1, <3>2, DeskAssumption DEF TitlesInv, KeptInv
      <4>2. 1 .. MaxBooks + told \subseteq 1 .. MaxBooks + MaxCalls
        BY <4>1, DeskAssumption
      <4> QED
        BY <2>1, <4>2 DEF FiguresInv
    <3>4. \A w \in DOMAIN wire : wire[w].depth \in 0 .. Len(stack)
      BY <2>1, <3>2 DEF WaitsInv, Wired, IsRequest, Linked
    <3> QED
      BY <2>1, <3>1, <3>3, <3>4 DEF TypeOK, KeptInv, Books, Row, TitlesInv, WaitsInv
  <2>3. DeskFresh
    <3> SUFFICES ASSUME stack = <<>>, events = <<>>, analytics # Nothing
                 PROVE  analytics = Stats \/ skewed
      BY DEF DeskFresh
    <3>1. ~ Noted /\ Untold = {}
      <4>1. DOMAIN stack = {} /\ DOMAIN events = {}
        OBVIOUS
      <4> QED
        BY <4>1 DEF Noted, Untold
    <3> QED
      BY <2>1, <3>1 DEF FiguresInv, FiguresHold
  <2> QED
    BY <2>1, <2>2, <2>3 DEF DeskAgrees, PromotionsInv
<1> QED
  BY <1>1, DeskInvariant, PTL

\* The reader's list holds every notification of theirs once nothing is under
\* way, unless it is known to be filled in part, and what it shows as read is
\* read at the server or was taken along by "mark all". On the way a
\* notification may be pushed and not run yet, or be left to a fetch that waits:
\* the invariant says where each one is (NotificationService refresh, markAsRead,
\* markAllAsRead, EvtNotification).
THEOREM FeedIsTheServers == Spec => []FeedAgrees
<1>1. DeskInv => FeedAgrees
  <2> SUFFICES ASSUME DeskInv PROVE FeedAgrees
    OBVIOUS
  <2>1. FeedInv
    BY DEF DeskInv
  <2>2. FeedShowsAll
    <3> SUFFICES ASSUME stack = <<>>, events = <<>>, ~ gaps, NEW n \in RowsOf(reader)
                 PROVE  n \in Ids(feed)
      BY DEF FeedShowsAll
    <3>1. DOMAIN stack = {} /\ DOMAIN events = {}
      OBVIOUS
    <3> QED
      BY <2>1, <3>1 DEF FeedInv, Shown, Pushed
  <2>3. ReadAgrees
    BY <2>1 DEF FeedInv, ReadAgrees, ReadFor
  <2> QED
    BY <2>2, <2>3 DEF FeedAgrees
<1> QED
  BY <1>1, DeskInvariant, PTL

=============================================================================
