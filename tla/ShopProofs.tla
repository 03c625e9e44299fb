---------------------------- MODULE ShopProofs ----------------------------
(***************************************************************************)
(* Proofs about Shop, and Library in it, for any readers, books, shelves   *)
(* and bounds: what the client shows of library, hearts, cart and book     *)
(* page is what the server has once nothing is under way, and no move      *)
(* loses a book.                                                           *)
(*                                                                         *)
(* ShopInv says of every command that waits what it may ask, what it may   *)
(* have been told and that this is still so unless marked old (WaitsInv);  *)
(* of every copy the client keeps that it is right or that a command that  *)
(* waits will set it right (ShelvesInv, BasketInv, HeartsInv, PageInv);    *)
(* and of every book a reader had that they have it or that a command that *)
(* waits will put it down (KeptInv, GivenUpInv, PastCartInv).              *)
(***************************************************************************)
EXTENDS Shop, SequenceTheorems, FiniteSetTheorems, TLAPS

-----------------------------------------------------------------------------
(* How commands wait.                                                      *)

\* A command that waits, a request, and the sequences of them: each is what its
\* fields say.
IsFrame(f) ==
  /\ f = [op |-> f.op, cmd |-> f.cmd, more |-> f.more, got |-> f.got, old |-> f.old]
  /\ f.old \in BOOLEAN
IsRequest(w) == w = [op |-> w.op, cmd |-> w.cmd, depth |-> w.depth] /\ w.depth \in Nat

IsSeq(s) == s \in Seq(ToSet(s))
Stacked(s) == IsSeq(s) /\ \A i \in DOMAIN s : IsFrame(s[i])
Wired(q) == IsSeq(q) /\ \A i \in DOMAIN q : IsRequest(q[i])

\* The reply that came, if any.
Good(f) == f.got.is = "ok"
Open(f) == f.got = None

\* A request that is waited for is the only one of its place.
Linked(q, s) ==
  \A i \in DOMAIN q :
    LET d == q[i].depth IN
    d # 0 => /\ d \in DOMAIN s /\ Open(s[d]) /\ s[d].op = q[i].op /\ s[d].cmd = q[i].cmd
             /\ \A j \in DOMAIN q : q[j].depth = d => j = i

Fits(q, s) == Stacked(s) /\ Wired(q) /\ Linked(q, s)

-----------------------------------------------------------------------------
(* What commands ask, and what they are told.                              *)

OnShelf == {"rename", "update", "look", "delete", "add", "drop"}
OfShelves == {"get", "create"} \cup OnShelf
OfCart == {"cart", "put", "take", "empty", "checkout"}

\* What a command of each service may ask the server, ...
Sends(op, do) ==
  \/ op \in {"read", "hearts"} /\ do = "get"
  \/ op = "shelves" /\ do \in {"create"} \cup OnShelf
  \/ op \in {"move", "wish"} /\ do \in {"add", "drop"}
  \/ op = "copy" /\ do \in {"create", "add"}
  \/ op = "heart" /\ do \in {"get", "add", "drop"}
  \/ op = "cart" /\ do \in {"cart", "put", "take"}
  \/ op = "clear" /\ do \in {"empty", "cart", "take"}
  \/ op = "again" /\ do \in {"take", "put"}
  \/ op = "checkout" /\ do \in {"put", "checkout", "cart"}
  \/ op = "toCart" /\ do \in {"put", "cart", "get", "drop"}
  \/ op = "page" /\ do = "details"
  \/ op = "review" /\ do \in {"details", "review"}

\* ... about which shelves and books ...
Asks(op, c) ==
  /\ Sends(op, c.do)
  /\ c.do \in OnShelf => c.shelf \in DOMAIN shelves
  /\ c.do \in {"add", "drop", "put", "take"} \/ op \in {"heart", "toCart"} => c.book \in Books
  /\ c.do \in {"create", "rename"} => c.name \in Nat
  /\ c.do = "update" => c.sort \in Int
  /\ c.do \in {"details", "review"} => c.book \in Pages

AsksAll(op, s) == IsSeq(s) /\ \A i \in DOMAIN s : Asks(op, s[i])

OwnerOf(s) == shelves[s].owner

\* What a command is still to send: a move, the request that puts the book down,
\* on a shelf of the same owner; a new quantity, those that put it in again.
Follows(op, c, more) ==
  /\ op = "copy" => IF c.do = "create" THEN IsSeq(more) /\ ToSet(more) \subseteq Books
                    ELSE AsksAll(op, more) /\ \A i \in DOMAIN more : more[i].do = "add"
  /\ op = "clear" => AsksAll(op, more)
  /\ op = "move" => IF c.do = "drop"
                    THEN \E t \in DOMAIN shelves :
                           /\ OwnerOf(t) = OwnerOf(c.shelf)
                           /\ more = <<[do |-> "add", shelf |-> t, book |-> c.book]>>
                    ELSE more = <<>>
  /\ op = "again" => \/ more = <<Put(c.book)>>
                     \/ c.do = "put" /\ more = <<>>
  /\ op = "checkout" => more \in {<<>>, <<[do |-> "checkout"]>>}

IsListed(e) ==
  /\ e = [id |-> e.id, name |-> e.name, sort |-> e.sort, books |-> e.books]
  /\ e.id \in DOMAIN shelves /\ e.name \in Nat /\ e.sort \in Int /\ e.books \subseteq Books

\* The shelves of one user.
IsListing(list) ==
  /\ IsSeq(list) /\ \A i \in DOMAIN list : IsListed(list[i])
  /\ \A i, j \in DOMAIN list : OwnerOf(list[i].id) = OwnerOf(list[j].id)

\* What a request may be answered.
Told(c, r) ==
  /\ r = None \/ r = Failed \/ r.is = "ok" \/ (r.is = "conflict" /\ c.do = "put")
  /\ r.is = "ok" /\ c.do \in OfShelves =>
       /\ IsListing(r.shelves) /\ r.owned \subseteq Books
       /\ c.do = "create" => r.shelves # <<>>
  /\ r.is = "ok" /\ c.do \in OfCart => r.items \subseteq Books
  /\ r.is = "ok" /\ c.do = "details" => r.book = c.book /\ r.mine \in BOOLEAN

\* It is still so.
Current(c, r) ==
  /\ r.is = "ok" /\ c.do \in OfShelves =>
       r.shelves = Listing(shelves, who) /\ r.owned = owned[who]
  /\ r.is = "ok" /\ c.do \in OfCart => r.items = cart[who]

\* A command waits for something it may ask, and what it was told is the truth,
\* or marked old.
Sound(f) ==
  /\ Asks(f.op, f.cmd) /\ Follows(f.op, f.cmd, f.more) /\ Told(f.cmd, f.got)
  /\ f.old \/ Current(f.cmd, f.got)

WaitsInv ==
  /\ Fits(wire, stack)
  /\ \A i \in DOMAIN stack : Sound(stack[i])
  /\ \A i \in DOMAIN wire : Asks(wire[i].op, wire[i].cmd)
  /\ Len(stack) <= MaxDepth
  /\ who = Nobody => stack = <<>> /\ wire = <<>>

-----------------------------------------------------------------------------
(* What is kept, each variable by itself.                                  *)

\* A row of LibraryShelves.
Row == [owner : Users, name : Nat, sort : Int, books : SUBSET Books, live : BOOLEAN]

ServerInv ==
  /\ shelves \in Seq(Row) /\ owned \in [Users -> SUBSET Books]
  /\ session \in {who, Nobody} /\ who \in Users \cup {Nobody}
  /\ cart \in [Users -> SUBSET Books] /\ cartRow \subseteq Users
  /\ \A u \in Users : cart[u] # {} => u \in cartRow
  /\ reviews \subseteq Users \X Pages
  /\ OwnedNotInCart

\* LibraryService's cache.
IsLib(l) ==
  /\ l = [any |-> l.any, owned |-> l.owned, shelves |-> l.shelves] /\ l.any \in BOOLEAN
  /\ l.owned \subseteq Books /\ (~ l.any => l = Empty) /\ IsListing(l.shelves)

ClientInv ==
  /\ IsLib(lib) /\ hearts \subseteq Books
  /\ basket \in [any : BOOLEAN, items : SUBSET Books] /\ (~ basket.any => basket = NoBasket)
  /\ page \in [id : Pages \cup {NoBook}, book : Pages \cup {NoBook},
               reviews : Pages \cup {NoBook}, mine : Pages \cup {NoBook},
               pending : {"none", "load", "submit"}, busy : BOOLEAN, timer : BOOLEAN]
  /\ torn \subseteq Books /\ kept \in [Users -> SUBSET Books]

-----------------------------------------------------------------------------
(* The library, the cart and the hearts.                                   *)

Refills == {"read", "shelves", "move", "copy", "wish", "toCart"}
\* A command whose reply is about to replace the shelves LibraryService keeps.
Refilling(f) == f.op \in Refills /\ f.cmd.do \in OfShelves /\ Good(f)

ShelvesInv ==
  lib.any /\ who # Nobody =>
    \/ skewed \/ lib.shelves = Listing(shelves, who)
    \/ \E i \in DOMAIN stack : Refilling(stack[i])
PurchasesInv == lib.any /\ who # Nobody => behind \/ lib.owned = owned[who]

\* A command whose reply is about to replace CartService's cache, or that takes
\* the books of it out one by one.
Filling(f) == f.op = "clear" \/ (f.cmd.do \in OfCart /\ Good(f))

BasketInv ==
  basket.any /\ who # Nobody =>
    \/ misfilled \/ basket.items = cart[who]
    \/ \E i \in DOMAIN stack : Filling(stack[i])

Applied(c, set) == IF c.do = "drop" THEN set \ {c.book} ELSE set \cup {c.book}
Visible(f) == (f.cmd.book \in WishBooks(f.got.shelves)) = (f.cmd.do = "add")

\* A heart that has its reply, and makes the list right or counts as astray.
Lands(f) ==
  /\ f.op = "heart" /\ f.cmd.do # "get" /\ Good(f)
  /\ f.old \/ ~ Visible(f) \/ Applied(f.cmd, hearts) = Wished(shelves)

HeartsInv ==
  \/ who = Nobody \/ hearts = {} \/ drifted \/ hearts = Wished(shelves)
  \/ \E i \in DOMAIN stack : Lands(stack[i])

-----------------------------------------------------------------------------
(* The page of a book.                                                     *)

OfPage(f) == f.op \in {"page", "review"}
\* Whatever the page shows is of the book it is of.
Settled(p) == {p.book, p.reviews, p.mine} \subseteq {p.id, NoBook}

PageFits ==
  /\ ~ page.timer /\ ~ Loading => Settled(page)
  /\ page.timer => /\ page.busy /\ ~ Loading /\ page.pending \in {"load", "submit"}
                   /\ page.pending = "submit" => Settled(page) /\ <<who, page.id>> \in meant
  /\ \A i \in DOMAIN stack : OfPage(stack[i]) =>
       /\ page.busy /\ stack[i].cmd.book = page.id
       /\ \A j \in DOMAIN stack : OfPage(stack[j]) => i = j
       /\ stack[i].op = "page" /\ stack[i].more = <<>> => page.book \in {page.id, NoBook}
       /\ stack[i].op = "review" => Settled(page)
  /\ \A i \in DOMAIN wire :
       wire[i].cmd.do = "review" => <<who, wire[i].cmd.book>> \in meant
  /\ reviews \subseteq meant

PageInv ==
  /\ page.busy => page.timer \/ Loading
  /\ page.timer \/ Loading => page.id # NoBook
  /\ page.timer => who # Nobody
  /\ crossed \/ PageFits

-----------------------------------------------------------------------------
(* Books on the move.                                                      *)

\* A command that has yet to put a book down that it took, or may have taken.
CarriesHome(f, b, u) ==
  /\ f.op = "move" /\ f.cmd.book = b /\ OwnerOf(f.cmd.shelf) = u
  /\ f.cmd.do = "drop" \/ ~ Good(f)
CarriesBack(f, b) ==
  /\ f.op = "again" /\ f.cmd.book = b /\ who \in cartRow
  /\ (f.cmd.do = "take" /\ Good(f)) \/ (f.cmd.do = "put" /\ ~ Good(f))

BoughtOrLost(b, u) == b \in cart[u] \cup owned[u] \cup torn
Carried(b) == \E i \in DOMAIN stack : CarriesBack(stack[i], b)
\* The reader still has the book, or something that waits will give it back.
Has(b, u) ==
  \/ b \in OnShelves(shelves, u) \/ BoughtOrLost(b, u)
  \/ \E i \in DOMAIN stack : CarriesHome(stack[i], b, u)
  \/ u = who /\ Carried(b)

\* The move that sent the request i, which it gave up, is still to put the book
\* down after it.
PutsDownAfter(i, j) ==
  LET w == wire[i]
      f == stack[j]
  IN /\ f.op = "move" /\ f.cmd.book = w.cmd.book
     /\ OwnerOf(f.cmd.shelf) = OwnerOf(w.cmd.shelf)
     /\ \/ f.cmd.do = "drop" \/ f.got = Failed
        \/ Open(f) /\ \E k \in DOMAIN wire : k > i /\ wire[k].depth = j

GivenUp(w) == w.op = "move" /\ w.cmd.do = "drop" /\ w.depth = 0

\* The book is past the cart, or on its way into it.
PastCart(f) ==
  /\ f.op = "toCart"
  /\ \/ f.cmd.do # "put" \/ f.got.is = "conflict"
     \/ Good(f) /\ f.cmd.book \in f.got.items

KeptInv == \A u \in Users : \A b \in kept[u] : Has(b, u)

GivenUpInv ==
  \A i \in DOMAIN wire : GivenUp(wire[i]) =>
    wire[i].cmd.book \in torn \/ \E j \in DOMAIN stack : PutsDownAfter(i, j)

PastCartInv ==
  \A i \in DOMAIN stack : PastCart(stack[i]) =>
    BoughtOrLost(stack[i].cmd.book, who) \/ Carried(stack[i].cmd.book)

\* The inductive invariant.
ShopInv ==
  /\ WaitsInv /\ ServerInv /\ ClientInv
  /\ ShelvesInv /\ PurchasesInv /\ BasketInv /\ HeartsInv /\ PageInv
  /\ KeptInv /\ GivenUpInv /\ PastCartInv

-----------------------------------------------------------------------------
(* Sequences.                                                              *)

\* A sequence is its length and its elements.
LEMMA SeqShape ==
  ASSUME NEW s, IsSeq(s)
  PROVE  /\ Len(s) \in Nat /\ DOMAIN s = 1 .. Len(s)
         /\ (s = <<>> <=> Len(s) = 0)
         /\ \A i \in 1 .. Len(s) : s[i] \in ToSet(s)
         /\ \A x \in ToSet(s) : \E i \in 1 .. Len(s) : s[i] = x
<1>1. Len(s) \in Nat /\ DOMAIN s = 1 .. Len(s)
  BY LenProperties DEF IsSeq
<1>2. s = <<>> <=> Len(s) = 0
  BY EmptySeq DEF IsSeq
<1> QED
  BY <1>1, <1>2 DEF ToSet

\* A function on 1 .. n is a sequence.
LEMMA SeqMade ==
  ASSUME NEW n \in Nat, NEW S, NEW f \in [1 .. n -> S]
  PROVE  IsSeq(f) /\ Len(f) = n
<1>1. f \in [1 .. n -> ToSet(f)]
  BY DEF ToSet
<1>2. IsSeq(f)
  BY <1>1, SeqDef DEF IsSeq
<1>3. 1 .. n = 1 .. Len(f) /\ Len(f) \in Nat
  BY <1>2, SeqShape
<1> QED
  BY <1>2, <1>3

\* Append adds one element and leaves the others in their places.
LEMMA PushSeq ==
  ASSUME NEW s, IsSeq(s), NEW e
  PROVE  /\ IsSeq(Append(s, e)) /\ ToSet(Append(s, e)) = ToSet(s) \cup {e}
         /\ Len(Append(s, e)) = Len(s) + 1 /\ DOMAIN Append(s, e) = 1 .. Len(s) + 1
         /\ Append(s, e)[Len(s) + 1] = e
         /\ \A i \in 1 .. Len(s) : Append(s, e)[i] = s[i]
<1> DEFINE t == Append(s, e)
           S == ToSet(s) \cup {e}
<1>1. s \in Seq(S)
  BY SeqMonotonic DEF IsSeq
<1>2. /\ t \in Seq(S) /\ Len(t) = Len(s) + 1 /\ t[Len(s) + 1] = e
      /\ \A i \in 1 .. Len(s) : t[i] = s[i]
  BY <1>1, AppendProperties
<1>3. Len(s) \in Nat /\ DOMAIN s = 1 .. Len(s) /\ DOMAIN t = 1 .. Len(s) + 1
  BY <1>1, <1>2, LenProperties
<1> HIDE DEF t
<1>4. ToSet(t) = S
  BY <1>2, <1>3 DEF ToSet
<1> QED
  BY <1>2, <1>3, <1>4 DEF t, IsSeq

\* Front takes the last element away, ...
LEMMA FrontSeq ==
  ASSUME NEW s, IsSeq(s), s # <<>>
  PROVE  /\ IsSeq(Front(s)) /\ ToSet(s) = ToSet(Front(s)) \cup {Last(s)}
         /\ Len(s) \in Nat \ {0} /\ Len(Front(s)) = Len(s) - 1
         /\ Last(s) = s[Len(s)]
         /\ \A i \in 1 .. Len(s) - 1 : Front(s)[i] = s[i]
<1> DEFINE t == Front(s)
<1>1. /\ Len(s) \in Nat \ {0} /\ DOMAIN s = 1 .. Len(s)
      /\ \A i \in 1 .. Len(s) : s[i] \in ToSet(s)
  BY SeqShape
<1>2. /\ t \in Seq(ToSet(s)) /\ Len(t) = Len(s) - 1
      /\ \A i \in 1 .. Len(s) - 1 : t[i] = s[i]
  BY <1>1, SubSeqProperties DEF Front
<1>3. DOMAIN t = 1 .. Len(s) - 1 /\ Last(s) = s[Len(s)]
  BY <1>2, LenProperties DEF Last
<1>4. t \in [1 .. Len(s) - 1 -> ToSet(s)]
  BY <1>2, LenProperties
<1> HIDE DEF t
<1>5. ToSet(s) = ToSet(t) \cup {Last(s)}
  <2>1. \A i \in DOMAIN s : (i \in DOMAIN t /\ t[i] = s[i]) \/ s[i] = Last(s)
    BY <1>1, <1>2, <1>3
  <2>2. \A i \in DOMAIN t : i \in DOMAIN s /\ t[i] = s[i]
    BY <1>1, <1>2, <1>3
  <2>3. Len(s) \in DOMAIN s
    BY <1>1
  <2> QED
    BY <1>3, <2>1, <2>2, <2>3 DEF ToSet
<1>6. IsSeq(t)
  BY <1>1, <1>4, SeqMade
<1> QED
  BY <1>1, <1>2, <1>3, <1>5, <1>6 DEF t

\* ... Tail the first.
LEMMA TailSeq ==
  ASSUME NEW s, IsSeq(s), s # <<>>
  PROVE  /\ IsSeq(Tail(s)) /\ ToSet(Tail(s)) \subseteq ToSet(s)
         /\ Len(s) \in Nat \ {0} /\ Len(Tail(s)) = Len(s) - 1
         /\ Head(s) = s[1] /\ Head(s) \in ToSet(s)
         /\ \A i \in 1 .. Len(s) - 1 : Tail(s)[i] = s[i + 1]
<1> DEFINE t == Tail(s)
<1>1. /\ Len(s) \in Nat \ {0} /\ DOMAIN s = 1 .. Len(s) /\ Head(s) = s[1]
      /\ \A i \in 1 .. Len(s) : s[i] \in ToSet(s)
  BY SeqShape
<1>2. /\ t \in Seq(ToSet(s)) /\ Len(t) = Len(s) - 1
      /\ \A i \in 1 .. Len(s) - 1 : t[i] = s[i + 1]
  BY HeadTailProperties DEF IsSeq
<1>3. DOMAIN t = 1 .. Len(s) - 1 /\ t \in [1 .. Len(s) - 1 -> ToSet(s)]
  BY <1>2, LenProperties
<1> HIDE DEF t
<1>4. IsSeq(t)
  BY <1>1, <1>3, SeqMade
<1>5. ToSet(t) \subseteq ToSet(s)
  BY <1>1, <1>2, <1>3 DEF ToSet
<1> QED
  BY <1>1, <1>2, <1>4, <1>5 DEF t

-----------------------------------------------------------------------------
(* Finite sets that are ordered.                                           *)

\* The elements of S before x in the strict order R.
Below(S, R, x) == {t \in S : <<t, x>> \in R}
Orders(R, S) ==
  /\ \A s, t \in S : s # t => <<s, t>> \in R \/ <<t, s>> \in R
  /\ \A s \in S : <<s, s>> \notin R
  /\ \A s, t, u \in S : <<s, t>> \in R /\ <<t, u>> \in R => <<s, u>> \in R

\* In a finite set that is ordered, every rank belongs to exactly one element.
LEMMA Ranked ==
  ASSUME NEW S, IsFiniteSet(S), NEW R, Orders(R, S)
  PROVE  /\ \A k \in 1 .. Cardinality(S) : \E x \in S : Cardinality(Below(S, R, x)) = k - 1
         /\ \A x \in S : \E k \in 1 .. Cardinality(S) : Cardinality(Below(S, R, x)) = k - 1
         /\ \A x, y \in S : Cardinality(Below(S, R, x)) = Cardinality(Below(S, R, y)) => x = y
<1> DEFINE n == Cardinality(S)
           f == [x \in S |-> Cardinality(Below(S, R, x)) + 1]
<1>1. n \in Nat
  BY FS_CardinalityType
<1>2. ASSUME NEW x \in S
      PROVE  /\ IsFiniteSet(Below(S, R, x)) /\ Cardinality(Below(S, R, x)) \in Nat
             /\ Cardinality(Below(S, R, x)) < n
  <2>1. Below(S, R, x) \in SUBSET S /\ x \notin Below(S, R, x)
    BY DEF Below, Orders
  <2>2. /\ IsFiniteSet(Below(S, R, x)) /\ Cardinality(Below(S, R, x)) <= n
        /\ (n = Cardinality(Below(S, R, x)) => S = Below(S, R, x))
    BY <2>1, FS_Subset
  <2> QED
    BY <1>1, <2>1, <2>2, FS_CardinalityType
<1>3. ASSUME NEW x \in S, NEW y \in S, <<x, y>> \in R
      PROVE  Cardinality(Below(S, R, x)) < Cardinality(Below(S, R, y))
  <2>1. Below(S, R, x) \in SUBSET Below(S, R, y)
    BY <1>3 DEF Below, Orders
  <2>2. x \in Below(S, R, y) /\ x \notin Below(S, R, x)
    BY <1>3 DEF Below, Orders
  <2>3. /\ Cardinality(Below(S, R, x)) <= Cardinality(Below(S, R, y))
        /\ Cardinality(Below(S, R, x)) # Cardinality(Below(S, R, y))
    BY <1>2, <2>1, <2>2, FS_Subset
  <2> QED
    BY <1>2, <2>3
<1>4. f \in [S -> 1 .. n]
  BY <1>1, <1>2
<1>5. ASSUME NEW x \in S, NEW y \in S, f[x] = f[y], x # y
      PROVE  FALSE
  <2>1. <<x, y>> \in R \/ <<y, x>> \in R
    BY <1>5 DEF Orders
  <2>2. Cardinality(Below(S, R, x)) = Cardinality(Below(S, R, y))
    BY <1>2, <1>5
  <2> QED
    BY <1>2, <1>3, <2>1, <2>2
<1>6. f \in Injection(S, 1 .. n)
  BY <1>4, <1>5 DEF Injection, IsInjective
<1>7. IsFiniteSet(1 .. n) /\ Cardinality(1 .. n) = n
  BY <1>1, FS_Interval
<1>8. f \in Surjection(S, 1 .. n)
  BY <1>6, <1>7, FS_Injection
<1>9. ASSUME NEW k \in 1 .. n
      PROVE  \E x \in S : Cardinality(Below(S, R, x)) = k - 1
  <2>1. PICK x \in S : f[x] = k
    BY <1>8 DEF Surjection
  <2> QED
    BY <1>2, <2>1
<1>10. ASSUME NEW x \in S
       PROVE  \E k \in 1 .. n : Cardinality(Below(S, R, x)) = k - 1
  <2>1. f[x] \in 1 .. n /\ Cardinality(Below(S, R, x)) = f[x] - 1
    BY <1>2, <1>4
  <2> QED
    BY <2>1
<1>11. \A x, y \in S : Cardinality(Below(S, R, x)) = Cardinality(Below(S, R, y)) => x = y
  BY <1>5
<1> QED
  BY <1>9, <1>10, <1>11

\* Every nonempty set of naturals has a least member.
LEMMA LeastOf ==
  ASSUME NEW T \in SUBSET Nat, T # {}
  PROVE  Min(T) \in T /\ \A i \in T : Min(T) <= i
<1>1. PICK m \in T : TRUE
  OBVIOUS
<1> DEFINE S == {i \in T : i <= m}
           R == {p \in Nat \X Nat : p[1] < p[2]}
<1>2. S \in SUBSET Nat /\ \A s \in S : s <= m
  OBVIOUS
<1>3. IsFiniteSet(S)
  BY <1>1, <1>2, FS_BoundedSetOfNaturals
<1>4. \A s, t \in Nat : <<s, t>> \in R <=> s < t
  OBVIOUS
<1>5. Orders(R, S)
  BY <1>2, <1>4 DEF Orders
<1>6. Cardinality(S) \in Nat /\ Cardinality(S) # 0
  BY <1>1, <1>3, FS_CardinalityType, FS_EmptySet
<1>7. PICK x \in S : Cardinality(Below(S, R, x)) = 0
  <2>1. 1 \in 1 .. Cardinality(S)
    BY <1>6
  <2> HIDE DEF S, R
  <2>2. PICK x \in S : Cardinality(Below(S, R, x)) = 1 - 1
    BY <1>3, <1>5, <2>1, Ranked
  <2> QED
    BY <2>2
<1>8. Below(S, R, x) = {}
  <2>1. Below(S, R, x) \in SUBSET S
    BY DEF Below
  <2> QED
    BY <1>3, <1>7, <2>1, FS_Subset, FS_EmptySet
<1>9. \A i \in S : ~ (i < x)
  BY <1>2, <1>4, <1>8 DEF Below
<1>10. x \in T /\ \A i \in T : x <= i
  BY <1>1, <1>9
<1> QED
  BY <1>10 DEF Min

-----------------------------------------------------------------------------
(* What steps do to the commands that wait.                                *)

New(op, cmd, more) == [op |-> op, cmd |-> cmd, more |-> more, got |-> None, old |-> FALSE]
Given(f, r) == [op |-> f.op, cmd |-> f.cmd, more |-> f.more, got |-> r, old |-> f.old]
AgedFrame(f) == IF f.got # None THEN [f EXCEPT !.old = TRUE] ELSE f
Asking(op, cmd, d) == [op |-> op, cmd |-> cmd, depth |-> d]

\* The same command, with the same reply or none that is good.
Same(e, f) ==
  /\ f.op = e.op /\ f.cmd = e.cmd /\ f.more = e.more /\ (e.old => f.old)
  /\ f.got = e.got \/ (Open(e) /\ f.got = Failed)

\* All but the k-th go on as they were.
Calm(k, s, t) ==
  /\ \A i \in DOMAIN s : i # k => i \in DOMAIN t /\ Same(s[i], t[i])
  /\ \A i \in DOMAIN t : i # k => i \in DOMAIN s

LEMMA Outcomes ==
  /\ None # Failed /\ None.is = "none" /\ Failed.is = "no" /\ None.is # "ok" /\ Failed.is # "ok"
  /\ \A r : r.is = "ok" \/ r.is = "conflict" => r # None /\ r # Failed
  BY DEF None, Failed

LEMMA SameGood ==
  ASSUME NEW e, NEW f, Same(e, f)
  PROVE  (Good(f) <=> Good(e)) /\ (Good(e) => f.got = e.got)
  BY Outcomes DEF Same, Good, Open

LEMMA NewIs ==
  ASSUME NEW op, NEW cmd, NEW more
  PROVE  LET f == New(op, cmd, more) IN
         /\ IsFrame(f) /\ Open(f) /\ ~ Good(f) /\ f.op = op /\ f.cmd = cmd /\ f.more = more
         /\ f.got = None /\ ~ f.old
  BY DEF IsFrame, New, Open, Good, None

LEMMA GivenIs ==
  ASSUME NEW f, IsFrame(f), NEW r
  PROVE  /\ [f EXCEPT !.got = r] = Given(f, r) /\ IsFrame(Given(f, r))
         /\ Given(f, r).op = f.op /\ Given(f, r).cmd = f.cmd /\ Given(f, r).more = f.more
         /\ Given(f, r).got = r /\ Given(f, r).old = f.old
  BY DEF IsFrame, Given

LEMMA AgedIs ==
  ASSUME NEW e, IsFrame(e)
  PROVE  /\ IsFrame(AgedFrame(e)) /\ Same(e, AgedFrame(e)) /\ AgedFrame(e).got = e.got
         /\ (e.got # None => AgedFrame(e).old) /\ (e.got = None => AgedFrame(e) = e)
<1>1. CASE e.got = None
  BY <1>1 DEF AgedFrame, Same
<1>2. CASE e.got # None
  <2>1. AgedFrame(e) = [op |-> e.op, cmd |-> e.cmd, more |-> e.more, got |-> e.got, old |-> TRUE]
    BY <1>2 DEF AgedFrame, IsFrame
  <2> QED
    BY <1>2, <2>1 DEF IsFrame, Same
<1> QED
  BY <1>1, <1>2

LEMMA SameItself ==
  ASSUME NEW e PROVE Same(e, e)
  BY DEF Same

LEMMA AgedStack ==
  ASSUME NEW s, Stacked(s), NEW q, Linked(q, s)
  PROVE  /\ Stacked(Aged(s)) /\ Linked(q, Aged(s)) /\ Len(Aged(s)) = Len(s)
         /\ DOMAIN Aged(s) = DOMAIN s
         /\ \A i \in DOMAIN s :
              /\ Same(s[i], Aged(s)[i]) /\ Aged(s)[i].got = s[i].got
              /\ s[i].got # None => Aged(s)[i].old
              /\ s[i].got = None => Aged(s)[i] = s[i]
<1>1. Len(s) \in Nat /\ DOMAIN s = 1 .. Len(s)
  BY SeqShape DEF Stacked
<1>2. Aged(s) = [i \in 1 .. Len(s) |-> AgedFrame(s[i])]
  BY <1>1 DEF Aged, AgedFrame
<1> DEFINE t == Aged(s)
<1>3. /\ DOMAIN t = 1 .. Len(s) /\ \A i \in 1 .. Len(s) : t[i] = AgedFrame(s[i])
      /\ t \in [1 .. Len(s) -> ToSet(t)]
  BY <1>2 DEF ToSet
<1> HIDE DEF t
<1>4. \A i \in 1 .. Len(s) : /\ IsFrame(t[i]) /\ Same(s[i], t[i])
                            /\ t[i].got = s[i].got /\ (s[i].got # None => t[i].old)
                            /\ (s[i].got = None => t[i] = s[i])
  BY <1>1, <1>3, AgedIs DEF Stacked
<1>5. IsSeq(t) /\ Len(t) = Len(s)
  BY <1>1, <1>3, SeqMade
<1>6. Stacked(t)
  BY <1>3, <1>4, <1>5 DEF Stacked
<1>8. Linked(q, t)
  BY <1>1, <1>3, <1>4 DEF Linked, Same, Open
<1> QED
  BY <1>1, <1>3, <1>4, <1>5, <1>6, <1>8 DEF t

\* A command is put on top, and its request on the way.
Pushes(q, s, f, p, t) == t = Append(s, f) /\ p = Append(q, Asking(f.op, f.cmd, Len(s) + 1))

Pushed(q, s, f, p, t) ==
  LET n == Len(s)
      m == Len(q)
  IN /\ Fits(p, t) /\ n \in Nat /\ m \in Nat /\ Len(t) = n + 1
     /\ DOMAIN s = 1 .. n /\ DOMAIN t = 1 .. n + 1 /\ t[n + 1] = f
     /\ \A i \in 1 .. n : t[i] = s[i]
     /\ DOMAIN q = 1 .. m /\ DOMAIN p = 1 .. m + 1
     /\ p[m + 1] = Asking(f.op, f.cmd, n + 1)
     /\ \A i \in 1 .. m : p[i] = q[i]
     /\ t # <<>> /\ p # <<>>
     /\ Calm(n + 1, s, t)

LEMMA PushFits ==
  ASSUME NEW q, NEW s, Fits(q, s), NEW f, IsFrame(f), Open(f), NEW t, NEW p,
         Pushes(q, s, f, p, t)
  PROVE  Pushed(q, s, f, p, t)
<1> USE DEF Pushes
<1> DEFINE n == Len(s)
           m == Len(q)
           w == Asking(f.op, f.cmd, n + 1)
<1>2. /\ n \in Nat /\ DOMAIN s = 1 .. n /\ m \in Nat /\ DOMAIN q = 1 .. m
  BY SeqShape DEF Fits, Stacked, Wired
<1>3. IsRequest(w) /\ w.depth = n + 1 /\ w.op = f.op /\ w.cmd = f.cmd
  BY <1>2 DEF IsRequest, Asking
<1> HIDE DEF w
<1>4. /\ IsSeq(t) /\ Len(t) = n + 1 /\ DOMAIN t = 1 .. n + 1
      /\ t[n + 1] = f /\ \A i \in 1 .. n : t[i] = s[i]
  BY PushSeq DEF Fits, Stacked
<1>5. /\ IsSeq(p) /\ DOMAIN p = 1 .. m + 1
      /\ p[m + 1] = w /\ \A i \in 1 .. m : p[i] = q[i]
  BY PushSeq DEF Fits, Wired, w
<1>6. Stacked(t)
  BY <1>2, <1>4 DEF Fits, Stacked
<1>7. Wired(p)
  BY <1>2, <1>3, <1>5 DEF Fits, Wired
<1>8. Linked(p, t)
  <2>1. \A i \in 1 .. m : q[i].depth # 0 =>
          LET d == q[i].depth IN
          /\ d \in 1 .. n /\ Open(s[d])
          /\ s[d].op = q[i].op /\ s[d].cmd = q[i].cmd
          /\ \A j \in 1 .. m : q[j].depth = d => j = i
    BY <1>2 DEF Fits, Linked
  <2>2. \A i \in 1 .. m : q[i].depth \in Nat /\ q[i].depth # n + 1
    BY <1>2, <2>1 DEF Fits, Wired, IsRequest
  <2> SUFFICES ASSUME NEW i \in DOMAIN p, p[i].depth # 0
               PROVE  LET d == p[i].depth IN
                      /\ d \in DOMAIN t /\ Open(t[d])
                      /\ t[d].op = p[i].op /\ t[d].cmd = p[i].cmd
                      /\ \A j \in DOMAIN p : p[j].depth = d => j = i
    BY DEF Linked
  <2>3. CASE i = m + 1
    BY <1>2, <1>3, <1>4, <1>5, <2>1, <2>2, <2>3
  <2>4. CASE i \in 1 .. m
    BY <1>2, <1>3, <1>4, <1>5, <2>1, <2>2, <2>4, SMTT(30)
  <2> QED
    BY <1>2, <1>5, <2>3, <2>4
<1>10. Calm(n + 1, s, t)
  BY <1>2, <1>4, SameItself DEF Calm
<1>11. t # <<>> /\ p # <<>>
  <2>1. Len(t) # 0 /\ (p = <<>> => DOMAIN p = {})
    BY <1>2, <1>4
  <2>2. 1 \in DOMAIN p
    BY <1>2, <1>5
  <2> QED
    BY <1>4, <2>1, <2>2, SeqShape
<1> QED
  BY <1>2, <1>4, <1>5, <1>6, <1>7, <1>8, <1>10, <1>11 DEF Fits, w, Pushed

\* The innermost command ends.
LEMMA FrontFits ==
  ASSUME NEW q, NEW s, Fits(q, s), s # <<>>, ~ Open(Last(s))
  PROVE  LET n == Len(s)
             t == Front(s)
         IN /\ Fits(q, t) /\ n \in Nat \ {0} /\ Len(t) = n - 1
            /\ DOMAIN s = 1 .. n /\ DOMAIN t = 1 .. n - 1
            /\ Last(s) = s[n] /\ IsFrame(Last(s))
            /\ \A i \in 1 .. n - 1 : t[i] = s[i]
            /\ \A i \in DOMAIN q : q[i].depth # n
            /\ Calm(n, s, t)
<1> DEFINE n == Len(s)
           t == Front(s)
<1>2. /\ IsSeq(t) /\ n \in Nat \ {0}
      /\ Len(t) = n - 1 /\ Last(s) = s[n]
      /\ \A i \in 1 .. n - 1 : t[i] = s[i]
  BY FrontSeq DEF Fits, Stacked
<1>3. DOMAIN s = 1 .. n /\ DOMAIN t = 1 .. n - 1
  BY <1>2, SeqShape DEF Fits, Stacked
<1> HIDE DEF t
<1>4. Stacked(t) /\ IsFrame(Last(s))
  BY <1>2, <1>3 DEF Fits, Stacked
<1>5. \A i \in DOMAIN q : q[i].depth # n
  <2>1. n # 0 /\ ~ Open(s[n])
    BY <1>2
  <2> QED
    BY <2>1 DEF Fits, Linked
<1>6. Linked(q, t)
  BY <1>2, <1>3, <1>5 DEF Fits, Linked
<1>7. Calm(n, s, t)
  BY <1>2, <1>3, SameItself DEF Calm
<1> QED
  BY <1>2, <1>3, <1>4, <1>5, <1>6, <1>7 DEF Fits, t

\* The first request of the way is answered, if it is still waited for, and what
\* has come before may be old now.
Replies(q, s, r, v, p, t) ==
  /\ v = s \/ v = Aged(s)
  /\ p = Tail(q)
  /\ t = IF Head(q).depth = 0 THEN v ELSE [v EXCEPT ![Head(q).depth].got = r]

Replied(q, s, r, v, p, t) ==
  LET d == Head(q).depth
      m == Len(q)
  IN /\ Fits(p, t) /\ Len(t) = Len(s) /\ DOMAIN t = DOMAIN s
     /\ m \in Nat \ {0} /\ DOMAIN q = 1 .. m /\ DOMAIN p = 1 .. m - 1
     /\ \A i \in 1 .. m - 1 : p[i] = q[i + 1]
     /\ Head(q) = q[1] /\ d \in Nat
     /\ d # 0 => /\ d \in DOMAIN s /\ Open(s[d]) /\ t[d] = Given(s[d], r)
                 /\ s[d].op = Head(q).op /\ s[d].cmd = Head(q).cmd
                 /\ IsFrame(s[d])
                 /\ \A i \in DOMAIN p : p[i].depth # d
     /\ d = 0 => d \notin DOMAIN s
     /\ Calm(d, s, t)
     /\ \A i \in DOMAIN s : i # d => t[i].got = s[i].got
     /\ v = Aged(s) => \A i \in DOMAIN s : i # d /\ ~ Open(s[i]) => t[i].old

LEMMA ReplyFits ==
  ASSUME NEW q, NEW s, Fits(q, s), q # <<>>, NEW r, r # None, NEW v, NEW p, NEW t,
         Replies(q, s, r, v, p, t)
  PROVE  Replied(q, s, r, v, p, t)
<1> USE DEF Replies
<1> DEFINE d == Head(q).depth
           n == Len(s)
           m == Len(q)
<1>1. /\ n \in Nat /\ DOMAIN s = 1 .. n
      /\ \A i \in 1 .. n : s[i] \in ToSet(s) /\ IsFrame(s[i])
  BY SeqShape DEF Fits, Stacked
<1>2. /\ IsSeq(p) /\ m \in Nat \ {0} /\ Len(p) = m - 1
      /\ Head(q) = q[1]
      /\ \A i \in 1 .. m - 1 : p[i] = q[i + 1]
  BY TailSeq DEF Fits, Wired
<1>3. DOMAIN q = 1 .. m /\ DOMAIN p = 1 .. m - 1
  BY <1>2, SeqShape DEF Fits, Wired
<1>4. Wired(p) /\ d \in Nat
  <2>1. \A i \in 1 .. m : IsRequest(q[i])
    BY <1>3 DEF Fits, Wired
  <2>2. \A i \in 1 .. m - 1 : i + 1 \in 1 .. m /\ 1 \in 1 .. m
    BY <1>2
  <2>3. Wired(p)
    BY <1>2, <1>3, <2>1, <2>2 DEF Wired
  <2>5. d \in Nat
    <3>1. 1 \in 1 .. m
      BY <1>2
    <3> QED
      BY <1>2, <2>1, <3>1 DEF IsRequest
  <2> QED
    BY <2>3, <2>5
<1>5. /\ Stacked(v) /\ Linked(q, v) /\ DOMAIN v = 1 .. n /\ Len(v) = n
      /\ \A i \in 1 .. n :
           /\ Same(s[i], v[i]) /\ v[i].got = s[i].got /\ IsFrame(v[i])
           /\ Open(s[i]) => v[i] = s[i]
           /\ v = Aged(s) /\ ~ Open(s[i]) => v[i].old
  <2>1. CASE v = s
    <3>1. Aged(s) = s => \A i \in 1 .. n : ~ Open(s[i]) => s[i].old
      BY <1>1, AgedStack DEF Fits, Open
    <3> QED
      BY <1>1, <2>1, <3>1, SameItself DEF Fits, Stacked
  <2>2. CASE v = Aged(s)
    <3>1. /\ Stacked(v) /\ Linked(q, v) /\ DOMAIN v = 1 .. n /\ Len(v) = n
          /\ \A i \in 1 .. n :
               /\ Same(s[i], v[i]) /\ v[i].got = s[i].got
               /\ s[i].got = None => v[i] = s[i]
               /\ s[i].got # None => v[i].old
      BY <1>1, <2>2, AgedStack DEF Fits
    <3> QED
      BY <3>1 DEF Open, Stacked
  <2> QED
    BY <2>1, <2>2
<1> HIDE DEF d
<1>6. \A i \in DOMAIN p : LET c == p[i].depth IN
         c # 0 => /\ c # d /\ c \in 1 .. n /\ Open(s[c])
                  /\ s[c].op = p[i].op /\ s[c].cmd = p[i].cmd
                  /\ \A j \in DOMAIN p : p[j].depth = c => j = i
  <2>1. Linked(q, s)
    BY DEF Fits
  <2> SUFFICES ASSUME NEW i \in DOMAIN p, p[i].depth # 0
               PROVE  LET c == p[i].depth IN
                      /\ c # d /\ c \in 1 .. n /\ Open(s[c])
                      /\ s[c].op = p[i].op /\ s[c].cmd = p[i].cmd
                      /\ \A j \in DOMAIN p : p[j].depth = c => j = i
    OBVIOUS
  <2>2. i + 1 \in 1 .. m /\ 1 \in 1 .. m /\ i + 1 # 1 /\ p[i] = q[i + 1]
    BY <1>2, <1>3
  <2>3. \A j \in DOMAIN p :
          j + 1 \in 1 .. m /\ p[j] = q[j + 1] /\ (j + 1 = i + 1 => j = i)
    BY <1>2, <1>3
  <2>4. LET c == q[i + 1].depth IN
        /\ c \in 1 .. n /\ Open(s[c])
        /\ s[c].op = q[i + 1].op /\ s[c].cmd = q[i + 1].cmd
        /\ \A j \in 1 .. m : q[j].depth = c => j = i + 1
    BY <1>1, <1>3, <2>1, <2>2 DEF Linked
  <2>5. q[1].depth # q[i + 1].depth
    BY <2>2, <2>4
  <2> QED
    BY <1>2, <2>2, <2>3, <2>4, <2>5 DEF d
<1>7. CASE d = 0
  <2>1. t = v
    BY <1>7 DEF d
  <2>2. Linked(p, v)
    <3>1. \A i \in 1 .. n : Open(s[i]) => v[i] = s[i]
      BY <1>5
    <3> QED
      BY <1>5, <1>6, <3>1 DEF Linked
  <2>3. Fits(p, t)
    BY <1>4, <1>5, <2>1, <2>2 DEF Fits
  <2>4. Calm(d, s, t)
    BY <1>1, <1>5, <2>1 DEF Calm
  <2> QED
    BY <1>1, <1>2, <1>3, <1>4, <1>5, <1>7, <2>1, <2>3, <2>4 DEF d, Replied
<1>8. CASE d # 0
  <2>1. /\ d \in 1 .. n /\ Open(s[d]) /\ s[d].op = Head(q).op
        /\ s[d].cmd = Head(q).cmd /\ v[d] = s[d]
    <3>1. 1 \in DOMAIN q /\ q[1].depth # 0 /\ q[1].depth = d
      BY <1>2, <1>3, <1>8 DEF d
    <3>2. d \in DOMAIN s /\ Open(s[d]) /\ s[d].op = q[1].op /\ s[d].cmd = q[1].cmd
      BY <1>8, <3>1 DEF Fits, Linked
    <3> QED
      BY <1>1, <1>2, <1>5, <3>2
  <2>2. t = [v EXCEPT ![d].got = r]
    BY <1>8 DEF d
  <2>3. t = [i \in 1 .. n |-> IF i = d THEN Given(s[d], r) ELSE v[i]]
    <3>1. [v[d] EXCEPT !.got = r] = Given(s[d], r)
      BY <1>1, <2>1, GivenIs
    <3>2. v = [i \in 1 .. n |-> v[i]]
      BY <1>5, LenProperties DEF Stacked, IsSeq
    <3> QED
      BY <2>1, <2>2, <3>1, <3>2
  <2>4. /\ \A i \in 1 .. n : i # d => t[i] = v[i]
        /\ t[d] = Given(s[d], r) /\ DOMAIN t = 1 .. n
    BY <2>1, <2>3
  <2>5. t \in [1 .. n -> ToSet(t)]
    BY <2>3 DEF ToSet
  <2>6. IsSeq(t) /\ Len(t) = n
    BY <1>1, <2>5, SeqMade
  <2>7. /\ IsFrame(Given(s[d], r)) /\ t[d].op = s[d].op
        /\ t[d].cmd = s[d].cmd /\ t[d].got = r /\ t[d].old = s[d].old
    BY <1>1, <2>1, <2>4, GivenIs
  <2>8. Stacked(t)
    BY <1>5, <2>4, <2>6, <2>7 DEF Stacked
  <2>9. Linked(p, t)
    <3>1. \A c \in 1 .. n : c # d /\ Open(s[c]) => c \in DOMAIN t /\ t[c] = s[c]
      BY <1>5, <2>4
    <3> SUFFICES ASSUME NEW i \in DOMAIN p, NEW c, c = p[i].depth, c # 0
                 PROVE  /\ c \in DOMAIN t /\ Open(t[c]) /\ t[c].op = p[i].op
                        /\ t[c].cmd = p[i].cmd
                        /\ \A j \in DOMAIN p : p[j].depth = c => j = i
      BY DEF Linked
    <3>2. /\ c # d /\ c \in 1 .. n /\ Open(s[c])
          /\ s[c].op = p[i].op /\ s[c].cmd = p[i].cmd
          /\ \A j \in DOMAIN p : p[j].depth = c => j = i
      BY <1>6
    <3> QED
      BY <3>1, <3>2
  <2>10. Fits(p, t)
    BY <1>4, <2>8, <2>9 DEF Fits
  <2>11. Calm(d, s, t)
    BY <1>1, <1>5, <2>4 DEF Calm
  <2>12. \A i \in DOMAIN p : p[i].depth # d
    BY <1>6, <1>8
  <2> QED
    BY <1>1, <1>2, <1>3, <1>4, <1>5, <1>8, <2>1, <2>4, <2>6, <2>10, <2>11, <2>12 DEF d, Replied
<1> QED
  BY <1>7, <1>8

\* A wait ends without a reply; its request is nobody's any more.
LEMMA TimesOutFits ==
  ASSUME Fits(wire, stack), NEW k \in DOMAIN stack, TimesOut(k)
  PROVE  /\ Fits(wire', stack') /\ Len(stack') = Len(stack) /\ DOMAIN stack' = DOMAIN stack
         /\ Open(stack[k]) /\ stack'[k].got = Failed
         /\ DOMAIN wire' = DOMAIN wire
         /\ \A i \in DOMAIN wire :
              /\ wire'[i].op = wire[i].op /\ wire'[i].cmd = wire[i].cmd
              /\ wire'[i].depth = IF wire[i].depth = k THEN 0 ELSE wire[i].depth
         /\ Calm(0, stack, stack') /\ 0 \notin DOMAIN stack
<1> DEFINE n == Len(stack)
           m == Len(wire)
<1>1. /\ n \in Nat /\ DOMAIN stack = 1 .. n /\ m \in Nat /\ DOMAIN wire = 1 .. m
      /\ \A i \in 1 .. n : stack[i] \in ToSet(stack) /\ IsFrame(stack[i])
      /\ \A i \in 1 .. m : wire[i] \in ToSet(wire) /\ IsRequest(wire[i])
  BY SeqShape DEF Fits, Stacked, Wired
<1>2. stack[k].got = None
  BY DEF TimesOut
<1>3. stack' = [i \in 1 .. n |-> IF i = k THEN Given(stack[k], Failed) ELSE stack[i]]
  <2>1. [stack[k] EXCEPT !.got = Failed] = Given(stack[k], Failed)
    BY <1>1, GivenIs
  <2>2. stack = [i \in 1 .. n |-> stack[i]]
    BY <1>1, LenProperties DEF Fits, Stacked, IsSeq
  <2> QED
    BY <1>1, <2>1, <2>2 DEF TimesOut
<1>4. stack' \in [1 .. n -> ToSet(stack) \cup {Given(stack[k], Failed)}]
  BY <1>1, <1>3
<1>5. IsSeq(stack') /\ Len(stack') = n /\ DOMAIN stack' = 1 .. n
  <2>1. DOMAIN stack' = 1 .. n
    BY <1>3
  <2> QED
    BY <1>1, <1>4, <2>1, SeqMade
<1>6. /\ IsFrame(stack'[k]) /\ stack'[k].op = stack[k].op /\ stack'[k].cmd = stack[k].cmd
      /\ stack'[k].more = stack[k].more /\ stack'[k].old = stack[k].old /\ stack'[k].got = Failed
  BY <1>1, <1>3, GivenIs
<1>7. \A i \in 1 .. n : i # k => stack'[i] = stack[i]
  BY <1>3
<1>8. Stacked(stack')
  BY <1>1, <1>5, <1>6, <1>7 DEF Stacked
<1>9. \A i \in 1 .. n : Same(stack[i], stack'[i])
  BY <1>1, <1>2, <1>6, <1>7, SameItself DEF Same, Open
<1>10. Calm(0, stack, stack')
  BY <1>1, <1>5, <1>9 DEF Calm
<1> DEFINE Cut(w) == IF w.depth = k THEN [w EXCEPT !.depth = 0] ELSE w
<1>11. wire' = [i \in 1 .. m |-> Cut(wire[i])]
  BY <1>1 DEF TimesOut
<1>12. /\ DOMAIN wire' = 1 .. m /\ wire' \in [1 .. m -> ToSet(wire')]
       /\ \A i \in 1 .. m : wire'[i] = Cut(wire[i])
  BY <1>11 DEF ToSet
<1>13. ASSUME NEW w, IsRequest(w)
       PROVE  /\ IsRequest(Cut(w)) /\ Cut(w).op = w.op /\ Cut(w).cmd = w.cmd
              /\ Cut(w).depth = IF w.depth = k THEN 0 ELSE w.depth
  <2>1. CASE w.depth = k
    <3>1. Cut(w) = [op |-> w.op, cmd |-> w.cmd, depth |-> 0]
      BY <1>13, <2>1 DEF IsRequest
    <3> QED
      BY <2>1, <3>1 DEF IsRequest
  <2>2. CASE w.depth # k
    BY <1>13, <2>2
  <2> QED
    BY <2>1, <2>2
<1> HIDE DEF Cut
<1>14. IsSeq(wire') /\ Len(wire') = m
  BY <1>1, <1>12, SeqMade
<1>15. /\ Wired(wire')
       /\ \A j \in 1 .. m : /\ wire'[j].op = wire[j].op /\ wire'[j].cmd = wire[j].cmd
                           /\ wire'[j].depth = IF wire[j].depth = k THEN 0 ELSE wire[j].depth
  BY <1>1, <1>12, <1>13, <1>14 DEF Wired
<1>16. Linked(wire', stack')
  <2> SUFFICES ASSUME NEW i \in 1 .. m, wire'[i].depth # 0
               PROVE  LET d == wire'[i].depth IN
                      /\ d \in 1 .. n /\ Open(stack'[d])
                      /\ stack'[d].op = wire'[i].op /\ stack'[d].cmd = wire'[i].cmd
                      /\ \A j \in 1 .. m : wire'[j].depth = d => j = i
    BY <1>5, <1>12 DEF Linked
  <2>2. wire'[i].depth = wire[i].depth /\ wire[i].depth # k /\ wire[i].depth # 0
    BY <1>15
  <2>3. LET d == wire[i].depth IN
        /\ d \in 1 .. n /\ Open(stack[d])
        /\ stack[d].op = wire[i].op /\ stack[d].cmd = wire[i].cmd
        /\ \A j \in 1 .. m : wire[j].depth = d => j = i
    BY <1>1, <2>2 DEF Fits, Linked
  <2> QED
    BY <1>7, <1>15, <2>2, <2>3 DEF Open
<1> QED
  BY <1>1, <1>2, <1>5, <1>6, <1>8, <1>10, <1>12, <1>15, <1>16 DEF Fits, Open

\* The connection goes: whatever waits has failed.
LEMMA LoseFits ==
  ASSUME Fits(wire, stack), Lose
  PROVE  /\ Fits(wire', stack') /\ Len(stack') = Len(stack) /\ DOMAIN stack' = DOMAIN stack
         /\ wire' = <<>> /\ DOMAIN wire' = {}
         /\ \A i \in DOMAIN stack' : ~ Open(stack'[i])
         /\ Calm(0, stack, stack') /\ 0 \notin DOMAIN stack
<1> DEFINE n == Len(stack)
<1>1. /\ n \in Nat /\ DOMAIN stack = 1 .. n
      /\ \A i \in 1 .. n : IsFrame(stack[i])
  BY SeqShape DEF Fits, Stacked
<1>2. /\ stack' = [i \in 1 .. n |-> IF stack[i].got = None
                                   THEN [stack[i] EXCEPT !.got = Failed] ELSE stack[i]]
      /\ wire' = <<>>
  BY <1>1 DEF Lose
<1>3. DOMAIN stack' = 1 .. n /\ stack' \in [1 .. n -> ToSet(stack')]
  BY <1>2 DEF ToSet
<1>4. ASSUME NEW i \in 1 .. n
      PROVE  IsFrame(stack'[i]) /\ ~ Open(stack'[i]) /\ Same(stack[i], stack'[i])
  <2>1. CASE stack[i].got = None
    <3>1. stack'[i] = Given(stack[i], Failed)
      BY <1>1, <1>2, <2>1, GivenIs
    <3> QED
      BY <1>1, <2>1, <3>1, GivenIs, Outcomes DEF Same, Open
  <2>2. CASE stack[i].got # None
    BY <1>1, <1>2, <2>2, SameItself DEF Open
  <2> QED
    BY <2>1, <2>2
<1>5. IsSeq(stack') /\ Len(stack') = n
  BY <1>1, <1>3, SeqMade
<1>6. Stacked(stack') /\ Calm(0, stack, stack')
  BY <1>1, <1>3, <1>4, <1>5 DEF Stacked, Calm
<1>7. Wired(wire') /\ Linked(wire', stack') /\ DOMAIN wire' = {}
  BY <1>2 DEF Wired, Linked, IsSeq, ToSet
<1> QED
  BY <1>1, <1>2, <1>3, <1>4, <1>5, <1>6, <1>7 DEF Fits

-----------------------------------------------------------------------------
(* What the server lists, and the wishlist in it.                          *)

Before(all, mine, s) == {t \in mine : Precedes(all, t, s)}

\* Every shelf of a user has a place of its own among theirs.
LEMMA PlacedIs ==
  ASSUME NEW all \in Seq(Row), NEW u
  PROVE  LET mine == Mine(all, u) IN
         /\ IsFiniteSet(mine) /\ Cardinality(mine) \in Nat /\ mine \subseteq DOMAIN all
         /\ \A i \in 1 .. Cardinality(mine) :
              /\ Placed(all, mine, i) \in mine
              /\ Cardinality(Before(all, mine, Placed(all, mine, i))) = i - 1
         /\ \A s \in mine : \E i \in 1 .. Cardinality(mine) : Placed(all, mine, i) = s
         /\ \A s, t \in mine :
              Cardinality(Before(all, mine, s)) = Cardinality(Before(all, mine, t)) => s = t
<1> DEFINE mine == Mine(all, u)
           D == DOMAIN all
           R == {p \in D \X D : Precedes(all, p[1], p[2])}
<1>1. /\ Len(all) \in Nat /\ D = 1 .. Len(all)
      /\ \A s \in D : s \in Nat /\ all[s].sort \in Int /\ all[s].name \in Nat
  <2>1. Len(all) \in Nat /\ D = 1 .. Len(all)
    BY LenProperties
  <2>2. \A s \in D : all[s] \in Row
    BY <2>1, ElementOfSeq
  <2> QED
    BY <2>1, <2>2 DEF Row
<1>2. mine \in SUBSET D
  BY DEF Mine
<1>3. IsFiniteSet(mine)
  <2>1. IsFiniteSet(D)
    BY <1>1, FS_Interval
  <2> HIDE DEF mine, D
  <2> QED
    BY <1>2, <2>1, FS_Subset
<1>4. \A s, t \in D : <<s, t>> \in R <=> Precedes(all, s, t)
  OBVIOUS
<1> HIDE DEF R, D, mine
<1>5. Orders(R, mine)
  <2>1. \A s, t \in D : s # t => Precedes(all, s, t) \/ Precedes(all, t, s)
    BY <1>1 DEF Precedes
  <2>2. \A s \in D : ~ Precedes(all, s, s)
    BY <1>1 DEF Precedes
  <2>3. \A s, t, v \in D : Precedes(all, s, t) /\ Precedes(all, t, v) => Precedes(all, s, v)
    BY <1>1 DEF Precedes
  <2> QED
    BY <1>2, <1>4, <2>1, <2>2, <2>3 DEF Orders
<1>6. ASSUME NEW x \in mine PROVE Before(all, mine, x) = Below(mine, R, x)
  BY <1>2, <1>4 DEF Below, Before
<1>7. /\ \A k \in 1 .. Cardinality(mine) :
           \E x \in mine : Cardinality(Before(all, mine, x)) = k - 1
      /\ \A x \in mine :
           \E k \in 1 .. Cardinality(mine) : Cardinality(Before(all, mine, x)) = k - 1
      /\ \A x, y \in mine :
           Cardinality(Before(all, mine, x)) = Cardinality(Before(all, mine, y)) => x = y
  BY <1>3, <1>5, <1>6, Ranked
<1>8. ASSUME NEW k \in 1 .. Cardinality(mine)
      PROVE  /\ Placed(all, mine, k) \in mine
             /\ Cardinality(Before(all, mine, Placed(all, mine, k))) = k - 1
  <2>1. \E x \in mine : Cardinality({t \in mine : Precedes(all, t, x)}) = k - 1
    BY <1>7 DEF Before
  <2> QED
    BY <2>1 DEF Placed, Before
<1>9. Cardinality(mine) \in Nat
  BY <1>3, FS_CardinalityType
<1>10. ASSUME NEW s \in mine PROVE \E i \in 1 .. Cardinality(mine) : Placed(all, mine, i) = s
  <2>1. PICK k \in 1 .. Cardinality(mine) : Cardinality(Before(all, mine, s)) = k - 1
    BY <1>7
  <2> QED
    BY <1>7, <1>8, <2>1
<1> QED
  BY <1>2, <1>3, <1>7, <1>8, <1>9, <1>10 DEF mine, D

\* The list the server returns holds the shelves of the user, each once.
LEMMA ListingIs ==
  ASSUME NEW all \in Seq(Row), NEW u
  PROVE  LET mine == Mine(all, u)
             l == Listing(all, u)
         IN /\ IsSeq(l) /\ DOMAIN l = 1 .. Cardinality(mine) /\ Cardinality(mine) \in Nat
            /\ \A i \in DOMAIN l : /\ l[i].id = Placed(all, mine, i) /\ l[i].id \in mine
                                   /\ l[i] = ListedShelf(all, l[i].id)
                                   /\ l[i].name = all[l[i].id].name
                                   /\ l[i].books = all[l[i].id].books
            /\ \A s \in mine : \E i \in DOMAIN l : l[i].id = s
            /\ mine # {} => l # <<>>
<1> DEFINE mine == Mine(all, u)
           l == Listing(all, u)
           n == Cardinality(mine)
<1>1. /\ IsFiniteSet(mine) /\ n \in Nat
      /\ \A i \in 1 .. n : Placed(all, mine, i) \in mine
      /\ \A s \in mine : \E i \in 1 .. n : Placed(all, mine, i) = s
  BY PlacedIs
<1>2. l = [i \in 1 .. n |-> ListedShelf(all, Placed(all, mine, i))]
  BY DEF Listing
<1> HIDE DEF l, mine
<1>3. /\ DOMAIN l = 1 .. n /\ l \in [1 .. n -> ToSet(l)]
      /\ \A i \in 1 .. n : l[i] = ListedShelf(all, Placed(all, mine, i))
  BY <1>2 DEF ToSet
<1>4. IsSeq(l) /\ Len(l) = n
  BY <1>1, <1>3, SeqMade
<1>5. \A i \in 1 .. n : /\ l[i].id = Placed(all, mine, i) /\ l[i].id \in mine
                        /\ l[i] = ListedShelf(all, l[i].id)
                        /\ l[i].name = all[l[i].id].name /\ l[i].books = all[l[i].id].books
  BY <1>1, <1>3 DEF ListedShelf
<1>6. mine # {} => l # <<>>
  BY <1>1, <1>3
<1> QED
  BY <1>1, <1>3, <1>4, <1>5, <1>6 DEF l, mine

\* The wishlist is the first shelf of that name in the list.
LEMMA WishIs ==
  ASSUME NEW list, IsSeq(list)
  PROVE  \/ WishPlace(list) = 0 /\ \A i \in DOMAIN list : list[i].name # Wishlist
         \/ /\ WishPlace(list) \in DOMAIN list /\ WishPlace(list) # 0
            /\ list[WishPlace(list)].name = Wishlist
            /\ \A i \in DOMAIN list : list[i].name = Wishlist => WishPlace(list) <= i
<1> DEFINE I == {i \in 1 .. Len(list) : list[i].name = Wishlist}
<1>1. Len(list) \in Nat /\ DOMAIN list = 1 .. Len(list)
  BY SeqShape
<1>2. WishPlace(list) = IF I # {} THEN Min(I) ELSE 0
  BY DEF WishPlace, SelectInSeq
<1>3. I \in SUBSET Nat
  BY <1>1
<1>4. CASE I = {}
  BY <1>1, <1>2, <1>4
<1>5. CASE I # {}
  <2>1. Min(I) \in I /\ \A i \in I : Min(I) <= i
    BY <1>3, <1>5, LeastOf
  <2>2. WishPlace(list) = Min(I)
    BY <1>2, <1>5
  <2> QED
    BY <1>1, <2>1, <2>2
<1> QED
  BY <1>4, <1>5

LEMMA WishSame ==
  ASSUME NEW k, NEW l, IsSeq(k), IsSeq(l), DOMAIN k = DOMAIN l,
         \A i \in DOMAIN k : k[i].name = l[i].name
  PROVE  WishPlace(k) = WishPlace(l)
<1>1. DOMAIN k \subseteq Nat
  BY SeqShape
<1> QED
  BY <1>1, WishIs

\* The books of one shelf change.
Restocks(all, s, X, new) == new = [all EXCEPT ![s].books = X]

BooksOnly(all, s, X, new) ==
  \A t \in DOMAIN all :
    /\ new[t].owner = all[t].owner /\ new[t].name = all[t].name
    /\ new[t].sort = all[t].sort /\ new[t].live = all[t].live
    /\ new[t].books = IF t = s THEN X ELSE all[t].books

LEMMA Restocked ==
  ASSUME NEW all \in Seq(Row), NEW s \in DOMAIN all, NEW X \in SUBSET Books,
         NEW new, Restocks(all, s, X, new)
  PROVE  /\ new \in Seq(Row) /\ Len(new) = Len(all) /\ DOMAIN new = DOMAIN all
         /\ BooksOnly(all, s, X, new)
<1> USE DEF Restocks, BooksOnly
<1>1. /\ Len(all) \in Nat /\ DOMAIN all = 1 .. Len(all)
      /\ \A t \in DOMAIN all : all[t] \in Row
  BY LenProperties, ElementOfSeq
<1>2. DOMAIN new = DOMAIN all
  OBVIOUS
<1>3. /\ \A t \in DOMAIN all : t # s => new[t] = all[t]
      /\ new[s] = [all[s] EXCEPT !.books = X]
  BY <1>1
<1>4. \A t \in DOMAIN all :
        /\ new[t] \in Row
        /\ new[t].owner = all[t].owner /\ new[t].name = all[t].name
        /\ new[t].sort = all[t].sort /\ new[t].live = all[t].live
        /\ new[t].books = IF t = s THEN X ELSE all[t].books
  BY <1>1, <1>3 DEF Row
<1> HIDE DEF Row
<1>5. new \in [1 .. Len(all) -> Row]
  <2>1. \A t \in 1 .. Len(all) : new[t] \in Row
    BY <1>1, <1>4
  <2>2. new = [t \in 1 .. Len(all) |-> new[t]]
    BY <1>1
  <2> QED
    BY <2>1, <2>2
<1>6. new \in Seq(Row) /\ Len(new) = Len(all)
  <2>1. new \in Seq(Row)
    BY <1>1, <1>5, SeqDef
  <2>2. DOMAIN new = 1 .. Len(new) /\ Len(new) \in Nat
    BY <2>1, LenProperties
  <2> QED
    BY <1>1, <1>2, <2>1, <2>2
<1> QED
  BY <1>2, <1>4, <1>6

WishedBut(all, s, X, u, new) ==
  \/ WishBooks(Listing(new, u)) = WishBooks(Listing(all, u))
  \/ /\ WishBooks(Listing(new, u)) = X
     /\ WishBooks(Listing(all, u)) = all[s].books

\* That leaves the list as it is but for them.
LEMMA RestockedList ==
  ASSUME NEW all \in Seq(Row), NEW s \in DOMAIN all, NEW X, NEW u,
         NEW new \in Seq(Row), DOMAIN new = DOMAIN all,
         BooksOnly(all, s, X, new)
  PROVE  WishedBut(all, s, X, u, new)
<1> USE DEF BooksOnly, WishedBut
<1> DEFINE mine == Mine(all, u)
<1>7. Mine(new, u) = mine
  BY DEF Mine
<1>8. \A t, v \in DOMAIN all : Precedes(new, t, v) <=> Precedes(all, t, v)
  BY DEF Precedes
<1>9. mine \subseteq DOMAIN all
  BY DEF Mine
<1>10. \A t \in mine : Before(new, mine, t) = Before(all, mine, t)
  BY <1>8, <1>9 DEF Before
<1> DEFINE n == Cardinality(mine)
<1> HIDE DEF mine
<1>11. \A i \in 1 .. n : Placed(new, mine, i) = Placed(all, mine, i)
  <2>1. /\ \A i \in 1 .. n : /\ Placed(all, mine, i) \in mine
                            /\ Cardinality(Before(all, mine, Placed(all, mine, i))) = i - 1
        /\ \A t, v \in mine :
             Cardinality(Before(all, mine, t)) = Cardinality(Before(all, mine, v)) => t = v
    BY PlacedIs DEF mine
  <2>2. \A i \in 1 .. n : /\ Placed(new, mine, i) \in mine
                          /\ Cardinality(Before(new, mine, Placed(new, mine, i))) = i - 1
    <3>1. LET m == Mine(new, u) IN
          \A i \in 1 .. Cardinality(m) :
            /\ Placed(new, m, i) \in m
            /\ Cardinality(Before(new, m, Placed(new, m, i))) = i - 1
      BY PlacedIs
    <3> QED
      BY <1>7, <3>1
  <2> SUFFICES ASSUME NEW i \in 1 .. n PROVE Placed(new, mine, i) = Placed(all, mine, i)
    OBVIOUS
  <2>3. PICK x \in mine : x = Placed(new, mine, i) /\ Cardinality(Before(new, mine, x)) = i - 1
    BY <2>2
  <2>4. PICK y \in mine : y = Placed(all, mine, i) /\ Cardinality(Before(all, mine, y)) = i - 1
    BY <2>1
  <2>5. Cardinality(Before(all, mine, x)) = Cardinality(Before(all, mine, y))
    BY <1>10, <2>3, <2>4
  <2>6. x = y
    BY <2>1, <2>5
  <2> QED
    BY <2>3, <2>4, <2>6
<1> DEFINE k == Listing(all, u)
           l == Listing(new, u)
<1>12. /\ IsSeq(k) /\ DOMAIN k = 1 .. n
       /\ \A i \in DOMAIN k : /\ k[i].id = Placed(all, mine, i) /\ k[i].id \in mine
                              /\ k[i].name = all[k[i].id].name
                              /\ k[i].books = all[k[i].id].books
  BY ListingIs DEF mine
<1>13. /\ IsSeq(l) /\ DOMAIN l = 1 .. n
       /\ \A i \in DOMAIN l : /\ l[i].id = Placed(new, mine, i) /\ l[i].id \in mine
                              /\ l[i].name = new[l[i].id].name
                              /\ l[i].books = new[l[i].id].books
  <2>1. LET m == Mine(new, u) IN
        /\ IsSeq(l) /\ DOMAIN l = 1 .. Cardinality(m)
        /\ \A i \in DOMAIN l : /\ l[i].id = Placed(new, m, i) /\ l[i].id \in m
                               /\ l[i].name = new[l[i].id].name
                               /\ l[i].books = new[l[i].id].books
    BY ListingIs
  <2> QED
    BY <1>7, <2>1
<1> HIDE DEF k, l, n
<1>14. \A i \in DOMAIN k : /\ l[i].id = k[i].id /\ l[i].name = k[i].name
                           /\ \/ l[i].books = k[i].books
                              \/ l[i].books = X /\ k[i].books = all[s].books
  <2> SUFFICES ASSUME NEW i \in DOMAIN k
               PROVE  /\ l[i].id = k[i].id /\ l[i].name = k[i].name
                      /\ \/ l[i].books = k[i].books
                         \/ l[i].books = X /\ k[i].books = all[s].books
    OBVIOUS
  <2>1. i \in 1 .. n /\ i \in DOMAIN l
    BY <1>12, <1>13
  <2>5. k[i].id = l[i].id /\ k[i].id \in mine
    BY <1>11, <1>12, <1>13, <2>1
  <2>2. PICK t \in mine : t = k[i].id /\ t = l[i].id
    BY <2>5
  <2>3. /\ k[i].name = all[t].name /\ k[i].books = all[t].books
        /\ l[i].name = new[t].name /\ l[i].books = new[t].books
    BY <1>12, <1>13, <2>1, <2>2
  <2>4. t \in DOMAIN all
    BY <1>9
  <2> QED
    BY <2>2, <2>3, <2>4
<1>15. WishPlace(l) = WishPlace(k)
  BY <1>12, <1>13, <1>14, WishSame
<1>16. WishPlace(k) = 0 \/ WishPlace(k) \in DOMAIN k
  BY <1>12, WishIs
<1>17. WishBooks(l) = WishBooks(k) \/ (WishBooks(l) = X /\ WishBooks(k) = all[s].books)
  BY <1>14, <1>15, <1>16 DEF WishBooks
<1> QED
  BY <1>7, <1>17 DEF k, l, mine

-----------------------------------------------------------------------------
(* What does not concern a part of the invariant leaves it as it is.       *)

\* Shelves are added and never change hands.
Grows ==
  /\ shelves' \in Seq(Row) /\ DOMAIN shelves \subseteq DOMAIN shelves'
  /\ \A s \in DOMAIN shelves : shelves'[s].owner = shelves[s].owner

WorldSame == UNCHANGED <<shelves, owned, cart>>

LEMMA GrowsKeeps ==
  ASSUME Grows
  PROVE  /\ \A op, c : Asks(op, c) => Asks(op, c)'
         /\ \A op, s : AsksAll(op, s) => AsksAll(op, s)'
         /\ \A op, c, more : Asks(op, c) /\ Follows(op, c, more) => Follows(op, c, more)'
         /\ \A l : IsListing(l) => IsListing(l)'
         /\ \A c, r : Told(c, r) => Told(c, r)'
<1>1. \A op, c : Asks(op, c) => Asks(op, c)'
  BY DEF Grows, Asks
<1>2. \A op, s : AsksAll(op, s) => AsksAll(op, s)'
  BY <1>1 DEF AsksAll
<1>3. ASSUME NEW op, NEW c, NEW more, Asks(op, c), Follows(op, c, more)
      PROVE  Follows(op, c, more)'
  <2>1. op = "move" /\ c.do = "drop" => c.shelf \in DOMAIN shelves
    BY <1>3 DEF Asks, OnShelf
  <2>2. ASSUME NEW t \in DOMAIN shelves, NEW s \in DOMAIN shelves, OwnerOf(t) = OwnerOf(s)
        PROVE  t \in DOMAIN shelves' /\ OwnerOf(t)' = OwnerOf(s)'
    BY <2>2 DEF Grows, OwnerOf
  <2>3. op = "move" /\ c.do = "drop" =>
          \E t \in DOMAIN shelves' : /\ OwnerOf(t)' = OwnerOf(c.shelf)'
                                     /\ more = <<[do |-> "add", shelf |-> t, book |-> c.book]>>
    BY <1>3, <2>1, <2>2 DEF Follows
  <2>4. PICK s : s = c.shelf
    OBVIOUS
  <2> QED
    BY <1>2, <1>3, <2>3, <2>4 DEF Follows
<1>4. ASSUME NEW l, IsListing(l) PROVE IsListing(l)'
  <2>1. \A i \in DOMAIN l : IsListed(l[i])'
    BY <1>4 DEF Grows, IsListing, IsListed
  <2>2. \A i, j \in DOMAIN l : OwnerOf(l[i].id)' = OwnerOf(l[j].id)'
    BY <1>4 DEF Grows, IsListing, IsListed, OwnerOf
  <2> QED
    BY <1>4, <2>1, <2>2 DEF IsListing
<1>5. \A c, r : Told(c, r) => Told(c, r)'
  BY <1>4 DEF Told
<1> QED
  BY <1>1, <1>2, <1>3, <1>4, <1>5

LEMMA GrowsSame ==
  ASSUME ServerInv, shelves' = shelves PROVE Grows
  BY DEF Grows, ServerInv

LEMMA SoundKept ==
  ASSUME Grows, who' = who, NEW e, NEW f, Sound(e), Same(e, f),
         WorldSame \/ f.old \/ Open(f) \/ f.got = Failed
  PROVE  Sound(f)'
<1>1. f.op = e.op /\ f.cmd = e.cmd /\ f.more = e.more /\ (e.old => f.old)
  BY DEF Same
<1>2. Asks(f.op, f.cmd) /\ Follows(f.op, f.cmd, f.more)
  BY <1>1 DEF Sound
<1>3. Told(f.cmd, f.got)
  <2>1. CASE f.got = e.got
    BY <1>1, <2>1 DEF Sound
  <2>2. CASE f.got = Failed
    BY <2>2, Outcomes DEF Told
  <2> QED
    BY <2>1, <2>2 DEF Same
<1>4. (f.old \/ Current(f.cmd, f.got))'
  <2>1. CASE WorldSame /\ f.got = e.got
    <3>1. f.old \/ Current(f.cmd, f.got)
      BY <1>1, <2>1 DEF Sound
    <3> QED
      BY <2>1, <3>1 DEF Current, WorldSame
  <2>2. CASE f.got = Failed \/ Open(f)
    BY <2>2, Outcomes DEF Current, Open
  <2> QED
    BY <2>1, <2>2 DEF Same
<1> QED
  BY <1>2, <1>3, <1>4, GrowsKeeps DEF Sound

LEMMA WaitsStay ==
  ASSUME WaitsInv, Grows, who' = who, Fits(wire', stack'), Len(stack') <= MaxDepth,
         NEW k, Calm(k, stack, stack'), k \in DOMAIN stack' => Sound(stack[k])',
         WorldSame \/ \A i \in DOMAIN stack : i # k /\ ~ Open(stack[i]) => stack'[i].old,
         \A i \in DOMAIN wire' : Asks(wire[i].op, wire[i].cmd)',
         who # Nobody \/ (stack' = <<>> /\ wire' = <<>>)
  PROVE  WaitsInv'
<1>1. ASSUME NEW i \in DOMAIN stack', i # k PROVE Sound(stack[i])'
  <2>1. i \in DOMAIN stack /\ Same(stack[i], stack'[i]) /\ Sound(stack[i])
    BY <1>1 DEF Calm, WaitsInv
  <2>2. WorldSame \/ stack'[i].old \/ Open(stack'[i]) \/ stack'[i].got = Failed
    BY <1>1, <2>1 DEF Same, Open
  <2>3. PICK e, f : e = stack[i] /\ f = stack'[i]
    OBVIOUS
  <2>4. Sound(f)'
    BY <2>1, <2>2, <2>3, SoundKept
  <2> QED
    BY <2>3, <2>4
<1> QED
  BY <1>1 DEF WaitsInv

LEMMA ShelvesStay ==
  ASSUME ShelvesInv, shelves' = shelves, who' = who, (skewed => skewed'),
         lib' = lib \/ ~ lib'.any, NEW k, Calm(k, stack, stack'),
         k \in DOMAIN stack => ~ Refilling(stack[k])
  PROVE  ShelvesInv'
<1>1. ASSUME NEW i \in DOMAIN stack, Refilling(stack[i])
      PROVE  i \in DOMAIN stack' /\ Refilling(stack'[i])
  BY <1>1, SameGood DEF Calm, Same, Refilling
<1> QED
  BY <1>1 DEF ShelvesInv, Refilling, Good

LEMMA PurchasesStay ==
  ASSUME PurchasesInv, owned' = owned, who' = who, (behind => behind'),
         lib' = lib \/ ~ lib'.any
  PROVE  PurchasesInv'
  BY DEF PurchasesInv

LEMMA BasketStay ==
  ASSUME BasketInv, cart' = cart, who' = who, (misfilled => misfilled'),
         basket' = basket \/ ~ basket'.any, NEW k, Calm(k, stack, stack'),
         k \in DOMAIN stack /\ Filling(stack[k]) => k \in DOMAIN stack' /\ Filling(stack'[k])
  PROVE  BasketInv'
<1>1. ASSUME NEW i \in DOMAIN stack, Filling(stack[i])
      PROVE  i \in DOMAIN stack' /\ Filling(stack'[i])
  BY <1>1, SameGood DEF Calm, Same, Filling
<1> QED
  BY <1>1 DEF BasketInv, Filling, Good

LEMMA HeartsStay ==
  ASSUME HeartsInv, shelves' = shelves, who' = who, (drifted => drifted'),
         hearts' = hearts \/ hearts' = {}, NEW k, Calm(k, stack, stack'),
         k \in DOMAIN stack => ~ Lands(stack[k])
  PROVE  HeartsInv'
<1>1. Wished(shelves)' = Wished(shelves)
  BY DEF Wished, Listing, Mine
<1>2. ASSUME hearts' = hearts, NEW i \in DOMAIN stack, Lands(stack[i])
      PROVE  i \in DOMAIN stack' /\ Lands(stack[i])'
  <2>1. /\ i \in DOMAIN stack' /\ Same(stack[i], stack'[i])
        /\ stack'[i].got = stack[i].got /\ Good(stack'[i])
    BY <1>2, SameGood DEF Calm, Lands
  <2> QED
    BY <1>1, <1>2, <2>1 DEF Lands, Same, Visible, Good
<1>3. CASE hearts' = {}
  BY <1>3 DEF HeartsInv
<1>4. CASE hearts' = hearts
  <2>1. CASE \E i \in DOMAIN stack : Lands(stack[i])
    <3>1. PICK i \in DOMAIN stack : Lands(stack[i])
      BY <2>1
    <3>2. i \in DOMAIN stack' /\ Lands(stack[i])'
      BY <1>2, <1>4, <3>1
    <3> QED
      BY <3>2 DEF HeartsInv
  <2>2. CASE who = Nobody \/ hearts = {} \/ drifted \/ hearts = Wished(shelves)
    BY <1>1, <1>4, <2>2 DEF HeartsInv
  <2> QED
    BY <2>1, <2>2 DEF HeartsInv
<1> QED
  BY <1>3, <1>4

LEMMA LoadingIs == Loading <=> \E i \in DOMAIN stack : OfPage(stack[i])
  BY DEF Loading, OfPage

LEMMA PageStay ==
  ASSUME PageInv, who' = who, UNCHANGED <<page, meant, crossed>>,
         reviews' = reviews \/ (PageFits => reviews' \subseteq meant), NEW k, Calm(k, stack, stack'),
         k \in DOMAIN stack => ~ OfPage(stack[k]) \/ (k \in DOMAIN stack' /\
           stack'[k].op = stack[k].op /\ stack'[k].cmd = stack[k].cmd
           /\ stack'[k].more = stack[k].more),
         k \in DOMAIN stack' /\ k \notin DOMAIN stack => ~ OfPage(stack'[k]),
         k \in DOMAIN stack /\ k \in DOMAIN stack' => stack'[k].op = stack[k].op,
         \A i \in DOMAIN wire' :
           wire'[i].cmd.do = "review" => \E j \in DOMAIN wire : wire'[i].cmd = wire[j].cmd
  PROVE  PageInv'
<1>1. ASSUME NEW i \in DOMAIN stack, OfPage(stack[i])
      PROVE  /\ i \in DOMAIN stack' /\ stack'[i].op = stack[i].op
             /\ stack'[i].cmd = stack[i].cmd /\ stack'[i].more = stack[i].more
  BY <1>1 DEF Calm, Same
<1>2. ASSUME NEW i \in DOMAIN stack', OfPage(stack'[i])
      PROVE  i \in DOMAIN stack /\ OfPage(stack[i])
  BY <1>2 DEF Calm, Same, OfPage
<1>3. Loading' <=> Loading
  <2>1. Loading' <=> \E i \in DOMAIN stack' : OfPage(stack'[i])
    BY DEF Loading, OfPage
  <2> QED
    BY <1>1, <1>2, <2>1, LoadingIs DEF OfPage
<1>4. PageFits => PageFits'
  <2> SUFFICES ASSUME PageFits PROVE PageFits'
    OBVIOUS
  <2>1. \A i \in DOMAIN stack' : OfPage(stack'[i]) =>
          /\ page'.busy /\ stack'[i].cmd.book = page'.id
          /\ \A j \in DOMAIN stack' : OfPage(stack'[j]) => i = j
          /\ stack'[i].op = "page" /\ stack'[i].more = <<>> => page'.book \in {page'.id, NoBook}
          /\ stack'[i].op = "review" => Settled(page')
    BY <1>1, <1>2 DEF PageFits
  <2>2. \A i \in DOMAIN wire' :
          wire'[i].cmd.do = "review" => <<who', wire'[i].cmd.book>> \in meant'
    BY DEF PageFits
  <2> QED
    BY <1>3, <2>1, <2>2 DEF PageFits, OfPage, Settled
<1> QED
  BY <1>3, <1>4 DEF PageInv

LEMMA CarriesOn ==
  ASSUME WaitsInv, Grows, who' = who, cartRow \subseteq cartRow',
         NEW i \in DOMAIN stack, i \in DOMAIN stack', Same(stack[i], stack'[i])
  PROVE  /\ \A b, u : CarriesHome(stack[i], b, u) => CarriesHome(stack[i], b, u)'
         /\ \A b : CarriesBack(stack[i], b) => CarriesBack(stack[i], b)'
<1>1. /\ stack'[i].op = stack[i].op /\ stack'[i].cmd = stack[i].cmd
      /\ (Good(stack'[i]) <=> Good(stack[i]))
  BY SameGood DEF Same
<1>2. \A b : CarriesBack(stack[i], b) => CarriesBack(stack[i], b)'
  BY <1>1 DEF CarriesBack, Good
<1>3. stack[i].op = "move" => stack[i].cmd.shelf \in DOMAIN shelves
  BY DEF WaitsInv, Sound, Asks, Sends, OnShelf
<1>4. \A b, u : CarriesHome(stack[i], b, u) => CarriesHome(stack[i], b, u)'
  BY <1>1, <1>3 DEF CarriesHome, Good, Grows, OwnerOf
<1> QED
  BY <1>2, <1>4

\* A book a user has, and not on a shelf, they have after the step, if what held it
\* is the k-th command, the cart or a purchase and lets go of it.
Held(b, u) ==
  \/ BoughtOrLost(b, u)
  \/ \E i \in DOMAIN stack : CarriesHome(stack[i], b, u)
  \/ u = who /\ Carried(b)

LEMMA HeldStill ==
  ASSUME WaitsInv, Grows, who' = who, NEW k, Calm(k, stack, stack'),
         cartRow \subseteq cartRow', torn \subseteq torn', NEW u, NEW b, Held(b, u),
         b \in cart[u] \cup owned[u] => Has(b, u)',
         k \in DOMAIN stack /\ (CarriesHome(stack[k], b, u) \/ (u = who /\ CarriesBack(stack[k], b)))
           => Has(b, u)'
  PROVE  Has(b, u)'
<1>1. CASE BoughtOrLost(b, u)
  BY <1>1 DEF Has, BoughtOrLost
<1>2. CASE \E i \in DOMAIN stack : CarriesHome(stack[i], b, u)
  <2>1. PICK i \in DOMAIN stack : CarriesHome(stack[i], b, u)
    BY <1>2
  <2>2. CASE i = k
    BY <2>1, <2>2
  <2>3. CASE i # k
    <3>1. i \in DOMAIN stack' /\ CarriesHome(stack[i], b, u)'
      BY <2>1, <2>3, CarriesOn DEF Calm
    <3> QED
      BY <3>1 DEF Has
  <2> QED
    BY <2>2, <2>3
<1>3. CASE u = who /\ Carried(b)
  <2>1. PICK i \in DOMAIN stack : CarriesBack(stack[i], b)
    BY <1>3 DEF Carried
  <2>2. CASE i = k
    BY <1>3, <2>1, <2>2
  <2>3. CASE i # k
    <3>1. i \in DOMAIN stack' /\ CarriesBack(stack[i], b)'
      BY <2>1, <2>3, CarriesOn DEF Calm
    <3> QED
      BY <1>3, <3>1 DEF Has, Carried
  <2> QED
    BY <2>2, <2>3
<1> QED
  BY <1>1, <1>2, <1>3 DEF Held

LEMMA HasHeld ==
  ASSUME NEW b, NEW u, Has(b, u)
  PROVE  b \in OnShelves(shelves, u) \/ Held(b, u)
  BY DEF Has, Held

LEMMA HasStill ==
  ASSUME WaitsInv, Grows, who' = who, NEW k, Calm(k, stack, stack'),
         cartRow \subseteq cartRow', torn \subseteq torn', NEW u, NEW b, Has(b, u),
         b \in OnShelves(shelves, u) \cup cart[u] \cup owned[u] => Has(b, u)',
         k \in DOMAIN stack /\ (CarriesHome(stack[k], b, u) \/ (u = who /\ CarriesBack(stack[k], b)))
           => Has(b, u)'
  PROVE  Has(b, u)'
  BY HasHeld, HeldStill

LEMMA KeptStay ==
  ASSUME WaitsInv, Grows, who' = who, KeptInv, NEW k, Calm(k, stack, stack'),
         cartRow \subseteq cartRow', torn \subseteq torn',
         \A u \in Users : /\ OnShelves(shelves, u) \subseteq OnShelves(shelves', u)
                          /\ cart[u] \cup owned[u] \subseteq cart'[u] \cup owned'[u]
                          /\ kept'[u] \subseteq kept[u] \cup OnShelves(shelves', u),
         k \in DOMAIN stack => \A u \in Users : \A b :
           CarriesHome(stack[k], b, u) \/ (u = who /\ CarriesBack(stack[k], b)) =>
             Has(b, u)'
  PROVE  KeptInv'
<1> SUFFICES ASSUME NEW u \in Users, NEW b \in kept'[u] PROVE Has(b, u)'
  BY DEF KeptInv
<1>1. CASE b \in OnShelves(shelves', u)
  BY <1>1 DEF Has, OnShelves, Mine
<1>2. CASE b \in kept[u]
  <2>1. Has(b, u)
    BY <1>2 DEF KeptInv
  <2>2. b \in OnShelves(shelves, u) \cup cart[u] \cup owned[u] => Has(b, u)'
    <3>1. OnShelves(shelves, u)' = OnShelves(shelves', u)
      BY DEF OnShelves, Mine
    <3> QED
      BY <3>1 DEF Has, BoughtOrLost
  <2> QED
    BY <2>1, <2>2, HasStill
<1> QED
  BY <1>1, <1>2

LEMMA PastCartStay ==
  ASSUME WaitsInv, Grows, who' = who, PastCartInv, NEW k, Calm(k, stack, stack'),
         cartRow \subseteq cartRow', torn \subseteq torn', who \in Users,
         \A b \in Moving \cap (cart[who] \cup owned[who]) : BoughtOrLost(b, who)' \/ Carried(b)',
         k \in DOMAIN stack => \A b : CarriesBack(stack[k], b) =>
           BoughtOrLost(b, who)' \/ Carried(b)',
         k \in DOMAIN stack' /\ PastCart(stack'[k]) =>
           \/ k \in DOMAIN stack /\ PastCart(stack[k]) /\ stack[k].cmd.book = stack'[k].cmd.book
           \/ \E b : b = stack'[k].cmd.book /\ (BoughtOrLost(b, who)' \/ Carried(b)')
  PROVE  PastCartInv'
<1>1. ASSUME NEW i \in DOMAIN stack, PastCart(stack[i])
      PROVE  \E b : b = stack[i].cmd.book /\ (BoughtOrLost(b, who)' \/ Carried(b)')
  <2>1. PICK b : b = stack[i].cmd.book
    OBVIOUS
  <2>2. b \in Moving /\ (BoughtOrLost(b, who) \/ Carried(b))
    BY <1>1, <2>1 DEF Moving, PastCart, PastCartInv
  <2>3. BoughtOrLost(b, who)' \/ Carried(b)'
    <3>1. CASE BoughtOrLost(b, who)
      BY <2>2, <3>1 DEF BoughtOrLost
    <3>2. CASE Carried(b)
      <4>1. PICK j \in DOMAIN stack : CarriesBack(stack[j], b)
        BY <3>2 DEF Carried
      <4>2. CASE j = k
        BY <4>1, <4>2
      <4>3. CASE j # k
        <5>1. j \in DOMAIN stack' /\ CarriesBack(stack[j], b)'
          BY <4>1, <4>3, CarriesOn DEF Calm
        <5> QED
          BY <5>1 DEF Carried
      <4> QED
        BY <4>2, <4>3
    <3> QED
      BY <2>2, <3>1, <3>2
  <2> QED
    BY <2>1, <2>3
<1> SUFFICES ASSUME NEW i \in DOMAIN stack', PastCart(stack'[i]), NEW b, b = stack'[i].cmd.book
             PROVE  BoughtOrLost(b, who)' \/ Carried(b)'
  BY DEF PastCartInv, PastCart, Good, BoughtOrLost
<1>2. CASE i = k
  BY <1>1, <1>2
<1>3. CASE i # k
  <2>1. /\ i \in DOMAIN stack /\ Same(stack[i], stack'[i])
        /\ (Good(stack'[i]) => Good(stack[i]) /\ stack[i].got = stack'[i].got)
    BY <1>3, SameGood DEF Calm
  <2>2. PastCart(stack[i]) /\ stack[i].cmd.book = b
    BY <2>1, Outcomes DEF PastCart, Same
  <2> QED
    BY <1>1, <2>1, <2>2
<1> QED
  BY <1>2, <1>3

-----------------------------------------------------------------------------
(* Moves that were given up.                                               *)

LEMMA PutsDownStill ==
  ASSUME WaitsInv, Grows, NEW i \in DOMAIN wire, GivenUp(wire[i]), NEW j \in DOMAIN stack,
         PutsDownAfter(i, j), NEW a \in DOMAIN wire', wire'[a].cmd = wire[i].cmd,
         j \in DOMAIN stack', Same(stack[j], stack'[j]),
         \A k \in DOMAIN wire : k > i /\ wire[k].depth = j =>
           stack'[j].got = Failed \/ \E c \in DOMAIN wire' : c > a /\ wire'[c].depth = j
  PROVE  PutsDownAfter(a, j)'
<1>1. /\ wire[i].cmd.shelf \in DOMAIN shelves
      /\ stack[j].op = "move" => stack[j].cmd.shelf \in DOMAIN shelves
  BY DEF WaitsInv, Sound, Asks, GivenUp, Sends, OnShelf
<1>2. /\ stack'[j].op = stack[j].op /\ stack'[j].cmd = stack[j].cmd
      /\ (stack[j].got = Failed => stack'[j].got = Failed)
      /\ (Open(stack[j]) => Open(stack'[j]) \/ stack'[j].got = Failed)
  BY Outcomes DEF Same, Open
<1>3. /\ stack'[j].op = "move" /\ stack'[j].cmd.book = wire'[a].cmd.book
      /\ shelves'[stack'[j].cmd.shelf].owner = shelves'[wire'[a].cmd.shelf].owner
  BY <1>1, <1>2 DEF PutsDownAfter, Grows, OwnerOf
<1>4. \/ stack'[j].cmd.do = "drop" \/ stack'[j].got = Failed
      \/ stack'[j].got = None /\ \E c \in DOMAIN wire' : c > a /\ wire'[c].depth = j
  BY <1>2 DEF PutsDownAfter, Open
<1> QED
  BY <1>3, <1>4 DEF PutsDownAfter, OwnerOf, Open

-----------------------------------------------------------------------------
(* Commands begin.                                                         *)

LEMMA BasketTypes ==
  /\ Empty.any = FALSE /\ Empty.owned = {} /\ Empty.shelves = <<>>
  /\ NoBasket.any = FALSE /\ NoBasket.items = {}
  BY DEF Empty, NoBasket

LEMMA EmptyFits == IsLib(Empty) /\ IsListing(<<>>)
<1>1. IsListing(<<>>)
  BY DEF IsListing, IsSeq, ToSet
<1> QED
  BY <1>1, BasketTypes DEF IsLib, Empty

LEMMA LibGrows ==
  ASSUME Grows, NEW l, IsLib(l) PROVE IsLib(l)'
  BY GrowsKeeps DEF IsLib

Sent(op, cmd, more) ==
  /\ stack' = Append(stack, New(op, cmd, more))
  /\ wire' = Append(wire, Asking(op, cmd, Len(stack) + 1))

SendKept ==
  /\ UNCHANGED <<shelves, owned, session, who, cart, cartRow, reviews, kept, torn>>
  /\ skewed' = skewed /\ behind' = behind /\ drifted' = drifted /\ (misfilled => misfilled')
  /\ lib' \in {lib, Empty} /\ hearts' \in {hearts, {}} /\ basket' \in {basket, NoBasket}

LEMMA SendFits ==
  ASSUME ShopInv, NEW op, NEW cmd, NEW more, Sent(op, cmd, more)
  PROVE  Pushed(wire, stack, New(op, cmd, more), wire', stack')
<1>1. IsFrame(New(op, cmd, more)) /\ Open(New(op, cmd, more))
  BY NewIs
<1>2. Pushes(wire, stack, New(op, cmd, more), wire', stack')
  BY NewIs DEF Sent, Pushes
<1>3. Fits(wire, stack)
  BY DEF ShopInv, WaitsInv
<1> QED
  BY <1>1, <1>2, <1>3, PushFits

LEMMA SendKeeps ==
  ASSUME ShopInv, who # Nobody, Len(stack) < MaxDepth, NEW op, NEW cmd, NEW more,
         Sent(op, cmd, more), SendKept, Asks(op, cmd), Follows(op, cmd, more),
         op = "toCart" => cmd.do = "put"
  PROVE  /\ WaitsInv' /\ ServerInv' /\ ShelvesInv' /\ PurchasesInv' /\ BasketInv' /\ HeartsInv'
         /\ KeptInv' /\ GivenUpInv' /\ PastCartInv'
         /\ page' = page => ClientInv'
         /\ UNCHANGED pageVars /\ op \notin {"page", "review"} => PageInv'
<1> USE LibraryAssumption DEF ShopInv
<1>0. PICK n, m, k : n = Len(stack) /\ m = Len(wire) /\ k = n + 1
  OBVIOUS
<1>1. /\ Fits(wire', stack') /\ n \in Nat /\ m \in Nat /\ Len(stack') = n + 1
      /\ DOMAIN stack = 1 .. n /\ DOMAIN stack' = 1 .. n + 1
      /\ stack'[n + 1] = New(op, cmd, more)
      /\ \A i \in 1 .. n : stack'[i] = stack[i]
      /\ DOMAIN wire = 1 .. m /\ DOMAIN wire' = 1 .. m + 1
      /\ wire'[m + 1] = Asking(op, cmd, n + 1)
      /\ \A i \in 1 .. m : wire'[i] = wire[i]
      /\ Calm(k, stack, stack')
  BY <1>0, NewIs, SendFits DEF Pushed
<1>2. /\ New(op, cmd, more).op = op /\ New(op, cmd, more).cmd = cmd
      /\ New(op, cmd, more).more = more /\ New(op, cmd, more).got = None
      /\ ~ Good(New(op, cmd, more)) /\ New(op, cmd, more).old = FALSE
  BY NewIs
<1>3. k \notin DOMAIN stack /\ k \in DOMAIN stack'
  BY <1>0, <1>1
<1>4. /\ Asking(op, cmd, n + 1).op = op /\ Asking(op, cmd, n + 1).cmd = cmd
      /\ Asking(op, cmd, n + 1).depth = n + 1
  BY DEF Asking
<1>5. Grows /\ WorldSame
  BY GrowsSame DEF SendKept, WorldSame
<1>6. UNCHANGED <<shelves, owned, session, who, cart, cartRow, reviews, kept, torn>>
  BY DEF SendKept
<1>7. WaitsInv'
  <2>1. Sound(stack[k])'
    <3>1. PICK f : f = stack'[k]
      OBVIOUS
    <3>2. f.op = op /\ f.cmd = cmd /\ f.more = more /\ f.got = None
      BY <1>0, <1>1, <1>2, <3>1
    <3>3. Told(cmd, None) /\ Current(cmd, None)
      BY Outcomes DEF Told, Current
    <3>4. /\ Asks(f.op, f.cmd)' /\ Follows(f.op, f.cmd, f.more)'
          /\ Told(f.cmd, f.got)' /\ Current(f.cmd, f.got)'
      <4>1. Current(f.cmd, f.got)'
        BY <3>2, Outcomes DEF Current
      <4> QED
        BY <1>5, <3>2, <3>3, <4>1, GrowsKeeps
    <3>5. Sound(f)'
      BY <3>4 DEF Sound
    <3> QED
      BY <3>1, <3>5
  <2>2. \A i \in DOMAIN wire' : Asks(wire[i].op, wire[i].cmd)'
    <3>1. \A i \in DOMAIN wire' : Asks(wire'[i].op, wire'[i].cmd)
      BY <1>1, <1>4 DEF WaitsInv
    <3> QED
      BY <1>5, <3>1, GrowsKeeps
  <2>3. Len(stack') <= MaxDepth
    BY <1>0, <1>1
  <2> QED
    BY <1>1, <1>3, <1>5, <1>6, <2>1, <2>2, <2>3, WaitsStay
<1>8. ServerInv'
  BY <1>6 DEF ServerInv, OwnedNotInCart
<1>9. ShelvesInv' /\ PurchasesInv'
  BY <1>1, <1>3, <1>6, ShelvesStay, PurchasesStay, BasketTypes DEF SendKept
<1>10. BasketInv'
  BY <1>1, <1>3, <1>6, BasketStay, BasketTypes DEF SendKept
<1>11. HeartsInv'
  BY <1>1, <1>3, <1>6, HeartsStay DEF SendKept
<1>12. KeptInv'
  BY <1>1, <1>3, <1>5, <1>6, KeptStay
<1>13. who \in Users
  BY DEF ServerInv
<1>14. PastCartInv'
  <2>1. ~ PastCart(stack'[k])
    <3>1. stack'[k].op = op /\ stack'[k].cmd = cmd /\ stack'[k].got = None
      BY <1>0, <1>1, <1>2
    <3> QED
      BY <3>1, Outcomes DEF PastCart, Good
  <2>2. \A b \in Moving \cap (cart[who] \cup owned[who]) : BoughtOrLost(b, who)'
    BY <1>6 DEF BoughtOrLost
  <2> QED
    BY <1>1, <1>3, <1>5, <1>6, <1>13, <2>1, <2>2, PastCartStay
<1>15. GivenUpInv'
  <2> SUFFICES ASSUME NEW i \in DOMAIN wire', GivenUp(wire'[i]), wire'[i].cmd.book \notin torn'
               PROVE  \E j \in DOMAIN stack' : PutsDownAfter(i, j)'
    BY DEF GivenUpInv
  <2>1. i \in DOMAIN wire /\ wire'[i] = wire[i]
    BY <1>1, <1>4 DEF GivenUp
  <2>2. PICK j \in DOMAIN stack : PutsDownAfter(i, j)
    BY <1>6, <2>1 DEF GivenUpInv
  <2>3. j \in DOMAIN stack' /\ Same(stack[j], stack'[j])
    BY <1>1, SameItself
  <2>4. \A c \in DOMAIN wire : c \in DOMAIN wire' /\ wire'[c] = wire[c]
    BY <1>1
  <2>5. PutsDownAfter(i, j)'
    BY <1>5, <2>1, <2>2, <2>3, <2>4, PutsDownStill
  <2> QED
    BY <2>3, <2>5
<1>16. page' = page => ClientInv'
  <2>1. IsLib(lib)'
    <3>1. IsLib(lib) /\ IsLib(Empty)
      BY EmptyFits DEF ClientInv
    <3>2. PICK l : l = lib'
      OBVIOUS
    <3>3. IsLib(l)'
      BY <1>5, <3>1, <3>2, LibGrows DEF SendKept
    <3> QED
      BY <3>2, <3>3
  <2>2. hearts' \subseteq Books /\ torn' \subseteq Books /\ kept' \in [Users -> SUBSET Books]
    BY <1>6 DEF ClientInv, SendKept
  <2>3. basket' \in [any : BOOLEAN, items : SUBSET Books] /\ (~ basket'.any => basket' = NoBasket)
    <3>1. NoBasket \in [any : BOOLEAN, items : SUBSET Books]
      BY DEF NoBasket
    <3> QED
      BY <3>1 DEF ClientInv, SendKept
  <2> QED
    BY <1>6, <2>1, <2>2, <2>3 DEF ClientInv
<1>17. UNCHANGED pageVars /\ op \notin {"page", "review"} => PageInv'
  <2> SUFFICES ASSUME UNCHANGED pageVars, op \notin {"page", "review"} PROVE PageInv'
    OBVIOUS
  <2>1. ~ OfPage(stack'[k])
    BY <1>0, <1>1, <1>2 DEF OfPage
  <2>2. \A i \in DOMAIN wire' :
          wire'[i].cmd.do = "review" => \E j \in DOMAIN wire : wire'[i].cmd = wire[j].cmd
    <3>1. cmd.do # "review"
      BY DEF Asks, Sends, OnShelf
    <3>2. \A i \in DOMAIN wire' : i \in DOMAIN wire \/ wire'[i].cmd.do # "review"
      BY <1>1, <1>4, <3>1
    <3> QED
      BY <1>1, <3>2
  <2> QED
    BY <1>1, <1>3, <1>6, <2>1, <2>2, PageStay DEF pageVars
<1> QED
  BY <1>7, <1>8, <1>9, <1>10, <1>11, <1>12, <1>14, <1>15, <1>16, <1>17

LEMMA SetSeq ==
  ASSUME NEW S, IsFiniteSet(S)
  PROVE  IsSeq(SetToSeq(S)) /\ ToSet(SetToSeq(S)) \subseteq S
<1>1. Cardinality(S) \in Nat /\ \E f \in [1 .. Cardinality(S) -> S] : IsInjective(f)
  BY FS_CardinalityType DEF ExistsBijection, Bijection, Injection
<1>2. SetToSeq(S) \in [1 .. Cardinality(S) -> S]
  BY <1>1 DEF SetToSeq
<1>3. ToSet(SetToSeq(S)) \subseteq S
  BY <1>2 DEF ToSet
<1> QED
  BY <1>1, <1>2, <1>3, SeqMade

\* What may be asked first.
MayAsk(op, cmd, more) ==
  /\ Asks(op, cmd) /\ Follows(op, cmd, more)
  /\ op = "toCart" => cmd.do = "put"
  /\ op \notin {"page", "review"}

LEMMA AskKeeps ==
  ASSUME ShopInv, NEW op, NEW cmd, NEW more, Begin(op, cmd, more), MayAsk(op, cmd, more),
         UNCHANGED <<cart, cartRow, reviews, drifted, pageVars>>, misfilled => misfilled',
         lib' \in {lib, Empty}, hearts' \in {hearts, {}}, basket' \in {basket, NoBasket}
  PROVE  ShopInv'
<1>1. /\ who # Nobody /\ Len(stack) < MaxDepth /\ Sent(op, cmd, more) /\ SendKept
  BY DEF Begin, Sent, SendKept, New, Asking, data
<1>2. page' = page
  BY DEF pageVars
<1> QED
  BY <1>1, <1>2, SendKeeps DEF ShopInv, MayAsk

LEMMA CachedShelf ==
  ASSUME ShopInv
  PROVE  /\ IsSeq(lib.shelves)
         /\ \A i \in DOMAIN lib.shelves :
              /\ lib.shelves[i].id \in DOMAIN shelves /\ lib.shelves[i].name \in Nat
              /\ lib.shelves[i].sort \in Int /\ lib.shelves[i].books \subseteq Books
         /\ \A s \in CachedIds : s \in DOMAIN shelves
         /\ \A s, t \in CachedIds : OwnerOf(s) = OwnerOf(t)
<1>1. IsListing(lib.shelves)
  BY DEF ShopInv, ClientInv, IsLib
<1> QED
  BY <1>1 DEF IsListing, IsListed, CachedIds

LEMMA WishShelf ==
  ASSUME ShopInv, WishPlace(lib.shelves) # 0
  PROVE  lib.shelves[WishPlace(lib.shelves)].id \in DOMAIN shelves
  BY CachedShelf, WishIs

LEMMA AsksSort ==
  ASSUME NEW s \in DOMAIN shelves, NEW n \in Nat, NEW k \in Int
  PROVE  /\ MayAsk("shelves", [do |-> "create", name |-> n], <<>>)
         /\ MayAsk("shelves", [do |-> "rename", shelf |-> s, name |-> n], <<>>)
         /\ MayAsk("shelves", [do |-> "update", shelf |-> s, sort |-> k], <<>>)
  BY DEF MayAsk, Asks, Sends, OnShelf, Follows

LEMMA AsksShelf ==
  ASSUME NEW s \in DOMAIN shelves, NEW b \in Books
  PROVE  /\ MayAsk("shelves", [do |-> "delete", shelf |-> s], <<>>)
         /\ MayAsk("shelves", [do |-> "add", shelf |-> s, book |-> b], <<>>)
         /\ MayAsk("shelves", [do |-> "drop", shelf |-> s, book |-> b], <<>>)
         /\ MayAsk("wish", [do |-> "add", shelf |-> s, book |-> b], <<>>)
         /\ MayAsk("wish", [do |-> "drop", shelf |-> s, book |-> b], <<>>)
         /\ \A t \in DOMAIN shelves : OwnerOf(t) = OwnerOf(s) =>
              MayAsk("move", [do |-> "drop", shelf |-> s, book |-> b],
                     <<[do |-> "add", shelf |-> t, book |-> b]>>)
  BY DEF MayAsk, Asks, Sends, OnShelf, Follows

LEMMA AsksBook ==
  ASSUME NEW b \in Books
  PROVE  /\ MayAsk("read", [do |-> "get"], <<>>)
         /\ MayAsk("hearts", [do |-> "get"], <<>>)
         /\ MayAsk("heart", [do |-> "get", book |-> b], <<>>)
         /\ MayAsk("cart", FetchCart, <<>>)
         /\ MayAsk("cart", Put(b), <<>>)
         /\ MayAsk("cart", Take(b), <<>>)
         /\ MayAsk("clear", [do |-> "empty"], <<>>)
         /\ MayAsk("again", Take(b), <<Put(b)>>)
         /\ MayAsk("checkout", [do |-> "checkout"], <<>>)
         /\ MayAsk("checkout", Put(b), <<[do |-> "checkout"]>>)
         /\ MayAsk("toCart", Put(b), <<>>)
<1>1. AsksAll("clear", <<>>)
  BY DEF AsksAll, IsSeq, ToSet
<1> QED
  BY <1>1 DEF MayAsk, Asks, Sends, OnShelf, Follows, FetchCart, Put, Take

LEMMA AsksCopy ==
  ASSUME NEW n \in Nat, NEW S \in SUBSET Books
  PROVE  MayAsk("copy", [do |-> "create", name |-> CopyName(n)], SetToSeq(S))
<1>1. IsSeq(SetToSeq(S)) /\ ToSet(SetToSeq(S)) \subseteq Books
  BY LibraryAssumption, SetSeq, FS_Subset
<1>2. CopyName(n) \in Nat
  BY DEF CopyName
<1>3. PICK q, m : q = SetToSeq(S) /\ m = CopyName(n)
  OBVIOUS
<1>4. MayAsk("copy", [do |-> "create", name |-> m], q)
  BY <1>1, <1>2, <1>3 DEF MayAsk, Asks, Sends, OnShelf, Follows
<1> QED
  BY <1>3, <1>4

BeginsAt(op, cmd, more) == Begin(op, cmd, more) /\ MayAsk(op, cmd, more)
Begins == \E op, cmd, more : BeginsAt(op, cmd, more)

\* A command of LibraryService or BookService begins with one request.
LEMMA LibraryBegins ==
  ASSUME ShopInv,
         \/ ReadLibrary \/ Refresh \/ EnsureWishlistCache \/ ShowWishlist
         \/ \E b \in Books : ToggleWishlist(b) \/ ToggleSaved(b) \/ RemoveFromWishlist(b)
         \/ \E n \in NewNames : CreateShelf(n) \/ \E s \in CachedIds : RenameShelf(s, n)
         \/ \E i \in DOMAIN lib.shelves : MoveShelfUp(i) \/ MoveShelfDown(i) \/ DuplicateShelf(i)
         \/ \E s \in CachedIds : DeleteShelf(s) \/ SetShelfLook(s)
         \/ \E s \in CachedIds, b \in Books :
              AddToShelf(s, b) \/ RemoveFromShelf(s, b) \/ \E t \in CachedIds : MoveBook(s, t, b)
  PROVE  Begins /\ lib' \in {lib, Empty} /\ hearts' \in {hearts, {}} /\ drifted' = drifted
<1> DEFINE Here == lib' \in {lib, Empty} /\ hearts' \in {hearts, {}} /\ drifted' = drifted
<1>1. CASE ReadLibrary \/ Refresh \/ EnsureWishlistCache \/ ShowWishlist
  <2>1. MayAsk("read", [do |-> "get"], <<>>) /\ MayAsk("hearts", [do |-> "get"], <<>>)
    BY LibraryAssumption, AsksBook
  <2>2. \/ BeginsAt("read", [do |-> "get"], <<>>)
        \/ BeginsAt("hearts", [do |-> "get"], <<>>)
    BY <1>1, <2>1 DEF ReadLibrary, Refresh, EnsureWishlistCache, ShowWishlist, BeginsAt
  <2>3. Begins
    BY <2>2 DEF Begins
  <2> QED
    BY <1>1, <2>3 DEF ReadLibrary, Refresh, EnsureWishlistCache, ShowWishlist, local
<1>2. ASSUME NEW op, NEW cmd, NEW more, Ask(op, cmd, more), MayAsk(op, cmd, more)
      PROVE  Begins /\ Here
  BY <1>2 DEF Ask, Begins, BeginsAt, local
<1>3. ASSUME NEW b \in Books, ToggleWishlist(b) PROVE Begins /\ Here
  <2>1. MayAsk("heart", [do |-> "get", book |-> b], <<>>)
    BY AsksBook
  <2> QED
    BY <1>2, <1>3, <2>1 DEF ToggleWishlist
<1>4. ASSUME NEW b \in Books, ToggleSaved(b) \/ RemoveFromWishlist(b) PROVE Begins /\ Here
  <2>1. PICK do \in {"add", "drop"} : InWish(do, b)
    BY <1>4 DEF ToggleSaved, RemoveFromWishlist
  <2>2. PICK s \in DOMAIN shelves : s = lib.shelves[WishPlace(lib.shelves)].id
    BY <2>1, WishShelf DEF InWish
  <2>3. MayAsk("wish", [do |-> do, shelf |-> s, book |-> b], <<>>)
    <3>1. /\ MayAsk("wish", [do |-> "add", shelf |-> s, book |-> b], <<>>)
          /\ MayAsk("wish", [do |-> "drop", shelf |-> s, book |-> b], <<>>)
      BY AsksShelf
    <3> QED
      BY <2>1, <3>1
  <2>4. Ask("wish", [do |-> do, shelf |-> s, book |-> b], <<>>)
    BY <2>1, <2>2 DEF InWish
  <2> QED
    BY <1>2, <2>3, <2>4
<1>5. ASSUME NEW n \in NewNames, CreateShelf(n) \/ \E s \in CachedIds : RenameShelf(s, n)
      PROVE  Begins /\ Here
  <2>1. n \in Nat /\ 0 \in Int /\ Shelved \in Books
    BY LibraryAssumption
  <2>2. CASE CreateShelf(n)
    <3>1. MayAsk("shelves", [do |-> "create", name |-> n], <<>>)
      BY <2>1 DEF MayAsk, Asks, Sends, OnShelf, Follows
    <3> QED
      BY <1>2, <2>2, <3>1 DEF CreateShelf
  <2>3. CASE \E s \in CachedIds : RenameShelf(s, n)
    <3>1. PICK s \in CachedIds : RenameShelf(s, n)
      BY <2>3
    <3>2. s \in DOMAIN shelves
      BY CachedShelf
    <3>3. MayAsk("shelves", [do |-> "rename", shelf |-> s, name |-> n], <<>>)
      BY <2>1, <3>2, AsksSort
    <3> QED
      BY <1>2, <3>1, <3>3 DEF RenameShelf
  <2> QED
    BY <1>5, <2>2, <2>3
<1>6. ASSUME NEW i \in DOMAIN lib.shelves, MoveShelfUp(i) \/ MoveShelfDown(i) \/ DuplicateShelf(i)
      PROVE  Begins /\ Here
  <2>1. /\ lib.shelves[i].id \in DOMAIN shelves /\ lib.shelves[i].name \in Nat
        /\ lib.shelves[i].books \in SUBSET Books
    BY CachedShelf
  <2>2. CASE MoveShelfUp(i) \/ MoveShelfDown(i)
    <3>1. PICK k \in Int : SetSortOrder(lib.shelves[i].id, k)
      <4>1. DOMAIN lib.shelves = 1 .. Len(lib.shelves) /\ Len(lib.shelves) \in Nat
        BY CachedShelf, SeqShape
      <4>2. /\ i > 1 => lib.shelves[i - 1].sort - 1 \in Int
            /\ i < Len(lib.shelves) => lib.shelves[i + 1].sort + 1 \in Int
        <5>1. \A j \in 1 .. Len(lib.shelves) : lib.shelves[j].sort \in Int
          BY <4>1, CachedShelf
        <5> QED
          BY <4>1, <5>1
      <4> QED
        BY <2>2, <4>2 DEF MoveShelfUp, MoveShelfDown
    <3>2. PICK s \in DOMAIN shelves : s = lib.shelves[i].id
      BY <2>1
    <3>3. MayAsk("shelves", [do |-> "update", shelf |-> s, sort |-> k], <<>>)
      BY LibraryAssumption, AsksSort
    <3>4. Ask("shelves", [do |-> "update", shelf |-> s, sort |-> k], <<>>)
      BY <3>1, <3>2 DEF SetSortOrder
    <3> QED
      BY <1>2, <3>3, <3>4
  <2>3. CASE DuplicateShelf(i)
    <3>1. MayAsk("copy", [do |-> "create", name |-> CopyName(lib.shelves[i].name)],
                 SetToSeq(lib.shelves[i].books))
      BY <2>1, AsksCopy
    <3> QED
      BY <1>2, <2>3, <3>1 DEF DuplicateShelf
  <2> QED
    BY <1>6, <2>2, <2>3
<1>7. ASSUME NEW s \in CachedIds, DeleteShelf(s) \/ SetShelfLook(s) PROVE Begins /\ Here
  <2>1. s \in DOMAIN shelves /\ Shelved \in Books
    BY CachedShelf, LibraryAssumption
  <2>2. MayAsk("shelves", [do |-> "delete", shelf |-> s], <<>>)
    BY <2>1, AsksShelf
  <2>3. MayAsk("shelves", [do |-> "look", shelf |-> s], <<>>)
    BY <2>1 DEF MayAsk, Asks, Sends, OnShelf, Follows
  <2> QED
    BY <1>2, <1>7, <2>2, <2>3 DEF DeleteShelf, SetShelfLook
<1>8. ASSUME NEW s \in CachedIds, NEW b \in Books,
             AddToShelf(s, b) \/ RemoveFromShelf(s, b) \/ \E t \in CachedIds : MoveBook(s, t, b)
      PROVE  Begins /\ Here
  <2>1. s \in DOMAIN shelves
    BY CachedShelf
  <2>2. CASE AddToShelf(s, b)
    BY <1>2, <2>1, <2>2, AsksShelf DEF AddToShelf
  <2>3. CASE RemoveFromShelf(s, b)
    BY <1>2, <2>1, <2>3, AsksShelf DEF RemoveFromShelf
  <2>4. CASE \E t \in CachedIds : MoveBook(s, t, b)
    <3>1. PICK t \in CachedIds : MoveBook(s, t, b)
      BY <2>4
    <3>2. t \in DOMAIN shelves /\ OwnerOf(t) = OwnerOf(s)
      BY CachedShelf
    <3>3. MayAsk("move", [do |-> "drop", shelf |-> s, book |-> b],
                 <<[do |-> "add", shelf |-> t, book |-> b]>>)
      BY <2>1, <3>2, AsksShelf
    <3> QED
      BY <1>2, <3>1, <3>3 DEF MoveBook
  <2> QED
    BY <1>8, <2>2, <2>3, <2>4
<1> QED
  BY <1>1, <1>3, <1>4, <1>5, <1>6, <1>7, <1>8

\* Every command of the library and of the hearts may begin.
LEMMA LibraryBeginsKeep ==
  ASSUME ShopInv, Begins, lib' \in {lib, Empty}, hearts' \in {hearts, {}}, drifted' = drifted,
         UNCHANGED <<cart, cartRow, basket, pageVars>>, misfilled => misfilled'
  PROVE  ShopInv'
<1>1. PICK op, cmd, more : Begin(op, cmd, more) /\ MayAsk(op, cmd, more)
  BY DEF Begins, BeginsAt
<1>2. UNCHANGED reviews
  BY DEF pageVars
<1> QED
  BY <1>1, <1>2, AskKeeps

\* Every command of the cart, and the move from the wishlist to the cart, may
\* begin.
LEMMA ShopBegins ==
  ASSUME ShopInv,
         \/ ReadCart \/ RefreshCart \/ Clear \/ Checkout
         \/ \E b \in Books : Add(b) \/ RemoveFromCart(b) \/ SetQuantity(b) \/ BuyNow(b)
                             \/ MoveToCart(b)
  PROVE  ShopInv'
<1>1. PICK op, cmd, more : ShopAsk(op, cmd, more) /\ MayAsk(op, cmd, more)
  <2>1. CASE ReadCart \/ RefreshCart \/ Clear \/ Checkout
    <3>1. Shelved \in Books
      BY LibraryAssumption
    <3> QED
      BY <2>1, <3>1, AsksBook DEF ReadCart, RefreshCart, Clear, Checkout
  <2>2. ASSUME NEW b \in Books,
               Add(b) \/ RemoveFromCart(b) \/ SetQuantity(b) \/ BuyNow(b) \/ MoveToCart(b)
        PROVE  \E op, cmd, more : ShopAsk(op, cmd, more) /\ MayAsk(op, cmd, more)
    BY <2>2, AsksBook DEF Add, RemoveFromCart, SetQuantity, BuyNow, MoveToCart
  <2> QED
    BY <2>1, <2>2
<1>2. basket' \in {basket, NoBasket}
  BY DEF ReadCart, RefreshCart, Clear, Checkout, Add, RemoveFromCart, SetQuantity, BuyNow,
         MoveToCart
<1>3. /\ Begin(op, cmd, more) /\ UNCHANGED <<cart, cartRow, reviews, drifted, pageVars>>
      /\ misfilled' = misfilled /\ lib' = lib /\ hearts' = hearts
  BY <1>1 DEF ShopAsk, Ask, local, pageVars
<1> QED
  BY <1>1, <1>2, <1>3, AskKeeps

-----------------------------------------------------------------------------
(* The page of a book.                                                     *)

RestSame ==
  UNCHANGED <<shelves, owned, session, who, lib, hearts, cart, cartRow, basket, misfilled,
              reviews, skewed, behind, drifted, kept, torn>>

PageTypes(p) ==
  p \in [id : Pages \cup {NoBook}, book : Pages \cup {NoBook},
         reviews : Pages \cup {NoBook}, mine : Pages \cup {NoBook},
         pending : {"none", "load", "submit"}, busy : BOOLEAN, timer : BOOLEAN]

\* What holds of the client holds while nothing of it changes.
LEMMA RestClient ==
  ASSUME ShopInv, RestSame, PageTypes(page') PROVE ClientInv'
<1>1. Grows
  BY GrowsSame DEF RestSame, ShopInv
<1>2. PICK l : l = lib
  OBVIOUS
<1>3. IsLib(l)'
  BY <1>1, <1>2, LibGrows DEF ShopInv, ClientInv
<1> QED
  BY <1>2, <1>3 DEF ShopInv, ClientInv, RestSame, PageTypes

\* Nothing but the page changes.
LEMMA PageOnly ==
  ASSUME ShopInv, RestSame, stack' = stack, wire' = wire
  PROVE  /\ WaitsInv' /\ ServerInv' /\ ShelvesInv' /\ PurchasesInv' /\ BasketInv' /\ HeartsInv'
         /\ KeptInv' /\ GivenUpInv' /\ PastCartInv'
<1> USE DEF ShopInv
<1>1. Grows /\ WorldSame /\ Fits(wire, stack)
  BY GrowsSame DEF WorldSame, RestSame, WaitsInv
<1>2. Calm(0, stack, stack') /\ 0 \notin DOMAIN stack
  <2>1. DOMAIN stack = 1 .. Len(stack)
    BY <1>1, SeqShape DEF Fits, Stacked
  <2> QED
    BY <2>1, SameItself DEF Calm
<1>3. /\ UNCHANGED <<shelves, owned, session, who, lib, hearts, cart, cartRow, basket, misfilled>>
      /\ UNCHANGED <<reviews, skewed, behind, drifted, kept, torn>>
  BY DEF RestSame
<1>4. WaitsInv'
  <2>1. \A i \in DOMAIN wire' : Asks(wire[i].op, wire[i].cmd)'
    <3>1. \A i \in DOMAIN wire' : Asks(wire'[i].op, wire'[i].cmd)
      BY DEF WaitsInv
    <3> QED
      BY <1>1, <3>1, GrowsKeeps
  <2>2. Fits(wire', stack') /\ Len(stack') <= MaxDepth
    BY <1>1 DEF WaitsInv
  <2>3. who # Nobody \/ (stack' = <<>> /\ wire' = <<>>)
    BY DEF WaitsInv
  <2> QED
    BY <1>1, <1>2, <1>3, <2>1, <2>2, <2>3, WaitsStay
<1>5. ServerInv'
  BY <1>3 DEF ServerInv, OwnedNotInCart
<1>6. ShelvesInv' /\ PurchasesInv'
  BY <1>2, <1>3, ShelvesStay, PurchasesStay
<1>7. BasketInv' /\ HeartsInv'
  BY <1>2, <1>3, BasketStay, HeartsStay
<1>8. KeptInv'
  BY <1>1, <1>2, <1>3, KeptStay
<1>9. PastCartInv'
  <2>1. CASE who \in Users
    <3>1. \A b \in Moving \cap (cart[who] \cup owned[who]) : BoughtOrLost(b, who)'
      BY <1>3 DEF BoughtOrLost
    <3> QED
      BY <1>1, <1>2, <1>3, <2>1, <3>1, PastCartStay
  <2>2. CASE who = Nobody
    <3>1. DOMAIN stack' = {}
      BY <2>2 DEF WaitsInv
    <3> QED
      BY <3>1 DEF PastCartInv
  <2> QED
    BY <2>1, <2>2 DEF ServerInv
<1>10. GivenUpInv'
  <2> SUFFICES ASSUME NEW i \in DOMAIN wire, GivenUp(wire[i]), wire[i].cmd.book \notin torn
               PROVE  \E j \in DOMAIN stack : PutsDownAfter(i, j)'
    BY <1>3 DEF GivenUpInv
  <2>1. PICK j \in DOMAIN stack : PutsDownAfter(i, j)
    BY DEF GivenUpInv
  <2>2. Same(stack[j], stack'[j])
    BY SameItself
  <2>3. PutsDownAfter(i, j)'
    BY <1>1, <2>1, <2>2, PutsDownStill
  <2> QED
    BY <2>3
<1> QED
  BY <1>4, <1>5, <1>6, <1>7, <1>8, <1>9, <1>10

\* BookDetailViewModel::loadBook: another book is opened, perhaps while one
\* loads.
LEMMA LoadBookKeeps ==
  ASSUME ShopInv, NEW b \in Pages, LoadBook(b) PROVE ShopInv'
<1> USE ShopAssumption DEF ShopInv
<1>1. RestSame /\ stack' = stack /\ wire' = wire /\ who # Nobody
  BY DEF LoadBook, AtPage, RestSame, data, local, history
<1>2. /\ page' = [page EXCEPT !.id = b, !.pending = "load", !.busy = TRUE, !.timer = TRUE]
      /\ meant' = meant /\ (crossed' <=> crossed \/ Loading)
  BY Zenon DEF LoadBook, Begun
<1>3. PageTypes(page')
  BY <1>2 DEF ClientInv, PageTypes
<1>4. /\ page'.timer /\ page'.busy /\ page'.pending = "load" /\ page'.id = b /\ b # NoBook
  BY <1>2 DEF ClientInv, Pages
<1>5. crossed' \/ PageFits'
  <2> SUFFICES ASSUME ~ crossed' PROVE PageFits'
    OBVIOUS
  <2>1. ~ crossed /\ ~ Loading /\ PageFits
    BY <1>2 DEF PageInv
  <2>2. \A i \in DOMAIN stack : ~ OfPage(stack[i])
    BY <2>1, LoadingIs
  <2>3. ~ Loading'
    BY <1>1, <2>1 DEF Loading
  <2> QED
    BY <1>1, <1>2, <1>4, <2>1, <2>2, <2>3 DEF PageFits, RestSame
<1>6. PageInv'
  BY <1>1, <1>4, <1>5 DEF PageInv, RestSame
<1> QED
  BY <1>1, <1>3, <1>6, RestClient, PageOnly

\* submitReview: what the reader means is remembered before the timer fires.
LEMMA SubmitReviewKeeps ==
  ASSUME ShopInv, SubmitReview PROVE ShopInv'
<1> USE DEF ShopInv
<1>1. RestSame /\ stack' = stack /\ wire' = wire /\ who # Nobody
  BY DEF SubmitReview, AtPage, RestSame, data, local, history
<1>2. /\ page' = [page EXCEPT !.pending = "submit", !.busy = TRUE, !.timer = TRUE]
      /\ meant' = meant \cup {<<who, Seen>>} /\ (crossed' <=> crossed)
      /\ ~ page.busy /\ page.id # NoBook
  BY Zenon DEF SubmitReview, Begun
<1>3. PageTypes(page')
  BY <1>2 DEF ClientInv, PageTypes
<1>4. /\ page'.timer /\ page'.busy /\ page'.pending = "submit" /\ page'.id = page.id
      /\ page'.book = page.book /\ page'.reviews = page.reviews /\ page'.mine = page.mine
  BY <1>2 DEF ClientInv
<1>5. crossed' \/ PageFits'
  <2> SUFFICES ASSUME ~ crossed' PROVE PageFits'
    OBVIOUS
  <2>1. ~ crossed /\ PageFits
    BY <1>2 DEF PageInv
  <2>2. \A i \in DOMAIN stack : ~ OfPage(stack[i])
    BY <1>2, <2>1 DEF PageFits
  <2>3. ~ Loading /\ ~ Loading' /\ ~ page.timer
    BY <1>1, <1>2, <2>1, <2>2, LoadingIs DEF Loading, PageFits
  <2>4. Settled(page) /\ Settled(page')
    BY <1>4, <2>1, <2>3 DEF PageFits, Settled
  <2>5. Seen = page.id
    BY <2>4 DEF Seen, Settled
  <2> QED
    BY <1>1, <1>2, <1>4, <2>1, <2>2, <2>3, <2>4, <2>5 DEF PageFits, RestSame
<1>6. PageInv'
  BY <1>1, <1>2, <1>4, <1>5 DEF PageInv, RestSame
<1> QED
  BY <1>1, <1>3, <1>6, RestClient, PageOnly

\* onAsyncReady: the timer fires and the load or the review is sent.
LEMMA OnAsyncReadyKeeps ==
  ASSUME ShopInv, OnAsyncReady PROVE ShopInv'
<1> USE ShopAssumption DEF ShopInv
<1>1. /\ RestSame /\ page.timer /\ Len(stack) < MaxDepth
      /\ meant' = meant /\ (crossed' <=> crossed)
  BY DEF OnAsyncReady, RestSame, data, local, history
<1>2. who # Nobody /\ page.id # NoBook /\ page.id \in Pages
  BY <1>1 DEF PageInv, ClientInv
<1>3. SendKept
  BY <1>1 DEF RestSame, SendKept
<1>4. CASE page.pending \notin {"load", "submit"}
  <2>1. /\ page' = [page EXCEPT !.pending = "none", !.busy = FALSE, !.timer = FALSE]
        /\ stack' = stack /\ wire' = wire
    BY <1>4 DEF OnAsyncReady, Finished
  <2>2. PageTypes(page') /\ ~ page'.busy /\ ~ page'.timer /\ page'.id = page.id
    BY <2>1 DEF ClientInv, PageTypes
  <2>3. crossed
    BY <1>1, <1>4 DEF PageInv, PageFits
  <2>4. PageInv'
    BY <1>1, <1>2, <2>2, <2>3 DEF PageInv
  <2> QED
    BY <1>1, <2>1, <2>2, <2>4, RestClient, PageOnly
<1>5. CASE page.pending \in {"load", "submit"}
  <2>1. page' = [page EXCEPT !.timer = FALSE]
    BY <1>5 DEF OnAsyncReady
  <2>2. /\ PageTypes(page') /\ ~ page'.timer /\ page'.id = page.id
        /\ page'.busy = page.busy /\ page'.book = page.book
        /\ page'.reviews = page.reviews /\ page'.mine = page.mine
    BY <2>1 DEF ClientInv, PageTypes
  <2>3. PICK op, cmd, more :
          /\ Sent(op, cmd, more)
          /\ \/ op = "page" /\ cmd.do = "details" /\ cmd.book = page.id /\ more = <<"reviews">>
             \/ /\ op = "review" /\ cmd.do = "review" /\ page.pending = "submit"
                /\ cmd.book = IF page.mine = NoBook THEN page.id ELSE page.mine
    <3>1. CASE page.pending = "load"
      <4>1. Sent("page", Details(page.id), <<"reviews">>)
        BY <3>1 DEF OnAsyncReady, Fire, Sent, New, Asking
      <4> QED
        BY <4>1 DEF Details
    <3>2. CASE page.pending = "submit"
      <4>1. PICK c : c = [do |-> "review", book |-> IF page.mine = NoBook THEN page.id ELSE page.mine]
        OBVIOUS
      <4>2. Sent("review", c, <<"reviews", "book">>)
        BY <3>2, <4>1 DEF OnAsyncReady, Fire, Sent, New, Asking
      <4> QED
        BY <3>2, <4>1, <4>2
    <3> QED
      BY <1>5, <3>1, <3>2
  <2>4. Asks(op, cmd)
    BY <1>2, <2>3 DEF Asks, Sends, OnShelf, ClientInv
  <2>5. Follows(op, cmd, more)
    BY <2>3 DEF Follows
  <2>6. PICK n, m, k : n = Len(stack) /\ m = Len(wire) /\ k = n + 1
    OBVIOUS
  <2>7. /\ n \in Nat /\ m \in Nat
        /\ DOMAIN stack = 1 .. n /\ DOMAIN stack' = 1 .. n + 1
        /\ stack'[k] = New(op, cmd, more)
        /\ \A i \in 1 .. n : stack'[i] = stack[i]
        /\ DOMAIN wire = 1 .. m /\ DOMAIN wire' = 1 .. m + 1
        /\ wire'[m + 1] = Asking(op, cmd, n + 1)
        /\ \A i \in 1 .. m : wire'[i] = wire[i]
    BY <2>3, <2>6, NewIs, SendFits DEF Pushed
  <2>8. /\ k \in DOMAIN stack' /\ stack'[k].op = op /\ stack'[k].cmd = cmd
        /\ stack'[k].more = more /\ OfPage(stack'[k]) /\ wire'[m + 1].cmd = cmd
    BY <2>3, <2>6, <2>7, NewIs DEF Asking, OfPage
  <2>9. Loading'
    BY <2>8 DEF Loading, OfPage
  <2>10. crossed' \/ PageFits'
    <3> SUFFICES ASSUME ~ crossed' PROVE PageFits'
      OBVIOUS
    <3>1. ~ crossed /\ PageFits
      BY <1>1 DEF PageInv
    <3>2. page.busy /\ ~ Loading /\ (page.pending = "submit" => Settled(page) /\ <<who, page.id>> \in meant)
      BY <1>1, <3>1 DEF PageFits
    <3>3. \A i \in DOMAIN stack' : OfPage(stack'[i]) => i = k
      BY <2>6, <2>7, <3>2, LoadingIs
    <3>4. cmd.book = page.id /\ (op = "review" => Settled(page) /\ Settled(page'))
      BY <2>2, <2>3, <3>2 DEF Settled
    <3>5. op = "page" => more # <<>>
      BY <2>3
    <3>6. \A i \in DOMAIN wire' : wire'[i].cmd.do = "review" => <<who, wire'[i].cmd.book>> \in meant
      <4> SUFFICES ASSUME NEW i \in DOMAIN wire', wire'[i].cmd.do = "review"
                   PROVE  <<who, wire'[i].cmd.book>> \in meant
        OBVIOUS
      <4>1. CASE i \in DOMAIN wire
        BY <2>7, <3>1, <4>1 DEF PageFits
      <4>2. CASE i = m + 1
        BY <2>3, <2>8, <3>2, <3>4, <4>2
      <4> QED
        BY <2>7, <4>1, <4>2
    <3>7. \A i \in DOMAIN stack' : OfPage(stack'[i]) =>
            /\ page'.busy /\ stack'[i].cmd.book = page'.id
            /\ \A j \in DOMAIN stack' : OfPage(stack'[j]) => i = j
            /\ stack'[i].op = "page" /\ stack'[i].more = <<>> => page'.book \in {page'.id, NoBook}
            /\ stack'[i].op = "review" => Settled(page')
      BY <2>2, <2>8, <3>2, <3>3, <3>4, <3>5
    <3> QED
      BY <1>1, <2>2, <2>9, <3>1, <3>6, <3>7 DEF PageFits, RestSame
  <2>11. PageInv'
    BY <1>1, <1>2, <2>2, <2>9, <2>10 DEF PageInv
  <2>12. ClientInv'
    BY <1>1, <2>2, RestClient
  <2>13. op # "toCart"
    BY <2>3
  <2>14. /\ WaitsInv' /\ ServerInv' /\ ShelvesInv' /\ PurchasesInv' /\ BasketInv' /\ HeartsInv'
         /\ KeptInv' /\ GivenUpInv' /\ PastCartInv'
    BY <1>1, <1>2, <1>3, <2>3, <2>4, <2>5, <2>13, SendKeeps
  <2> QED
    BY <2>11, <2>12, <2>14
<1> QED
  BY <1>4, <1>5

-----------------------------------------------------------------------------
(* The server answers.                                                     *)

\* A request c of a command op, waited for at d, is answered with r. Commands that
\* have their replies find them old if what they list has changed.
Serving(op, c, d, r, v) ==
  /\ wire # <<>> /\ op = Head(wire).op /\ c = Head(wire).cmd /\ d = Head(wire).depth
  /\ r # None /\ Replies(wire, stack, r, v, wire', stack')
  /\ WorldSame \/ v = Aged(stack)
  /\ Grows /\ UNCHANGED <<session, who, lib, hearts, basket, page, meant, crossed>>
  /\ torn \subseteq torn' /\ cartRow \subseteq cartRow'
  /\ reviews' = reviews \/ (PageFits => reviews' \subseteq meant)
  /\ d # 0 => Told(c, r)' /\ Current(c, r)'

\* Serving the first request takes it off the way and puts its reply into the
\* entry that waits for it, if one does.
LEMMA ServingIs ==
  ASSUME ShopInv, NEW op, NEW c, NEW d, NEW r, NEW v, Serving(op, c, d, r, v)
  PROVE  /\ Fits(wire', stack') /\ Len(stack') <= MaxDepth /\ DOMAIN stack' = DOMAIN stack
         /\ \E m \in Nat \ {0} :
              /\ DOMAIN wire = 1 .. m /\ DOMAIN wire' = 1 .. m - 1
              /\ \A i \in 1 .. m - 1 : wire'[i] = wire[i + 1]
         /\ d \in Nat /\ wire[1].op = op /\ wire[1].cmd = c /\ wire[1].depth = d
         /\ Head(wire) = wire[1] /\ 1 \in DOMAIN wire
         /\ d # 0 => /\ d \in DOMAIN stack /\ Open(stack[d]) /\ stack'[d] = Given(stack[d], r)
                     /\ stack[d].op = op /\ stack[d].cmd = c
                     /\ stack'[d].op = op /\ stack'[d].cmd = c /\ stack'[d].got = r
                     /\ stack'[d].more = stack[d].more /\ stack'[d].old = stack[d].old
                     /\ ~ Good(stack[d])
                     /\ \A i \in DOMAIN wire' : wire'[i].depth # d
         /\ d = 0 => d \notin DOMAIN stack
         /\ Calm(d, stack, stack')
         /\ \A i \in DOMAIN stack : i # d => stack'[i].got = stack[i].got
         /\ v = Aged(stack) => \A i \in DOMAIN stack : i # d /\ ~ Open(stack[i]) => stack'[i].old
         /\ Asks(op, c) /\ who \in Users
<1>1. Fits(wire, stack) /\ wire # <<>> /\ r # None
  BY DEF ShopInv, WaitsInv, Serving
<1>2. Replied(wire, stack, r, v, wire', stack')
  BY <1>1, ReplyFits DEF Serving
<1>3. d = Head(wire).depth /\ op = Head(wire).op /\ c = Head(wire).cmd
  BY DEF Serving
<1>4. d # 0 => /\ stack'[d].op = op /\ stack'[d].cmd = c /\ stack'[d].got = r
               /\ stack'[d].more = stack[d].more /\ stack'[d].old = stack[d].old
               /\ ~ Good(stack[d])
  BY <1>2, <1>3, GivenIs, Outcomes DEF Replied, Open, Good
<1>5. \E m \in Nat \ {0} : /\ DOMAIN wire = 1 .. m /\ DOMAIN wire' = 1 .. m - 1
                           /\ \A i \in 1 .. m - 1 : wire'[i] = wire[i + 1]
  BY <1>2 DEF Replied
<1>6. 1 \in DOMAIN wire /\ Head(wire) = wire[1]
  BY <1>2 DEF Replied
<1>7. Asks(op, c)
  BY <1>3, <1>6 DEF ShopInv, WaitsInv
<1>8. who \in Users
  BY <1>1 DEF ShopInv, WaitsInv, ServerInv
<1>9. Len(stack') <= MaxDepth
  BY <1>2 DEF Replied, ShopInv, WaitsInv
<1> QED
  BY <1>2, <1>3, <1>4, <1>5, <1>6, <1>7, <1>8, <1>9 DEF Replied

\* After that every request still waits as it should.
LEMMA ServingWaits ==
  ASSUME ShopInv, NEW op, NEW c, NEW d, NEW r, NEW v, Serving(op, c, d, r, v)
  PROVE  WaitsInv'
<1> USE DEF ShopInv
<1>1. /\ Fits(wire', stack') /\ Len(stack') <= MaxDepth /\ DOMAIN stack' = DOMAIN stack
      /\ Calm(d, stack, stack') /\ Grows /\ who' = who
      /\ WorldSame \/ \A i \in DOMAIN stack : i # d /\ ~ Open(stack[i]) => stack'[i].old
  BY ServingIs DEF Serving
<1>2. d \in DOMAIN stack' => Sound(stack[d])'
  <2> SUFFICES ASSUME d \in DOMAIN stack' PROVE Sound(stack[d])'
    OBVIOUS
  <2>1. d \in DOMAIN stack /\ d # 0
    BY <1>1, ServingIs
  <2>2. /\ stack[d].op = op /\ stack[d].cmd = c
        /\ stack'[d].op = op /\ stack'[d].cmd = c /\ stack'[d].got = r
        /\ stack'[d].more = stack[d].more
    BY <2>1, ServingIs
  <2>3. Asks(op, c) /\ Follows(op, c, stack[d].more)
    BY <2>1, <2>2 DEF WaitsInv, Sound
  <2>4. PICK f : f = stack'[d]
    OBVIOUS
  <2>5. Asks(f.op, f.cmd)' /\ Follows(f.op, f.cmd, f.more)'
    BY <1>1, <2>2, <2>3, <2>4, GrowsKeeps
  <2>6. Told(f.cmd, f.got)' /\ Current(f.cmd, f.got)'
    BY <2>1, <2>2, <2>4 DEF Serving
  <2>7. Sound(f)'
    BY <2>5, <2>6 DEF Sound
  <2> QED
    BY <2>4, <2>7
<1>3. \A i \in DOMAIN wire' : Asks(wire[i].op, wire[i].cmd)'
  <2>1. \A i \in DOMAIN wire' : \E j \in DOMAIN wire : wire'[i] = wire[j]
    BY ServingIs
  <2>2. \A i \in DOMAIN wire' : Asks(wire'[i].op, wire'[i].cmd)
    BY <2>1 DEF WaitsInv
  <2> QED
    BY <1>1, <2>2, GrowsKeeps
<1>4. who # Nobody
  BY LibraryAssumption, ServingIs
<1> QED
  BY <1>1, <1>2, <1>3, <1>4, WaitsStay

\* The page is not touched by what the server does.
LEMMA ServingPage ==
  ASSUME ShopInv, NEW op, NEW c, NEW d, NEW r, NEW v, Serving(op, c, d, r, v)
  PROVE  PageInv'
<1> USE DEF ShopInv
<1>1. /\ DOMAIN stack' = DOMAIN stack /\ Calm(d, stack, stack')
      /\ d \in DOMAIN stack => /\ stack'[d].op = stack[d].op /\ stack'[d].cmd = stack[d].cmd
                               /\ stack'[d].more = stack[d].more
  BY ServingIs
<1>2. \A i \in DOMAIN wire' : \E j \in DOMAIN wire : wire'[i] = wire[j]
  BY ServingIs
<1>3. /\ who' = who /\ UNCHANGED <<page, meant, crossed>>
      /\ reviews' = reviews \/ (PageFits => reviews' \subseteq meant)
  BY DEF Serving
<1>4. \A i \in DOMAIN wire' :
        wire'[i].cmd.do = "review" => \E j \in DOMAIN wire : wire'[i].cmd = wire[j].cmd
  BY <1>2
<1> QED
  BY <1>1, <1>3, <1>4, PageStay

\* A move that gave up its first request still puts the book down after it.
LEMMA ServingGivenUp ==
  ASSUME ShopInv, NEW op, NEW c, NEW d, NEW r, NEW v, Serving(op, c, d, r, v)
  PROVE  GivenUpInv'
<1> USE DEF ShopInv
<1>1. PICK m \in Nat \ {0} :
        /\ DOMAIN wire = 1 .. m /\ DOMAIN wire' = 1 .. m - 1
        /\ \A i \in 1 .. m - 1 : wire'[i] = wire[i + 1]
  BY ServingIs
<1> SUFFICES ASSUME NEW i \in DOMAIN wire', GivenUp(wire'[i]), wire'[i].cmd.book \notin torn'
             PROVE  \E j \in DOMAIN stack' : PutsDownAfter(i, j)'
  BY DEF GivenUpInv
<1>2. i + 1 \in DOMAIN wire /\ wire'[i] = wire[i + 1] /\ i \in Nat
  BY <1>1
<1>3. PICK j \in DOMAIN stack : PutsDownAfter(i + 1, j)
  BY <1>2 DEF GivenUpInv, Serving
<1>4. Grows /\ DOMAIN stack' = DOMAIN stack /\ d \in Nat
  BY ServingIs DEF Serving
<1>5. CASE j # d
  <2>1. Same(stack[j], stack'[j])
    BY <1>5, ServingIs DEF Calm
  <2>2. \A k \in DOMAIN wire : k > i + 1 /\ wire[k].depth = j =>
          \E e \in DOMAIN wire' : e > i /\ wire'[e].depth = j
    <3> SUFFICES ASSUME NEW k \in DOMAIN wire, k > i + 1, wire[k].depth = j
                 PROVE  \E e \in DOMAIN wire' : e > i /\ wire'[e].depth = j
      OBVIOUS
    <3>1. k - 1 \in DOMAIN wire' /\ k - 1 > i /\ wire'[k - 1] = wire[k]
      BY <1>1, <1>2
    <3> QED
      BY <3>1
  <2>3. PutsDownAfter(i, j)'
    <3>1. PICK a \in DOMAIN wire : a = i + 1
      BY <1>2
    <3>2. GivenUp(wire[a]) /\ PutsDownAfter(a, j) /\ wire'[i].cmd = wire[a].cmd
      BY <1>2, <1>3, <3>1
    <3>3. \A k \in DOMAIN wire : k > a /\ wire[k].depth = j =>
            \E e \in DOMAIN wire' : e > i /\ wire'[e].depth = j
      BY <2>2, <3>1
    <3> QED
      BY <1>4, <2>1, <3>2, <3>3, PutsDownStill
  <2> QED
    BY <1>4, <2>3
<1>6. CASE j = d
  <2>1. d # 0 /\ Open(stack[d]) /\ stack'[d].op = stack[d].op /\ stack'[d].cmd = stack[d].cmd
    BY <1>3, <1>6, ServingIs
  <2>2. wire[1].depth = d /\ 1 \in DOMAIN wire
    BY ServingIs
  <2>3. \A k \in DOMAIN wire : wire[k].depth = d => k = 1
    BY <2>1, <2>2 DEF WaitsInv, Fits, Linked
  <2>4. stack[d].cmd.do = "drop"
    <3>1. ~ \E k \in DOMAIN wire : k > i + 1 /\ wire[k].depth = d
      BY <1>1, <1>2, <2>3
    <3>2. stack[d].got # Failed
      BY <2>1, Outcomes DEF Open
    <3> QED
      BY <1>3, <1>6, <3>1, <3>2 DEF PutsDownAfter
  <2>5. wire[i + 1].cmd.shelf \in DOMAIN shelves
    BY <1>2 DEF WaitsInv, Asks, GivenUp, OnShelf
  <2>6. stack[d].op = "move" /\ stack[d].cmd.shelf \in DOMAIN shelves
    BY <1>3, <1>6, <2>4 DEF PutsDownAfter, WaitsInv, Sound, Asks, OnShelf
  <2>7. /\ stack'[d].cmd.book = wire'[i].cmd.book
        /\ shelves'[stack'[d].cmd.shelf].owner = shelves'[wire'[i].cmd.shelf].owner
    BY <1>2, <1>3, <1>4, <1>6, <2>1, <2>5, <2>6 DEF PutsDownAfter, Grows, OwnerOf
  <2>8. PutsDownAfter(i, d)'
    BY <2>1, <2>4, <2>6, <2>7 DEF PutsDownAfter, OwnerOf
  <2> QED
    BY <1>3, <1>4, <1>6, <2>8
<1> QED
  BY <1>5, <1>6

\* The cached shelves stay right, or what sets them right waits.
LEMMA ServingShelves ==
  ASSUME ShopInv, NEW op, NEW c, NEW d, NEW r, NEW v, Serving(op, c, d, r, v),
         skewed => skewed',
         \/ shelves' = shelves \/ skewed'
         \/ d # 0 /\ r.is = "ok" /\ c.do \in OfShelves /\ op \in Refills
  PROVE  ShelvesInv'
<1> USE DEF ShopInv
<1>1. /\ DOMAIN stack' = DOMAIN stack /\ Calm(d, stack, stack')
      /\ d \in DOMAIN stack => ~ Good(stack[d])
  BY ServingIs
<1>2. CASE shelves' = shelves
  <2>1. d \in DOMAIN stack => ~ Refilling(stack[d])
    BY <1>1 DEF Refilling
  <2> QED
    BY <1>1, <1>2, <2>1, ShelvesStay DEF Serving
<1>3. CASE skewed'
  BY <1>3 DEF ShelvesInv
<1>4. CASE d # 0 /\ r.is = "ok" /\ c.do \in OfShelves /\ op \in Refills
  <2>1. d \in DOMAIN stack' /\ Refilling(stack'[d])
    BY <1>4, ServingIs DEF Refilling, Good
  <2> QED
    BY <2>1 DEF ShelvesInv, Refilling, Good
<1> QED
  BY <1>2, <1>3, <1>4

\* So does the cached cart.
LEMMA ServingBasket ==
  ASSUME ShopInv, NEW op, NEW c, NEW d, NEW r, NEW v, Serving(op, c, d, r, v),
         misfilled => misfilled',
         \/ cart' = cart \/ misfilled'
         \/ d # 0 /\ r.is = "ok" /\ c.do \in OfCart
  PROVE  BasketInv'
<1> USE DEF ShopInv
<1>1. /\ DOMAIN stack' = DOMAIN stack /\ Calm(d, stack, stack')
      /\ d \in DOMAIN stack => ~ Good(stack[d]) /\ stack'[d].op = stack[d].op
  BY ServingIs
<1>2. CASE cart' = cart
  <2>1. d \in DOMAIN stack /\ Filling(stack[d]) => Filling(stack'[d])
    BY <1>1 DEF Filling
  <2> QED
    BY <1>1, <1>2, <2>1, BasketStay DEF Serving
<1>3. CASE misfilled'
  BY <1>3 DEF BasketInv
<1>4. CASE d # 0 /\ r.is = "ok" /\ c.do \in OfCart
  <2>1. d \in DOMAIN stack' /\ Filling(stack'[d])
    BY <1>4, ServingIs DEF Filling, Good
  <2> QED
    BY <2>1 DEF BasketInv, Filling, Good
<1> QED
  BY <1>2, <1>3, <1>4

\* So do the hearts.
LEMMA ServingHearts ==
  ASSUME ShopInv, NEW op, NEW c, NEW d, NEW r, NEW v, Serving(op, c, d, r, v),
         drifted => drifted',
         \/ shelves' = shelves \/ drifted'
         \/ /\ v = Aged(stack)
            /\ \/ Wished(shelves)' = Wished(shelves)
               \/ /\ d # 0 /\ op = "heart" /\ c.do # "get" /\ r.is = "ok"
                  /\ hearts = Wished(shelves) => Applied(c, hearts) = Wished(shelves)'
  PROVE  HeartsInv'
<1> USE DEF ShopInv
<1>1. /\ DOMAIN stack' = DOMAIN stack /\ Calm(d, stack, stack')
      /\ d \in DOMAIN stack => ~ Good(stack[d])
      /\ who' = who /\ hearts' = hearts
  BY ServingIs DEF Serving
<1>2. CASE shelves' = shelves
  <2>1. d \in DOMAIN stack => ~ Lands(stack[d])
    BY <1>1 DEF Lands
  <2> QED
    BY <1>1, <1>2, <2>1, HeartsStay
<1>3. CASE drifted'
  BY <1>3 DEF HeartsInv
<1>4. CASE /\ v = Aged(stack)
           /\ \/ Wished(shelves)' = Wished(shelves)
              \/ /\ d # 0 /\ op = "heart" /\ c.do # "get" /\ r.is = "ok"
                 /\ hearts = Wished(shelves) => Applied(c, hearts) = Wished(shelves)'
  <2>1. ASSUME NEW i \in DOMAIN stack, Lands(stack[i]) PROVE HeartsInv'
    <3>1. i # d /\ ~ Open(stack[i])
      BY <1>1, <2>1, Outcomes DEF Lands, Good, Open
    <3>2. /\ stack'[i].old /\ stack'[i].op = stack[i].op /\ stack'[i].cmd = stack[i].cmd
          /\ stack'[i].got = stack[i].got
      BY <1>1, <1>4, <2>1, <3>1, ServingIs DEF Calm, Same
    <3>3. Lands(stack[i])'
      BY <2>1, <3>2 DEF Lands, Good
    <3> QED
      BY <1>1, <2>1, <3>3 DEF HeartsInv
  <2>2. CASE who = Nobody \/ hearts = {} \/ drifted
    BY <1>1, <2>2 DEF HeartsInv
  <2>3. CASE hearts = Wished(shelves)
    <3>1. CASE Wished(shelves)' = Wished(shelves)
      BY <1>1, <2>3, <3>1 DEF HeartsInv
    <3>2. CASE /\ d # 0 /\ op = "heart" /\ c.do # "get" /\ r.is = "ok"
               /\ Applied(c, hearts) = Wished(shelves)'
      <4>1. /\ d \in DOMAIN stack' /\ stack'[d].op = "heart" /\ stack'[d].cmd = c
            /\ stack'[d].got = r
        BY <1>1, <3>2, ServingIs
      <4>2. Lands(stack[d])'
        <5>1. PICK f : f = stack'[d]
          OBVIOUS
        <5>2. f.op = "heart" /\ f.cmd = c /\ f.got = r
          BY <4>1, <5>1
        <5>3. Lands(f)'
          BY <1>1, <3>2, <5>2 DEF Lands, Good, Applied
        <5> QED
          BY <5>1, <5>3
      <4> QED
        BY <4>1, <4>2 DEF HeartsInv, Lands, Good
    <3> QED
      BY <1>4, <2>3, <3>1, <3>2
  <2> QED
    BY <2>1, <2>2, <2>3 DEF HeartsInv
<1> QED
  BY <1>2, <1>3, <1>4

\* What the answered command carries it carries on, or it has put it down.
LEMMA ServingCarries ==
  ASSUME ShopInv, NEW op, NEW c, NEW d, NEW r, NEW v, Serving(op, c, d, r, v),
         op = "move" /\ c.do = "add" /\ r.is = "ok" =>
           c.book \in OnShelves(shelves', OwnerOf(c.shelf)),
         op = "again" /\ c.do = "put" /\ r.is = "ok" /\ who \in cartRow => c.book \in cart'[who],
         d \in DOMAIN stack
  PROVE  /\ \A u, b : CarriesHome(stack[d], b, u) => Has(b, u)'
         /\ \A b : CarriesBack(stack[d], b) => BoughtOrLost(b, who)' \/ Carried(b)'
<1> USE DEF ShopInv
<1>1. /\ stack[d].op = op /\ stack[d].cmd = c /\ ~ Good(stack[d])
      /\ stack'[d].op = op /\ stack'[d].cmd = c /\ stack'[d].got = r
      /\ DOMAIN stack' = DOMAIN stack /\ Asks(op, c)
  BY ServingIs
<1>2. ASSUME NEW u, NEW b, CarriesHome(stack[d], b, u) PROVE Has(b, u)'
  <2>1. op = "move" /\ c.book = b /\ OwnerOf(c.shelf) = u
    BY <1>1, <1>2 DEF CarriesHome
  <2>2. c.shelf \in DOMAIN shelves /\ c.do \in {"add", "drop"}
    BY <1>1, <2>1 DEF Asks, Sends, OnShelf
  <2>3. shelves'[c.shelf].owner = u
    BY <2>1, <2>2 DEF Serving, Grows, OwnerOf
  <2>4. CASE c.do = "add" /\ r.is = "ok"
    <3>1. b \in OnShelves(shelves', u)
      BY <2>1, <2>4
    <3> QED
      BY <3>1 DEF Has, OnShelves, Mine
  <2>5. CASE c.do = "drop" \/ r.is # "ok"
    <3>1. CarriesHome(stack[d], b, u)'
      BY <1>1, <2>1, <2>3, <2>5 DEF CarriesHome, Good, OwnerOf
    <3> QED
      BY <1>1, <3>1 DEF Has
  <2> QED
    BY <2>2, <2>4, <2>5
<1>3. ASSUME NEW b, CarriesBack(stack[d], b) PROVE BoughtOrLost(b, who)' \/ Carried(b)'
  <2>1. op = "again" /\ c.book = b /\ who \in cartRow /\ c.do = "put"
    BY <1>1, <1>3 DEF CarriesBack
  <2>2. CASE r.is = "ok"
    BY <2>1, <2>2 DEF BoughtOrLost, Serving
  <2>3. CASE r.is # "ok"
    <3>1. CarriesBack(stack[d], b)'
      BY <1>1, <2>1, <2>3 DEF CarriesBack, Good, Serving
    <3> QED
      BY <1>1, <3>1 DEF Carried
  <2> QED
    BY <2>2, <2>3
<1> QED
  BY <1>2, <1>3

\* What is in the cart or owned stays that, or is torn, if it is on its way there.
LEMMA ServingPastCart ==
  ASSUME ShopInv, NEW op, NEW c, NEW d, NEW r, NEW v, Serving(op, c, d, r, v),
         op = "move" /\ c.do = "add" /\ r.is = "ok" =>
           c.book \in OnShelves(shelves', OwnerOf(c.shelf)),
         op = "again" /\ c.do = "put" /\ r.is = "ok" /\ who \in cartRow => c.book \in cart'[who],
         \A b \in Moving \cap (cart[who] \cup owned[who]) : BoughtOrLost(b, who)' \/ Carried(b)',
         d # 0 /\ op = "toCart" /\ c.do = "put" =>
           /\ r.is = "conflict" => c.book \in owned'[who]
           /\ r.is = "ok" => r.items \subseteq cart'[who]
  PROVE  PastCartInv'
<1> USE DEF ShopInv
<1>1. /\ Calm(d, stack, stack') /\ DOMAIN stack' = DOMAIN stack /\ who \in Users
      /\ Grows /\ who' = who /\ torn \subseteq torn' /\ cartRow \subseteq cartRow'
  BY ServingIs DEF Serving
<1>2. d \in DOMAIN stack => \A b : CarriesBack(stack[d], b) => BoughtOrLost(b, who)' \/ Carried(b)'
  BY ServingCarries
<1>3. d \in DOMAIN stack' /\ PastCart(stack'[d]) =>
        \/ d \in DOMAIN stack /\ PastCart(stack[d]) /\ stack[d].cmd.book = stack'[d].cmd.book
        \/ \E b : b = stack'[d].cmd.book /\ (BoughtOrLost(b, who)' \/ Carried(b)')
  <2> SUFFICES ASSUME d \in DOMAIN stack', PastCart(stack'[d])
               PROVE  \/ PastCart(stack[d]) /\ stack[d].cmd.book = stack'[d].cmd.book
                      \/ \E b : b = stack'[d].cmd.book /\ BoughtOrLost(b, who)'
    BY <1>1
  <2>1. /\ d # 0 /\ stack[d].op = op /\ stack[d].cmd = c
        /\ stack'[d].op = op /\ stack'[d].cmd = c /\ stack'[d].got = r
    BY <1>1, ServingIs
  <2>2. CASE c.do # "put"
    BY <2>1, <2>2 DEF PastCart
  <2>3. CASE c.do = "put"
    <3>1. op = "toCart" /\ (r.is = "conflict" \/ (r.is = "ok" /\ c.book \in r.items))
      BY <2>1, <2>3 DEF PastCart, Good
    <3>2. c.book \in cart'[who] \cup owned'[who]
      BY <2>1, <2>3, <3>1
    <3> QED
      BY <1>1, <2>1, <3>2 DEF BoughtOrLost
  <2> QED
    BY <2>2, <2>3
<1> QED
  BY <1>1, <1>2, <1>3, PastCartStay

-----------------------------------------------------------------------------
(* The cart at the server, and the book page's requests.                   *)

\* A request that is served with a session is of the user who is signed in.
LEMMA SessionIs ==
  ASSUME ShopInv, session # Nobody
  PROVE  session = who /\ session \in Users
  BY LibraryAssumption DEF ShopInv, ServerInv

\* A request is refused, or asks for no more than a book.
LEMMA RefusedKeeps ==
  ASSUME ShopInv, wire # <<>>, ShopServed, NEW r, r # None, RefuseShopping(r),
         NEW c, c = Cmd,
         \/ r = Failed
         \/ r.is = "conflict" /\ c.do = "put" /\ session # Nobody /\ c.book \in owned[session]
         \/ /\ r.is = "ok" /\ c.do \in {"details", "review"}
            /\ c.do = "details" => r.book = c.book /\ r.mine \in BOOLEAN,
         reviews' = reviews \/ (PageFits => reviews' \subseteq meant),
         reviews' \subseteq Users \X Pages
  PROVE  ShopInv'
<1> USE DEF ShopInv
<1>1. PICK op, d : op = Head(wire).op /\ d = Head(wire).depth
  OBVIOUS
<1>2. /\ UNCHANGED <<shelves, session, who, lib, hearts, skewed, drifted, basket, page, meant, crossed>>
      /\ UNCHANGED <<cart, cartRow, owned, behind, kept, torn, misfilled>>
      /\ Reply(r, stack)
  BY DEF ShopServed, RefuseShopping, local
<1>3. Grows /\ WorldSame
  BY <1>2, GrowsSame DEF WorldSame
<1>4. Told(c, r)' /\ Current(c, r)' /\ (r.is = "ok" => c.do \in {"details", "review"})
  <2>1. r.is = "ok" => c.do \in {"details", "review"}
    BY Outcomes
  <2>2. r = Failed \/ r.is = "ok" \/ (r.is = "conflict" /\ c.do = "put")
    OBVIOUS
  <2>3. c.do \in {"details", "review"} => c.do \notin OfShelves /\ c.do \notin OfCart
    BY DEF OfShelves, OfCart, OnShelf
  <2> QED
    BY <2>1, <2>2, <2>3, Outcomes DEF Told, Current
<1>5. Serving(op, c, d, r, stack)
  BY <1>1, <1>2, <1>3, <1>4 DEF Serving, Replies, Reply, Late, Cmd
<1>6. WaitsInv' /\ PageInv' /\ GivenUpInv'
  BY <1>5, ServingWaits, ServingPage, ServingGivenUp
<1>7. ServerInv'
  BY <1>2 DEF ServerInv, OwnedNotInCart
<1>8. ClientInv'
  BY <1>2, <1>3, LibGrows DEF ClientInv
<1>9. ShelvesInv' /\ BasketInv' /\ HeartsInv'
  BY <1>2, <1>5, ServingShelves, ServingBasket, ServingHearts
<1>10. PurchasesInv'
  BY <1>2, PurchasesStay
<1>11. c.do # "add" \/ r.is # "ok"
  BY <1>4
<1>12. c.do # "put" \/ r.is # "ok"
  BY <1>4
<1>13. KeptInv'
  <2>1. Calm(d, stack, stack')
    BY <1>5, ServingIs
  <2>2. d \in DOMAIN stack => \A u \in Users : \A b :
           CarriesHome(stack[d], b, u) \/ (u = who /\ CarriesBack(stack[d], b)) => Has(b, u)'
    <3> SUFFICES ASSUME d \in DOMAIN stack, NEW u, NEW b,
                        CarriesHome(stack[d], b, u) \/ (u = who /\ CarriesBack(stack[d], b))
                 PROVE  Has(b, u)'
      OBVIOUS
    <3>1. CASE CarriesHome(stack[d], b, u)
      BY <1>5, <1>11, <1>12, <3>1, ServingCarries
    <3>2. CASE u = who /\ CarriesBack(stack[d], b)
      <4>1. BoughtOrLost(b, who)' \/ Carried(b)'
        BY <1>5, <1>11, <1>12, <3>2, ServingCarries
      <4> QED
        BY <1>2, <3>2, <4>1 DEF Has, BoughtOrLost
    <3> QED
      BY <3>1, <3>2
  <2> QED
    BY <1>2, <1>3, <2>1, <2>2, KeptStay
<1>14. PastCartInv'
  <2>1. \A b \in Moving \cap (cart[who] \cup owned[who]) : BoughtOrLost(b, who)'
    BY <1>2 DEF BoughtOrLost
  <2>2. c.do = "put" => /\ r.is = "conflict" => c.book \in owned'[who]
                        /\ r.is = "ok" => r.items \subseteq cart'[who]
    BY <1>2, <1>12, SessionIs DEF Failed
  <2> QED
    BY <1>5, <1>11, <1>12, <2>1, <2>2, ServingPastCart
<1> QED
  BY <1>6, <1>7, <1>8, <1>9, <1>10, <1>13, <1>14

\* The user's cart has other items. What it had is bought, or kept no more unless it
\* is on a shelf, or in a quantity that is set anew.
LEMMA CartKeeps ==
  ASSUME ShopInv, wire # <<>>, CartServed, session # Nobody, NEW c, c = Cmd, c.do \in OfCart,
         NEW items \in SUBSET Books, NEW off \in SUBSET Books, CartBecomes(items, off, Cart(items)),
         cartRow \subseteq cartRow', cartRow' \subseteq Users, items # {} => session \in cartRow',
         owned' \in [Users -> SUBSET Books], items \cap owned'[session] = {},
         \A u \in Users : owned[u] \subseteq owned'[u] /\ (u # session => owned'[u] = owned[u]),
         owned' = owned \/ behind', behind => behind',
         kept' \in [Users -> SUBSET Books], \A u \in Users : kept'[u] \subseteq kept[u],
         NEW half, half => /\ Head(wire).op = "again" /\ c.do = "take" /\ ~ Late
                           /\ session \in cartRow',
         \A b \in cart[session] :
           \/ b \in items \cup owned'[session]
           \/ half /\ b = c.book
           \/ b \in off /\ (b \in kept'[session] => b \in OnShelves(shelves, session)),
         c.do = "put" /\ session \in cartRow => c.book \in items
  PROVE  ShopInv'
<1> USE DEF ShopInv
<1>1. PICK op, d, r, v :
        /\ op = Head(wire).op /\ d = Head(wire).depth /\ r = Cart(items)
        /\ v = IF cart' # cart \/ owned' # owned THEN Aged(stack) ELSE stack
  OBVIOUS
<1>2. /\ UNCHANGED <<shelves, session, who, lib, hearts, skewed, drifted, basket, page, meant, crossed>>
      /\ UNCHANGED reviews
      /\ cart' = [cart EXCEPT ![session] = items] /\ torn' = torn \cup (Moving \cap off)
      /\ Reply(r, v) /\ (misfilled => misfilled') /\ (cart' # cart /\ d = 0 => misfilled')
  BY <1>1 DEF CartServed, ShopServed, CartBecomes, local, Late
<1>3. session = who /\ who \in Users
  BY SessionIs
<1>4. /\ cart' \in [Users -> SUBSET Books] /\ cart'[who] = items
      /\ \A u \in Users : u # who => cart'[u] = cart[u]
  BY <1>2, <1>3 DEF ServerInv
<1>5. Grows /\ (WorldSame \/ v = Aged(stack))
  BY <1>1, <1>2, GrowsSame DEF WorldSame
<1>6. r.is = "ok" /\ r.items = items /\ r # None /\ c.do \notin OfShelves /\ c.do # "details"
  BY <1>1, Outcomes DEF Cart, OfCart, OfShelves, OnShelf
<1>7. Told(c, r)' /\ Current(c, r)'
  BY <1>2, <1>4, <1>6, Outcomes DEF Told, Current
<1>8. Serving(op, c, d, r, v)
  <2>1. Replies(wire, stack, r, v, wire', stack')
    BY <1>1, <1>2 DEF Replies, Reply, Late
  <2> QED
    BY <1>1, <1>2, <1>5, <1>6, <1>7, <2>1 DEF Serving, Cmd
<1>9. WaitsInv' /\ PageInv' /\ GivenUpInv'
  BY <1>8, ServingWaits, ServingPage, ServingGivenUp
<1>10. ServerInv'
  <2>1. OwnedNotInCart'
    BY <1>2, <1>3, <1>4 DEF ServerInv, OwnedNotInCart
  <2>2. \A u \in Users : cart'[u] # {} => u \in cartRow'
    BY <1>2, <1>3, <1>4 DEF ServerInv
  <2> QED
    BY <1>2, <1>4, <2>1, <2>2 DEF ServerInv
<1>11. ClientInv'
  <2>1. torn' \subseteq Books
    BY <1>2 DEF ClientInv
  <2>2. PICK l : l = lib
    OBVIOUS
  <2>3. IsLib(l)'
    BY <1>5, <2>2, LibGrows DEF ClientInv
  <2> QED
    BY <1>2, <2>1, <2>2, <2>3 DEF ClientInv
<1>12. ShelvesInv' /\ HeartsInv'
  BY <1>2, <1>8, ServingShelves, ServingHearts
<1>13. BasketInv'
  BY <1>2, <1>6, <1>8, ServingBasket
<1>14. PurchasesInv'
  BY <1>2, PurchasesStay DEF PurchasesInv
<1>15. /\ c.do # "add"
       /\ op = "again" /\ c.do = "put" /\ r.is = "ok" /\ who \in cartRow => c.book \in cart'[who]
  BY <1>3, <1>4 DEF OfCart
<1>16. half => \A b : b = c.book => Carried(b)'
  <2> SUFFICES ASSUME half PROVE Carried(c.book)'
    OBVIOUS
  <2>1. d # 0 /\ op = "again" /\ c.do = "take"
    BY <1>1 DEF Late
  <2>2. /\ d \in DOMAIN stack' /\ stack'[d].op = op /\ stack'[d].cmd = c /\ stack'[d].got = r
    BY <1>8, <2>1, ServingIs
  <2>3. CarriesBack(stack[d], c.book)'
    BY <1>2, <1>3, <1>6, <2>1, <2>2 DEF CarriesBack, Good
  <2> QED
    BY <2>2, <2>3 DEF Carried
<1>17. KeptInv'
  <2> SUFFICES ASSUME NEW u \in Users, NEW b \in kept'[u] PROVE Has(b, u)'
    BY DEF KeptInv
  <2>1. Has(b, u) /\ Calm(d, stack, stack')
    BY <1>8, ServingIs DEF KeptInv
  <2>2. b \in OnShelves(shelves, u) => Has(b, u)'
    BY <1>2 DEF Has, OnShelves, Mine
  <2>3. b \in cart[u] \cup owned[u] => Has(b, u)'
    <3>1. CASE u # who \/ b \in owned[u] \/ b \in items \cup owned'[who]
      BY <1>3, <1>4, <3>1 DEF Has, BoughtOrLost
    <3>2. CASE u = who /\ half /\ b = c.book
      BY <1>2, <1>16, <3>2 DEF Has
    <3>3. CASE u = who /\ b \in OnShelves(shelves, u)
      BY <2>2, <3>3
    <3> QED
      BY <1>3, <3>1, <3>2, <3>3
  <2>4. d \in DOMAIN stack /\ (CarriesHome(stack[d], b, u) \/ (u = who /\ CarriesBack(stack[d], b)))
          => Has(b, u)'
    <3> SUFFICES ASSUME d \in DOMAIN stack,
                        CarriesHome(stack[d], b, u) \/ (u = who /\ CarriesBack(stack[d], b))
                 PROVE  Has(b, u)'
      OBVIOUS
    <3>1. CASE CarriesHome(stack[d], b, u)
      BY <1>8, <1>15, <3>1, ServingCarries
    <3>2. CASE u = who /\ CarriesBack(stack[d], b)
      <4>1. BoughtOrLost(b, who)' \/ Carried(b)'
        BY <1>8, <1>15, <3>2, ServingCarries
      <4> QED
        BY <1>2, <3>2, <4>1 DEF Has, BoughtOrLost
    <3> QED
      BY <3>1, <3>2
  <2>5. who' = who /\ torn \subseteq torn'
    BY <1>2
  <2> QED
    BY <1>5, <2>1, <2>2, <2>3, <2>4, <2>5, HasStill
<1>18. PastCartInv'
  <2>1. ASSUME NEW b \in Moving \cap (cart[who] \cup owned[who])
        PROVE  BoughtOrLost(b, who)' \/ Carried(b)'
    <3>1. CASE b \in owned[who] \cup items \cup owned'[who]
      BY <1>2, <1>3, <1>4, <3>1 DEF BoughtOrLost
    <3>2. CASE half /\ b = c.book
      BY <1>16, <3>2
    <3>3. CASE b \in off
      BY <1>2, <3>3 DEF BoughtOrLost
    <3> QED
      BY <1>3, <3>1, <3>2, <3>3
  <2>2. /\ r.is = "conflict" => c.book \in owned'[who]
        /\ r.is = "ok" => r.items \subseteq cart'[who]
    BY <1>4, <1>6
  <2> QED
    BY <1>8, <1>15, <2>1, <2>2, ServingPastCart
<1> QED
  BY <1>9, <1>10, <1>11, <1>12, <1>13, <1>14, <1>17, <1>18

LEMMA AskedIs ==
  ASSUME ShopInv, wire # <<>>
  PROVE  /\ Head(wire) = wire[1] /\ 1 \in DOMAIN wire /\ Asks(Head(wire).op, Cmd)
         /\ who \in Users /\ Head(wire).depth \in Nat
<1>1. IsSeq(wire)
  BY DEF ShopInv, WaitsInv, Fits, Wired
<1>2. Head(wire) = wire[1] /\ 1 \in DOMAIN wire
  BY <1>1, TailSeq, SeqShape
<1>3. Asks(Head(wire).op, Cmd)
  BY <1>2 DEF Cmd, ShopInv, WaitsInv
<1>4. who \in Users
  BY DEF ShopInv, WaitsInv, ServerInv
<1>5. Head(wire).depth \in Nat
  BY <1>2 DEF ShopInv, WaitsInv, Fits, Wired, IsRequest
<1> QED
  BY <1>2, <1>3, <1>4, <1>5

LEMMA NobodyRefused ==
  ASSUME ShopInv, wire # <<>>, CartServed, RefuseShopping(Failed) PROVE ShopInv'
<1>1. PICK c, r : c = Cmd /\ r = Failed
  OBVIOUS
<1>2. ShopServed /\ reviews' = reviews /\ reviews' \subseteq Users \X Pages
  BY DEF CartServed, ShopInv, ServerInv
<1>3. RefuseShopping(r) /\ r # None
  BY <1>1, Outcomes
<1> QED
  BY <1>1, <1>2, <1>3, RefusedKeeps

\* handleGetCart, which makes the Carts row.
LEMMA HandleGetCartKeeps ==
  ASSUME ShopInv, HandleGetCart PROVE ShopInv'
<1>1. wire # <<>> /\ CartServed /\ Cmd.do = "cart"
  BY DEF HandleGetCart, Handle, Cmd
<1>2. CASE session = Nobody
  BY <1>1, <1>2, NobodyRefused DEF HandleGetCart
<1>3. CASE session # Nobody
  <2>1. PICK c, items, off, half : c = Cmd /\ items = cart[session] /\ off = {} /\ half = FALSE
    OBVIOUS
  <2>2. /\ UNCHANGED <<owned, behind, kept>> /\ CartBecomes(items, off, Cart(items))
        /\ cartRow' = cartRow \cup {session}
    BY <1>3, <2>1 DEF HandleGetCart, OpenCart
  <2>3. /\ session \in Users /\ items \in SUBSET Books /\ off \in SUBSET Books
        /\ items \cap owned[session] = {} /\ c.do = "cart" /\ c.do \in OfCart /\ ~ half
    BY <1>1, <1>3, <2>1, SessionIs DEF ShopInv, ServerInv, OwnedNotInCart, OfCart
  <2>4. owned \in [Users -> SUBSET Books] /\ kept \in [Users -> SUBSET Books] /\ cartRow \subseteq Users
    BY DEF ShopInv, ServerInv, ClientInv
  <2> QED
    BY <1>1, <1>3, <2>1, <2>2, <2>3, <2>4, CartKeeps
<1> QED
  BY <1>2, <1>3

\* handleAddToCart, which loses the first book of a user without a Carts row.
LEMMA HandleAddToCartKeeps ==
  ASSUME ShopInv, HandleAddToCart PROVE ShopInv'
<1>1. wire # <<>> /\ CartServed /\ Cmd.do = "put"
  BY DEF HandleAddToCart, Handle, Cmd
<1>2. CASE session = Nobody
  BY <1>1, <1>2, NobodyRefused DEF HandleAddToCart
<1>3. CASE session # Nobody /\ Cmd.book \in owned[session]
  <2>1. PICK c, r : c = Cmd /\ r = [is |-> "conflict"]
    OBVIOUS
  <2>2. ShopServed /\ reviews' = reviews /\ reviews' \subseteq Users \X Pages
    BY <1>1 DEF CartServed, ShopInv, ServerInv
  <2>3. RefuseShopping(r) /\ r.is = "conflict" /\ r # None
    BY <1>3, <2>1, Outcomes DEF HandleAddToCart
  <2> QED
    BY <1>1, <1>3, <2>1, <2>2, <2>3, RefusedKeeps
<1>4. CASE session # Nobody /\ Cmd.book \notin owned[session]
  <2>1. PICK c, items, off, half :
          /\ c = Cmd /\ off = {} /\ half = FALSE
          /\ items = IF session \in cartRow THEN cart[session] \cup {Cmd.book} ELSE cart[session]
    OBVIOUS
  <2>2. /\ UNCHANGED <<owned, behind, kept>> /\ CartBecomes(items, off, Cart(items))
        /\ cartRow' = cartRow \cup {session}
    BY <1>4, <2>1 DEF HandleAddToCart, OpenCart
  <2>3. c.do = "put" /\ c.book \in Books /\ session \in Users
    BY <1>1, <1>4, <2>1, AskedIs, SessionIs DEF Asks
  <2>4. owned \in [Users -> SUBSET Books] /\ kept \in [Users -> SUBSET Books] /\ cartRow \subseteq Users
    BY DEF ShopInv, ServerInv, ClientInv
  <2>5. /\ items \in SUBSET Books /\ off \in SUBSET Books
        /\ items \cap owned[session] = {} /\ c.do \in OfCart /\ ~ half
        /\ cart[session] \subseteq items
        /\ session \in cartRow => c.book \in items
    BY <1>1, <1>4, <2>1, <2>3 DEF ShopInv, ServerInv, OwnedNotInCart, OfCart
  <2> QED
    BY <1>1, <1>4, <2>1, <2>2, <2>3, <2>4, <2>5, CartKeeps
<1> QED
  BY <1>2, <1>3, <1>4

\* handleRemoveFromCart, alone or as the first half of setQuantity.
LEMMA HandleRemoveFromCartKeeps ==
  ASSUME ShopInv, HandleRemoveFromCart PROVE ShopInv'
<1>1. wire # <<>> /\ CartServed /\ Cmd.do = "take"
  BY DEF HandleRemoveFromCart, Handle, Cmd
<1>2. CASE session = Nobody
  BY <1>1, <1>2, NobodyRefused DEF HandleRemoveFromCart
<1>3. CASE session # Nobody
  <2>1. PICK c, items, off, half :
          /\ c = Cmd /\ items = cart[session] \ {Cmd.book}
          /\ half = (Head(wire).op = "again" /\ ~ Late)
          /\ off = IF half THEN {} ELSE cart[session] \ items
    OBVIOUS
  <2>2. /\ UNCHANGED <<owned, behind>> /\ CartBecomes(items, off, Cart(items))
        /\ cartRow' = cartRow \cup {session}
        /\ kept' = IF half THEN kept
                   ELSE [kept EXCEPT ![session] = @ \cap (Elsewhere(session) \cup items)]
    BY <1>3, <2>1 DEF HandleRemoveFromCart, OpenCart
  <2>3. c.do = "take" /\ c.book \in Books /\ session \in Users /\ c.do \in OfCart
    BY <1>1, <1>3, <2>1, AskedIs, SessionIs DEF Asks, OfCart
  <2>4. owned \in [Users -> SUBSET Books] /\ kept \in [Users -> SUBSET Books] /\ cartRow \subseteq Users
    BY DEF ShopInv, ServerInv, ClientInv
  <2>5. /\ items \in SUBSET Books /\ off \in SUBSET Books /\ items \cap owned[session] = {}
        /\ items # {} => session \in cartRow'
    BY <2>1, <2>2, <2>3 DEF ShopInv, ServerInv, OwnedNotInCart
  <2>6. /\ kept' \in [Users -> SUBSET Books] /\ \A u \in Users : kept'[u] \subseteq kept[u]
        /\ ~ half => kept'[session] \subseteq OnShelves(shelves, session) \cup owned[session] \cup items
    BY <2>2, <2>3, <2>4 DEF Elsewhere
  <2>7. \A b \in cart[session] :
           \/ b \in items \cup owned[session]
           \/ half /\ b = c.book
           \/ b \in off /\ (b \in kept'[session] => b \in OnShelves(shelves, session))
    BY <2>1, <2>3, <2>4, <2>5, <2>6 DEF ShopInv, ServerInv, OwnedNotInCart
  <2>8. half => Head(wire).op = "again" /\ ~ Late /\ session \in cartRow'
    BY <2>1, <2>2
  <2> QED
    BY <1>1, <1>3, <2>1, <2>2, <2>3, <2>4, <2>5, <2>6, <2>7, <2>8, CartKeeps
<1> QED
  BY <1>2, <1>3

\* handleClearCart.
LEMMA HandleClearCartKeeps ==
  ASSUME ShopInv, HandleClearCart PROVE ShopInv'
<1>1. wire # <<>> /\ CartServed /\ Cmd.do = "empty"
  BY DEF HandleClearCart, Handle, Cmd
<1>2. CASE session = Nobody
  BY <1>1, <1>2, NobodyRefused DEF HandleClearCart
<1>3. CASE session # Nobody
  <2>1. PICK c, items, off, half :
          c = Cmd /\ items = {} /\ off = cart[session] /\ half = FALSE
    OBVIOUS
  <2>2. /\ UNCHANGED <<owned, behind, cartRow>> /\ CartBecomes(items, off, Cart(items))
        /\ kept' = [kept EXCEPT ![session] = @ \cap Elsewhere(session)]
    BY <1>3, <2>1 DEF HandleClearCart
  <2>3. c.do = "empty" /\ session \in Users /\ c.do \in OfCart /\ ~ half
    BY <1>1, <1>3, <2>1, SessionIs DEF OfCart
  <2>4. owned \in [Users -> SUBSET Books] /\ kept \in [Users -> SUBSET Books] /\ cartRow \subseteq Users
    BY DEF ShopInv, ServerInv, ClientInv
  <2>5. items \in SUBSET Books /\ off \in SUBSET Books /\ items \cap owned[session] = {} /\ items = {}
    BY <2>1, <2>3 DEF ShopInv, ServerInv
  <2>6. /\ kept' \in [Users -> SUBSET Books] /\ \A u \in Users : kept'[u] \subseteq kept[u]
        /\ kept'[session] \subseteq OnShelves(shelves, session) \cup owned[session]
    BY <2>2, <2>3, <2>4 DEF Elsewhere
  <2>7. \A b \in cart[session] : b \in off /\ (b \in kept'[session] => b \in OnShelves(shelves, session))
    BY <2>1, <2>3, <2>6 DEF ShopInv, ServerInv, OwnedNotInCart
  <2> QED
    BY <1>1, <1>3, <2>1, <2>2, <2>3, <2>4, <2>5, <2>6, <2>7, CartKeeps
<1> QED
  BY <1>2, <1>3

\* handleCheckout: what is in the cart is owned.
LEMMA HandleCheckoutKeeps ==
  ASSUME ShopInv, HandleCheckout PROVE ShopInv'
<1>1. wire # <<>> /\ CartServed /\ Cmd.do = "checkout"
  BY DEF HandleCheckout, Handle, Cmd
<1>2. CASE session = Nobody \/ cart[session] = {}
  BY <1>1, <1>2, NobodyRefused DEF HandleCheckout
<1>3. CASE session # Nobody /\ cart[session] # {}
  <2>1. PICK c, items, off, half : c = Cmd /\ items = {} /\ off = {} /\ half = FALSE
    OBVIOUS
  <2>2. /\ owned' = [owned EXCEPT ![session] = @ \cup cart[session]]
        /\ behind' = TRUE /\ UNCHANGED kept /\ CartBecomes(items, off, Cart(items))
        /\ cartRow' = cartRow \cup {session}
    BY <1>3, <2>1 DEF HandleCheckout, OpenCart
  <2>3. c.do = "checkout" /\ session \in Users /\ c.do \in OfCart /\ ~ half
    BY <1>1, <1>3, <2>1, SessionIs DEF OfCart
  <2>4. owned \in [Users -> SUBSET Books] /\ kept \in [Users -> SUBSET Books] /\ cartRow \subseteq Users
    BY DEF ShopInv, ServerInv, ClientInv
  <2>5. /\ items \in SUBSET Books /\ off \in SUBSET Books /\ items \cap owned'[session] = {}
        /\ items = {}
    BY <2>1
  <2>6. /\ owned' \in [Users -> SUBSET Books] /\ owned'[session] = owned[session] \cup cart[session]
        /\ \A u \in Users : owned[u] \subseteq owned'[u] /\ (u # session => owned'[u] = owned[u])
    BY <2>2, <2>3 DEF ShopInv, ServerInv
  <2>7. \A b \in cart[session] : b \in items \cup owned'[session]
    BY <2>6
  <2> QED
    BY <1>1, <1>3, <2>1, <2>2, <2>3, <2>4, <2>5, <2>6, <2>7, CartKeeps
<1> QED
  BY <1>2, <1>3

\* handleGetBookDetails answers with the book that was asked for.
LEMMA HandleGetBookDetailsKeeps ==
  ASSUME ShopInv, HandleGetBookDetails PROVE ShopInv'
<1>1. wire # <<>> /\ CartServed /\ Cmd.do = "details"
  BY DEF HandleGetBookDetails, Handle, Cmd
<1>2. CASE session = Nobody
  BY <1>1, <1>2, NobodyRefused DEF HandleGetBookDetails
<1>3. CASE session # Nobody
  <2>1. PICK c, r : c = Cmd /\ r = [is |-> "ok", book |-> Cmd.book,
                                    mine |-> <<session, Cmd.book>> \in reviews]
    OBVIOUS
  <2>2. ShopServed /\ reviews' = reviews /\ reviews' \subseteq Users \X Pages
    BY <1>1 DEF CartServed, ShopInv, ServerInv
  <2>3. RefuseShopping(r) /\ r.is = "ok" /\ r.book = c.book /\ r.mine \in BOOLEAN /\ r # None
    <3>1. r.is = "ok" /\ r.book = c.book /\ r.mine \in BOOLEAN
      BY <2>1
    <3> QED
      BY <1>3, <2>1, <3>1, Outcomes DEF HandleGetBookDetails
  <2> QED
    BY <1>1, <2>1, <2>2, <2>3, RefusedKeeps
<1> QED
  BY <1>2, <1>3

\* handleSubmitReview stores only a review its reader meant.
LEMMA HandleSubmitReviewKeeps ==
  ASSUME ShopInv, HandleSubmitReview PROVE ShopInv'
<1>1. wire # <<>> /\ ShopServed /\ Cmd.do = "review"
  BY DEF HandleSubmitReview, Handle, Cmd
<1>2. CASE session = Nobody
  BY <1>1, <1>2, NobodyRefused DEF HandleSubmitReview, CartServed
<1>3. CASE session # Nobody
  <2>1. PICK c, r : c = Cmd /\ r = [is |-> "ok"]
    OBVIOUS
  <2>2. RefuseShopping(r) /\ r.is = "ok" /\ reviews' = reviews \cup {<<session, c.book>>}
    BY <1>3, <2>1 DEF HandleSubmitReview
  <2>3. session = who /\ who \in Users /\ c.book \in Pages /\ c.do = "review"
    BY <1>1, <1>3, <2>1, AskedIs, SessionIs DEF Asks
  <2>4. PageFits => reviews' \subseteq meant
    BY <1>1, <2>1, <2>2, <2>3, AskedIs DEF PageFits, Cmd
  <2>5. reviews' \subseteq Users \X Pages /\ r # None
    BY <2>2, <2>3, Outcomes DEF ShopInv, ServerInv
  <2> QED
    BY <1>1, <2>1, <2>2, <2>3, <2>4, <2>5, RefusedKeeps
<1> QED
  BY <1>2, <1>3

\* Every request of the cart and of the page may be served.
LEMMA ShopServerKeeps ==
  ASSUME ShopInv, ShopServer PROVE ShopInv'
  BY HandleGetCartKeeps, HandleAddToCartKeeps, HandleRemoveFromCartKeeps, HandleClearCartKeeps,
     HandleCheckoutKeeps, HandleGetBookDetailsKeeps, HandleSubmitReviewKeeps DEF ShopServer

-----------------------------------------------------------------------------
(* The shelves at the server.                                              *)

\* Changing a row leaves a table of rows.
LEMMA RowSet ==
  ASSUME NEW all \in Seq(Row), NEW s \in DOMAIN all, NEW e \in Row,
         NEW new, new = [all EXCEPT ![s] = e]
  PROVE  /\ new \in Seq(Row) /\ DOMAIN new = DOMAIN all /\ Len(new) = Len(all) /\ new[s] = e
         /\ \A t \in DOMAIN all : t # s => new[t] = all[t]
<1>1. /\ Len(all) \in Nat /\ DOMAIN all = 1 .. Len(all)
      /\ \A t \in DOMAIN all : all[t] \in Row
  BY LenProperties, ElementOfSeq
<1>2. DOMAIN new = DOMAIN all /\ new[s] = e /\ \A t \in DOMAIN all : t # s => new[t] = all[t]
  OBVIOUS
<1>3. new \in [1 .. Len(all) -> Row]
  <2>1. \A t \in 1 .. Len(all) : new[t] \in Row
    BY <1>1, <1>2
  <2>2. new = [t \in 1 .. Len(all) |-> new[t]]
    BY <1>1
  <2> QED
    BY <2>1, <2>2
<1>4. new \in Seq(Row)
  BY <1>1, <1>3, SeqDef
<1>5. DOMAIN new = 1 .. Len(new) /\ Len(new) \in Nat
  BY <1>4, LenProperties
<1> QED
  BY <1>1, <1>2, <1>4, <1>5

\* So does adding one.
LEMMA RowPushed ==
  ASSUME NEW all \in Seq(Row), NEW e \in Row, NEW new, new = Append(all, e)
  PROVE  /\ new \in Seq(Row) /\ Len(new) = Len(all) + 1 /\ Len(all) \in Nat
         /\ DOMAIN all = 1 .. Len(all) /\ DOMAIN new = 1 .. Len(new) /\ new[Len(new)] = e
         /\ \A t \in DOMAIN all : t \in DOMAIN new /\ new[t] = all[t]
<1>1. /\ new \in Seq(Row) /\ Len(new) = Len(all) + 1 /\ new[Len(all) + 1] = e
      /\ \A i \in 1 .. Len(all) : new[i] = all[i]
  BY AppendProperties
<1>2. /\ Len(all) \in Nat /\ DOMAIN all = 1 .. Len(all) /\ DOMAIN new = 1 .. Len(new)
  BY <1>1, LenProperties
<1> QED
  BY <1>1, <1>2

\* What is listed is a list of one user's shelves.
LEMMA ListingFits ==
  ASSUME shelves' \in Seq(Row), NEW u, NEW l, l = Listing(shelves', u)
  PROVE  IsListing(l)' /\ (Mine(shelves', u) # {} => l # <<>>)
<1>1. PICK all \in Seq(Row) : all = shelves'
  OBVIOUS
<1>2. /\ IsSeq(l)
      /\ \A i \in DOMAIN l : l[i].id \in Mine(all, u) /\ l[i] = ListedShelf(all, l[i].id)
      /\ Mine(all, u) # {} => l # <<>>
  BY <1>1, ListingIs
<1>3. \A s \in Mine(all, u) : s \in DOMAIN all /\ all[s].owner = u /\ all[s] \in Row
  BY ElementOfSeq, LenProperties DEF Mine
<1>4. ASSUME NEW i \in DOMAIN l PROVE IsListed(l[i])' /\ OwnerOf(l[i].id)' = u
  <2>1. PICK s, e : s = l[i].id /\ e = l[i]
    OBVIOUS
  <2>2. s \in DOMAIN all /\ all[s].owner = u /\ all[s] \in Row /\ e = ListedShelf(all, s)
    BY <1>2, <1>3, <2>1
  <2>3. IsListed(e)'
    <3>1. e = [id |-> e.id, name |-> e.name, sort |-> e.sort, books |-> e.books]
      BY <2>2 DEF ListedShelf
    <3>2. /\ e.id = s /\ e.name = all[s].name /\ e.sort = all[s].sort /\ e.books = all[s].books
      BY <2>2 DEF ListedShelf
    <3>3. all[s].name \in Nat /\ all[s].sort \in Int /\ all[s].books \subseteq Books
      BY <2>2 DEF Row
    <3> QED
      BY <1>1, <2>2, <3>1, <3>2, <3>3 DEF IsListed
  <2> QED
    BY <1>1, <2>1, <2>2, <2>3 DEF OwnerOf
<1>5. IsListing(l)'
  BY <1>2, <1>4 DEF IsListing
<1> QED
  BY <1>1, <1>2, <1>5

OtherSame ==
  /\ UNCHANGED <<cart, cartRow, basket, pageVars>> /\ (misfilled => misfilled')

\* An answer with the list is one the command that waits may be told.
LEMMA AnswerServes ==
  ASSUME ShopInv, wire # <<>>, ServerDone, OtherSame, Grows,
         NEW op, NEW c, NEW d, NEW r, NEW all, NEW v,
         op = Head(wire).op, c = Head(wire).cmd, d = Head(wire).depth,
         v = IF all # shelves THEN Aged(stack) ELSE stack,
         r # None, Answer(all, r), Told(c, r)', Current(c, r)'
  PROVE  Serving(op, c, d, r, v)
<1>1. /\ UNCHANGED <<owned, session, who, lib, hearts, torn, cart, cartRow, basket>>
      /\ UNCHANGED <<page, meant, crossed, reviews>>
      /\ shelves' = all
  BY DEF ServerDone, OtherSame, Answer, pageVars, local
<1>2. Replies(wire, stack, r, v, wire', stack')
  BY DEF Answer, Reply, Late, Replies
<1>3. WorldSame \/ v = Aged(stack)
  BY <1>1 DEF WorldSame
<1> QED
  BY <1>1, <1>2, <1>3 DEF Serving

\* Any answer of LibraryRequestHandler keeps the invariant if what changed on
\* the shelves does.
LEMMA AnswerKeeps ==
  ASSUME ShopInv, ServerDone, OtherSame,
         NEW op, NEW c, NEW d, NEW r, NEW all, NEW v,
         v = IF all # shelves THEN Aged(stack) ELSE stack,
         Answer(all, r), Serving(op, c, d, r, v),
         all = shelves \/ (r.is = "ok" /\ c.do \in OfShelves),
         r.is = "ok" => c.do \in OfShelves,
         r.is # "conflict",
         \/ op # "heart" \/ d = 0
         \/ Wished(all) = Wished(shelves)
         \/ c.do # "get" /\ r.is = "ok" /\ (hearts = Wished(shelves) => Applied(c, hearts) = Wished(all)),
         op = "move" /\ c.do = "add" /\ r.is = "ok" => c.book \in OnShelves(all, OwnerOf(c.shelf)),
         kept' \in [Users -> SUBSET Books],
         \A u \in Users : \A b \in kept'[u] :
           \/ b \in OnShelves(all, u)
           \/ b \in kept[u] /\ (b \in OnShelves(shelves, u) => Held(b, u))
  PROVE  ShopInv'
<1> USE DEF ShopInv
<1>1. /\ UNCHANGED <<owned, session, who, lib, hearts, torn, behind, cart, cartRow, basket>>
      /\ UNCHANGED <<page, meant, crossed, reviews>>
      /\ shelves' = all /\ (misfilled => misfilled')
  BY DEF ServerDone, OtherSame, Answer, pageVars, local
<1>2. /\ op = Head(wire).op /\ c = Head(wire).cmd /\ d = Head(wire).depth /\ Grows /\ r # None
  BY DEF Serving
<1>3. WaitsInv' /\ PageInv' /\ GivenUpInv'
  BY ServingWaits, ServingPage, ServingGivenUp
<1>4. ServerInv'
  BY <1>1, <1>2 DEF ServerInv, OwnedNotInCart, Grows
<1>5. ClientInv'
  <2>1. PICK l : l = lib
    OBVIOUS
  <2>2. IsLib(l)'
    BY <1>2, <2>1, LibGrows DEF ClientInv
  <2> QED
    BY <1>1, <2>1, <2>2 DEF ClientInv
<1>6. ShelvesInv'
  <2>1. Asks(op, c)
    BY ServingIs
  <2>2. c.do \in OfShelves /\ op \notin {"heart", "hearts"} => op \in Refills
    BY <2>1 DEF Asks, Sends, OfShelves, OnShelf, Refills
  <2>3. /\ skewed => skewed'
        /\ \/ shelves' = shelves \/ skewed'
           \/ d # 0 /\ op \notin {"heart", "hearts"}
    BY <1>1, <1>2 DEF Answer, Late
  <2> QED
    BY <1>1, <2>2, <2>3, ServingShelves
<1>7. PurchasesInv' /\ BasketInv'
  BY <1>1, PurchasesStay, ServingBasket
<1>8. HeartsInv'
  <2>1. /\ drifted => drifted'
        /\ Wished(all) = Wished(shelves) \/ drifted' \/ (d # 0 /\ op = "heart")
    BY <1>1, <1>2 DEF Answer, Late
  <2>2. Wished(shelves)' = Wished(all)
    BY <1>1 DEF Wished
  <2>3. shelves' = shelves \/ v = Aged(stack)
    BY <1>1
  <2> QED
    BY <2>1, <2>2, <2>3, ServingHearts
<1>9. /\ op = "again" /\ c.do = "put" /\ r.is = "ok" /\ who \in cartRow => c.book \in cart'[who]
      /\ op = "move" /\ c.do = "add" /\ r.is = "ok" => c.book \in OnShelves(shelves', OwnerOf(c.shelf))
  BY <1>1 DEF OfShelves, OnShelf
<1>10. KeptInv'
  <2> SUFFICES ASSUME NEW u \in Users, NEW b \in kept'[u] PROVE Has(b, u)'
    BY DEF KeptInv
  <2>1. CASE b \in OnShelves(all, u)
    BY <1>1, <2>1 DEF Has, OnShelves, Mine
  <2>2. CASE b \in kept[u] /\ (b \in OnShelves(shelves, u) => Held(b, u))
    <3>1. Held(b, u) /\ Calm(d, stack, stack')
      BY <2>2, HasHeld, ServingIs DEF KeptInv
    <3>2. b \in cart[u] \cup owned[u] => Has(b, u)'
      BY <1>1 DEF Has, BoughtOrLost
    <3>3. d \in DOMAIN stack /\ (CarriesHome(stack[d], b, u) \/ (u = who /\ CarriesBack(stack[d], b)))
            => Has(b, u)'
      <4> SUFFICES ASSUME d \in DOMAIN stack,
                          CarriesHome(stack[d], b, u) \/ (u = who /\ CarriesBack(stack[d], b))
                   PROVE  Has(b, u)'
        OBVIOUS
      <4>1. CASE CarriesHome(stack[d], b, u)
        BY <1>9, <4>1, ServingCarries
      <4>2. CASE u = who /\ CarriesBack(stack[d], b)
        <5>1. BoughtOrLost(b, who)' \/ Carried(b)'
          BY <1>9, <4>2, ServingCarries
        <5> QED
          BY <1>1, <4>2, <5>1 DEF Has, BoughtOrLost
      <4> QED
        BY <4>1, <4>2
    <3> QED
      BY <1>1, <1>2, <3>1, <3>2, <3>3, HeldStill
  <2> QED
    BY <2>1, <2>2
<1>11. PastCartInv'
  <2>1. \A b \in Moving \cap (cart[who] \cup owned[who]) : BoughtOrLost(b, who)'
    BY <1>1 DEF BoughtOrLost
  <2>2. r.is = "ok" => c.do # "put"
    BY DEF OfShelves, OnShelf
  <2> QED
    BY <1>9, <2>1, <2>2, ServingPastCart
<1> QED
  BY <1>3, <1>4, <1>5, <1>6, <1>7, <1>8, <1>10, <1>11

\* A refusal changes nothing at the server.
LEMMA RefuseKeeps ==
  ASSUME ShopInv, wire # <<>>, ServerDone, OtherSame, Refuse PROVE ShopInv'
<1>1. PICK op, c, d, r, all, v :
        /\ op = Head(wire).op /\ c = Head(wire).cmd /\ d = Head(wire).depth /\ r = Failed
        /\ all = shelves /\ v = IF all # shelves THEN Aged(stack) ELSE stack
  OBVIOUS
<1>2. Answer(all, r) /\ kept' = kept /\ shelves' = shelves
  BY <1>1 DEF Refuse, Answer
<1>3. Grows
  BY <1>2, GrowsSame DEF ShopInv
<1>4. r # None /\ r.is # "ok" /\ r.is # "conflict"
  BY <1>1, Outcomes DEF Failed
<1>5. Told(c, r)' /\ Current(c, r)'
  BY <1>1, <1>4 DEF Told, Current
<1>6. Serving(op, c, d, r, v)
  BY <1>1, <1>2, <1>3, <1>4, <1>5, AnswerServes
<1>7. /\ kept' \in [Users -> SUBSET Books]
      /\ \A u \in Users : \A b \in kept'[u] :
           b \in OnShelves(all, u) \/ (b \in kept[u] /\ b \notin OnShelves(shelves, u))
  BY <1>1, <1>2 DEF ShopInv, ClientInv
<1> QED
  BY <1>1, <1>2, <1>4, <1>6, <1>7, AnswerKeeps

\* The reply lists the shelves, as they are then.
LEMMA ListedKeeps ==
  ASSUME ShopInv, wire # <<>>, ServerDone, OtherSame, session # Nobody,
         NEW op, NEW c, NEW d,
         op = Head(wire).op, c = Head(wire).cmd, d = Head(wire).depth, c.do \in OfShelves,
         NEW all \in Seq(Row), DOMAIN shelves \subseteq DOMAIN all,
         \A s \in DOMAIN shelves : all[s].owner = shelves[s].owner,
         NEW n, Answer(all, Listed(all, n)),
         c.do = "create" => Mine(all, who) # {},
         \/ op # "heart" \/ d = 0
         \/ Wished(all) = Wished(shelves)
         \/ c.do # "get" /\ (hearts = Wished(shelves) => Applied(c, hearts) = Wished(all)),
         op = "move" /\ c.do = "add" => c.book \in OnShelves(all, OwnerOf(c.shelf)),
         kept' \in [Users -> SUBSET Books],
         \A u \in Users : \A b \in kept'[u] :
           \/ b \in OnShelves(all, u)
           \/ b \in kept[u] /\ (b \in OnShelves(shelves, u) => Held(b, u))
  PROVE  ShopInv'
<1>1. PICK r, v, l :
        /\ r = Listed(all, n) /\ v = IF all # shelves THEN Aged(stack) ELSE stack
        /\ l = Listing(all, session)
  OBVIOUS
<1>2. /\ shelves' = all /\ Answer(all, r) /\ UNCHANGED <<owned, session, who>>
      /\ session = who /\ who \in Users
  BY <1>1, SessionIs DEF Answer, ServerDone
<1>3. Grows
  BY <1>2 DEF Grows
<1>4. /\ r.is = "ok" /\ r.shelves = l /\ r.owned = owned[session]
      /\ r # None /\ r.is # "conflict"
  <2>1. r.is = "ok" /\ r.shelves = l /\ r.owned = owned[session]
    BY <1>1 DEF Listed
  <2> QED
    BY <2>1, Outcomes
<1>5. Told(c, r)'
  <2>1. IsListing(l)' /\ (Mine(all, who) # {} => l # <<>>)
    BY <1>1, <1>2, ListingFits
  <2>2. r.owned \subseteq Books /\ c.do \notin OfCart /\ c.do # "details"
    BY <1>2, <1>4 DEF ShopInv, ServerInv, OfShelves, OfCart, OnShelf
  <2> QED
    BY <1>4, <2>1, <2>2 DEF Told
<1>6. Current(c, r)'
  <2>1. c.do \notin OfCart
    BY DEF OfShelves, OfCart, OnShelf
  <2> QED
    BY <1>1, <1>2, <1>4, <2>1 DEF Current
<1>7. Serving(op, c, d, r, v)
  BY <1>1, <1>2, <1>3, <1>4, <1>5, <1>6, AnswerServes
<1> QED
  BY <1>1, <1>2, <1>4, <1>7, AnswerKeeps

\* The shelves of a user hold what they did if no shelf loses a book.
LEMMA ShelvesHold ==
  ASSUME NEW all, NEW new, NEW u, DOMAIN all \subseteq DOMAIN new,
         \A s \in DOMAIN all : /\ new[s].owner = all[s].owner /\ (all[s].live => new[s].live)
                               /\ all[s].books \subseteq new[s].books
  PROVE  OnShelves(all, u) \subseteq OnShelves(new, u)
<1>1. \A s \in Mine(all, u) : s \in Mine(new, u) /\ all[s].books \subseteq new[s].books
  BY DEF Mine
<1> QED
  BY <1>1 DEF OnShelves

\* A shelf is added: it is the user's, and has no books.
LEMMA ShelfAdded ==
  ASSUME ShopInv, NEW u \in Users, NEW n \in Nat, NEW all, all = Append(shelves, Shelf(u, n, 0))
  PROVE  /\ all \in Seq(Row) /\ DOMAIN shelves \subseteq DOMAIN all
         /\ \A s \in DOMAIN shelves : all[s] = shelves[s]
         /\ Mine(all, u) # {} /\ all[Len(all)].books = {}
         /\ \A s \in DOMAIN all : s = Len(all) \/ s \in DOMAIN shelves
         /\ \A w : OnShelves(shelves, w) \subseteq OnShelves(all, w)
<1>1. PICK e : e = Shelf(u, n, 0)
  OBVIOUS
<1>2. e \in Row /\ e.owner = u /\ e.live = TRUE /\ e.books = {}
  BY <1>1 DEF Shelf, Row
<1>3. shelves \in Seq(Row) /\ all = Append(shelves, e)
  BY <1>1 DEF ShopInv, ServerInv
<1>4. /\ all \in Seq(Row) /\ Len(all) = Len(shelves) + 1 /\ Len(shelves) \in Nat
      /\ DOMAIN shelves = 1 .. Len(shelves) /\ DOMAIN all = 1 .. Len(all) /\ all[Len(all)] = e
      /\ \A t \in DOMAIN shelves : t \in DOMAIN all /\ all[t] = shelves[t]
  BY <1>2, <1>3, RowPushed
<1>5. Len(all) \in Mine(all, u)
  BY <1>2, <1>4 DEF Mine
<1>6. \A w : OnShelves(shelves, w) \subseteq OnShelves(all, w)
  BY <1>4, ShelvesHold
<1> QED
  BY <1>2, <1>4, <1>5, <1>6

\* handleCreateShelf.
LEMMA HandleCreateShelfKeeps ==
  ASSUME ShopInv, HandleCreateShelf, OtherSame PROVE ShopInv'
<1>1. wire # <<>> /\ ServerDone /\ Cmd.do = "create"
  BY DEF HandleCreateShelf, Handle, Cmd
<1>2. CASE session = Nobody
  BY <1>1, <1>2, RefuseKeeps DEF HandleCreateShelf
<1>3. CASE session # Nobody
  <2>1. PICK op, c, d, all, n :
          /\ op = Head(wire).op /\ c = Head(wire).cmd /\ d = Head(wire).depth
          /\ all = Append(shelves, Shelf(session, Cmd.name, 0)) /\ n = Len(all)
    OBVIOUS
  <2>2. Answer(all, Listed(all, n)) /\ kept' = kept
    BY <1>3, <2>1 DEF HandleCreateShelf
  <2>3. Asks(op, c) /\ c.do = "create" /\ c = Cmd
    BY <1>1, <2>1, AskedIs DEF Cmd
  <2>4. c.name \in Nat /\ op \notin {"heart", "move"} /\ c.do \in OfShelves
    BY <2>3 DEF Asks, Sends, OnShelf, OfShelves
  <2>5. session = who /\ session \in Users
    BY <1>3, SessionIs
  <2>6. /\ all \in Seq(Row) /\ DOMAIN shelves \subseteq DOMAIN all
        /\ \A s \in DOMAIN shelves : all[s] = shelves[s]
        /\ Mine(all, session) # {}
        /\ \A w : OnShelves(shelves, w) \subseteq OnShelves(all, w)
    BY <2>1, <2>3, <2>4, <2>5, ShelfAdded
  <2>7. /\ kept' \in [Users -> SUBSET Books]
        /\ \A u \in Users : \A b \in kept'[u] :
             b \in OnShelves(all, u) \/ (b \in kept[u] /\ b \notin OnShelves(shelves, u))
    BY <2>2, <2>6 DEF ShopInv, ClientInv
  <2> QED
    BY <1>1, <1>3, <2>1, <2>2, <2>3, <2>4, <2>5, <2>6, <2>7, ListedKeeps
<1> QED
  BY <1>2, <1>3

\* handleGetLibrary, which makes the wishlist when there is none.
LEMMA HandleGetLibraryKeeps ==
  ASSUME ShopInv, HandleGetLibrary, OtherSame PROVE ShopInv'
<1>1. wire # <<>> /\ ServerDone /\ Cmd.do = "get"
  BY DEF HandleGetLibrary, Handle, Cmd
<1>2. CASE session = Nobody
  BY <1>1, <1>2, RefuseKeeps DEF HandleGetLibrary
<1>3. CASE session # Nobody
  <2>1. PICK op, c, d, all, n, new :
          /\ op = Head(wire).op /\ c = Head(wire).cmd /\ d = Head(wire).depth /\ n = 0
          /\ new = Append(shelves, Shelf(session, Wishlist, 0))
          /\ all = IF WishPlace(Listing(shelves, session)) # 0 THEN shelves ELSE new
    OBVIOUS
  <2>2. Answer(all, Listed(all, n)) /\ kept' = kept
    BY <1>3, <2>1 DEF HandleGetLibrary, Serve
  <2>3. Asks(op, c) /\ c.do = "get" /\ c = Cmd /\ c.do \in OfShelves
    BY <1>1, <2>1, AskedIs DEF Cmd, OfShelves
  <2>4. session = who /\ session \in Users /\ Wishlist \in Nat /\ shelves \in Seq(Row) /\ who # Nobody
    BY <1>3, SessionIs, LibraryAssumption DEF ShopInv, ServerInv
  <2>5. /\ new \in Seq(Row) /\ DOMAIN shelves \subseteq DOMAIN new
        /\ \A s \in DOMAIN shelves : new[s] = shelves[s]
        /\ new[Len(new)].books = {}
        /\ \A s \in DOMAIN new : s = Len(new) \/ s \in DOMAIN shelves
        /\ \A w : OnShelves(shelves, w) \subseteq OnShelves(new, w)
    BY <2>1, <2>4, ShelfAdded
  <2>6. /\ all \in Seq(Row) /\ DOMAIN shelves \subseteq DOMAIN all
        /\ \A s \in DOMAIN shelves : all[s].owner = shelves[s].owner
        /\ \A w : OnShelves(shelves, w) \subseteq OnShelves(all, w)
    BY <2>1, <2>4, <2>5
  <2>7. Wished(all) = Wished(shelves)
    <3>1. CASE all = shelves
      BY <3>1
    <3>2. CASE WishPlace(Listing(shelves, who)) = 0 /\ all = new
      <4>1. PICK k, l : k = Listing(shelves, who) /\ l = Listing(new, who)
        OBVIOUS
      <4>2. /\ IsSeq(k) /\ \A s \in Mine(shelves, who) :
                              \E i \in DOMAIN k : k[i].id = s /\ k[i].name = shelves[s].name
        BY <2>4, <4>1, ListingIs
      <4>3. \A i \in DOMAIN k : k[i].name # Wishlist
        BY <3>2, <4>1, <4>2, WishIs
      <4>4. \A s \in Mine(shelves, who) : shelves[s].name # Wishlist
        BY <4>2, <4>3
      <4>5. /\ IsSeq(l) /\ \A i \in DOMAIN l : /\ l[i].id \in Mine(new, who)
                                               /\ l[i].name = new[l[i].id].name
                                               /\ l[i].books = new[l[i].id].books
        BY <2>5, <4>1, ListingIs
      <4>6. \A s \in Mine(new, who) : new[s].name = Wishlist => new[s].books = {}
        BY <2>5, <4>4 DEF Mine
      <4>7. WishBooks(l) = {}
        <5>1. \A i \in DOMAIN l : l[i].name = Wishlist => l[i].books = {}
          BY <4>5, <4>6
        <5> QED
          BY <4>5, <5>1, WishIs DEF WishBooks
      <4>8. WishBooks(k) = {}
        BY <3>2, <4>1 DEF WishBooks
      <4> QED
        BY <2>4, <3>2, <4>1, <4>7, <4>8 DEF Wished
    <3> QED
      BY <2>1, <2>4, <3>1, <3>2
  <2>8. /\ kept' \in [Users -> SUBSET Books]
        /\ \A u \in Users : \A b \in kept'[u] :
             b \in OnShelves(all, u) \/ (b \in kept[u] /\ b \notin OnShelves(shelves, u))
    BY <2>2, <2>6 DEF ShopInv, ClientInv
  <2>9. op = Head(wire).op /\ c = Head(wire).cmd /\ d = Head(wire).depth
    BY <2>1
  <2>10. c.do # "create" /\ c.do # "add"
    BY <2>3
  <2> QED
    BY <1>1, <1>3, <2>2, <2>3, <2>6, <2>7, <2>8, <2>9, <2>10, ListedKeeps
<1> QED
  BY <1>2, <1>3

\* The name, the order or the look of one shelf changes.
LEMMA RewriteKeeps ==
  ASSUME ShopInv, wire # <<>>, ServerDone, OtherSame, session # Nobody,
         Head(wire).cmd.do \in {"rename", "update", "look"},
         NEW s \in DOMAIN shelves, NEW e \in Row,
         e.owner = shelves[s].owner, e.books = shelves[s].books, e.live = shelves[s].live,
         NEW all, all = [shelves EXCEPT ![s] = e], Serve(all), kept' = kept
  PROVE  ShopInv'
<1>1. PICK op, c, d, n :
        op = Head(wire).op /\ c = Head(wire).cmd /\ d = Head(wire).depth /\ n = 0
  OBVIOUS
<1>2. Asks(op, c) /\ c.do \in {"rename", "update", "look"} /\ Answer(all, Listed(all, n))
  BY <1>1, AskedIs DEF Serve, Cmd
<1>3. op \notin {"heart", "move"} /\ c.do \in OfShelves /\ c.do # "create"
  BY <1>2 DEF Asks, Sends, OnShelf, OfShelves
<1>4. /\ all \in Seq(Row) /\ DOMAIN all = DOMAIN shelves /\ all[s] = e
      /\ \A t \in DOMAIN shelves : t # s => all[t] = shelves[t]
  BY RowSet DEF ShopInv, ServerInv
<1>5. /\ DOMAIN shelves \subseteq DOMAIN all
      /\ \A t \in DOMAIN shelves : all[t].owner = shelves[t].owner
  BY <1>4
<1>6. \A u : OnShelves(shelves, u) \subseteq OnShelves(all, u)
  <2>1. \A t \in DOMAIN shelves : /\ all[t].owner = shelves[t].owner
                                  /\ (shelves[t].live => all[t].live)
                                  /\ shelves[t].books \subseteq all[t].books
    BY <1>4
  <2> QED
    BY <1>5, <2>1, ShelvesHold
<1>7. /\ kept' \in [Users -> SUBSET Books]
      /\ \A u \in Users : \A b \in kept'[u] :
           b \in OnShelves(all, u) \/ (b \in kept[u] /\ b \notin OnShelves(shelves, u))
  BY <1>6 DEF ShopInv, ClientInv
<1>8. op = Head(wire).op /\ c = Head(wire).cmd /\ d = Head(wire).depth
  BY <1>1
<1>9. op # "heart" /\ op # "move"
  BY <1>3
<1> QED
  BY <1>2, <1>3, <1>4, <1>5, <1>7, <1>8, <1>9, ListedKeeps

\* handleRenameShelf.
LEMMA HandleRenameShelfKeeps ==
  ASSUME ShopInv, HandleRenameShelf, OtherSame PROVE ShopInv'
<1>1. wire # <<>> /\ ServerDone /\ Cmd.do = "rename"
  BY DEF HandleRenameShelf, Rewrite, Handle, Cmd
<1>2. Refuse \/ /\ session # Nobody /\ kept' = kept
                /\ Serve([shelves EXCEPT ![Cmd.shelf] = [@ EXCEPT !.name = Cmd.name]])
  BY DEF HandleRenameShelf, Rewrite
<1>3. CASE Refuse
  BY <1>1, <1>3, RefuseKeeps
<1>4. CASE ~ Refuse
  <2>1. PICK op, s, e, all : /\ op = Head(wire).op /\ s = Cmd.shelf
                             /\ e = [shelves[s] EXCEPT !.name = Cmd.name]
                             /\ all = [shelves EXCEPT ![s] = e]
    OBVIOUS
  <2>2. Asks(op, Cmd)
    BY <1>1, <2>1, AskedIs DEF Cmd
  <2>3. s \in DOMAIN shelves /\ Cmd.name \in Nat
    BY <1>1, <2>1, <2>2 DEF Asks, OnShelf
  <2>4. shelves[s] \in Row
    BY <2>3, ElementOfSeq, LenProperties DEF ShopInv, ServerInv
  <2>5. /\ e \in Row /\ e.owner = shelves[s].owner /\ e.books = shelves[s].books
        /\ e.live = shelves[s].live
    BY <2>1, <2>3, <2>4 DEF Row
  <2>6. Serve(all)
    BY <1>2, <1>4, <2>1, <2>3
  <2> QED
    BY <1>1, <1>2, <1>4, <2>1, <2>3, <2>5, <2>6, RewriteKeeps DEF Cmd
<1> QED
  BY <1>3, <1>4

\* handleUpdateShelf.
LEMMA HandleUpdateShelfKeeps ==
  ASSUME ShopInv, HandleUpdateShelf, OtherSame PROVE ShopInv'
<1>1. wire # <<>> /\ ServerDone /\ Cmd.do \in {"update", "look"}
  BY DEF HandleUpdateShelf, Rewrite, Handle, Cmd
<1>2. \/ Refuse
      \/ /\ session # Nobody /\ kept' = kept
         /\ \/ /\ Cmd.do = "update"
               /\ Serve([shelves EXCEPT ![Cmd.shelf] = [@ EXCEPT !.sort = Cmd.sort]])
            \/ Cmd.do = "look" /\ Serve([shelves EXCEPT ![Cmd.shelf] = @])
  BY DEF HandleUpdateShelf, Rewrite, Handle, Cmd
<1>3. CASE Refuse
  BY <1>1, <1>3, RefuseKeeps
<1>4. CASE ~ Refuse
  <2>1. PICK op, s, e, all : /\ op = Head(wire).op /\ s = Cmd.shelf
                             /\ e = IF Cmd.do = "look" THEN shelves[s]
                                    ELSE [shelves[s] EXCEPT !.sort = Cmd.sort]
                             /\ all = [shelves EXCEPT ![s] = e]
    OBVIOUS
  <2>2. Asks(op, Cmd)
    BY <1>1, <2>1, AskedIs DEF Cmd
  <2>3. s \in DOMAIN shelves /\ (Cmd.do = "update" => Cmd.sort \in Int)
    BY <1>1, <2>1, <2>2 DEF Asks, OnShelf
  <2>4. shelves[s] \in Row
    BY <2>3, ElementOfSeq, LenProperties DEF ShopInv, ServerInv
  <2>5. /\ e \in Row /\ e.owner = shelves[s].owner /\ e.books = shelves[s].books
        /\ e.live = shelves[s].live
    BY <1>1, <2>1, <2>3, <2>4 DEF Row
  <2>6. Serve(all)
    BY <1>2, <1>4, <2>1, <2>3
  <2> QED
    BY <1>1, <1>2, <1>4, <2>1, <2>3, <2>5, <2>6, RewriteKeeps DEF Cmd
<1> QED
  BY <1>3, <1>4

\* What is taken off a shelf is not kept, but for what is on another.
LEMMA CutShort ==
  ASSUME ShopInv, NEW all, kept' = [u \in Users |-> kept[u] \cap OnShelves(all, u)]
  PROVE  /\ kept' \in [Users -> SUBSET Books]
         /\ \A u \in Users : \A b \in kept'[u] : b \in OnShelves(all, u)
  BY DEF ShopInv, ClientInv

\* handleDeleteShelf, of whoever owns the shelf.
LEMMA HandleDeleteShelfKeeps ==
  ASSUME ShopInv, HandleDeleteShelf, OtherSame PROVE ShopInv'
<1>1. wire # <<>> /\ ServerDone /\ Cmd.do = "delete"
  BY DEF HandleDeleteShelf, Handle, Cmd
<1>2. CASE session = Nobody
  BY <1>1, <1>2, RefuseKeeps DEF HandleDeleteShelf
<1>3. CASE session # Nobody
  <2>1. PICK op, c, d, n, s, e, all :
          /\ op = Head(wire).op /\ c = Head(wire).cmd /\ d = Head(wire).depth /\ n = 0
          /\ s = Cmd.shelf /\ e = [shelves[s] EXCEPT !.live = FALSE, !.books = {}]
          /\ all = [shelves EXCEPT ![s].live = FALSE, ![s].books = {}]
    OBVIOUS
  <2>2. /\ Answer(all, Listed(all, n))
        /\ kept' = [u \in Users |-> kept[u] \cap OnShelves(all, u)]
    BY <1>3, <2>1 DEF HandleDeleteShelf, RemoveShelf, Serve
  <2>3. Asks(op, c) /\ c.do = "delete" /\ c = Cmd
    BY <1>1, <2>1, AskedIs DEF Cmd
  <2>4. s \in DOMAIN shelves /\ op # "heart" /\ op # "move" /\ c.do \in OfShelves /\ c.do # "create"
    BY <2>1, <2>3 DEF Asks, Sends, OnShelf, OfShelves
  <2>5. shelves[s] \in Row /\ shelves \in Seq(Row)
    BY <2>4, ElementOfSeq, LenProperties DEF ShopInv, ServerInv
  <2>6. e \in Row /\ e.owner = shelves[s].owner
    BY <2>1, <2>5 DEF Row
  <2>7. all = [shelves EXCEPT ![s] = e]
    BY <2>1, <2>4
  <2>8. /\ all \in Seq(Row) /\ DOMAIN shelves \subseteq DOMAIN all
        /\ \A t \in DOMAIN shelves : all[t].owner = shelves[t].owner
    <3>1. /\ all \in Seq(Row) /\ DOMAIN all = DOMAIN shelves /\ all[s] = e
          /\ \A t \in DOMAIN shelves : t # s => all[t] = shelves[t]
      BY <2>4, <2>5, <2>6, <2>7, RowSet
    <3> QED
      BY <2>6, <3>1
  <2>9. /\ kept' \in [Users -> SUBSET Books]
        /\ \A u \in Users : \A b \in kept'[u] : b \in OnShelves(all, u)
    BY <2>2, CutShort
  <2>10. op = Head(wire).op /\ c = Head(wire).cmd /\ d = Head(wire).depth
    BY <2>1
  <2> QED
    BY <1>1, <1>3, <2>2, <2>4, <2>8, <2>9, <2>10, ListedKeeps
<1> QED
  BY <1>2, <1>3

LEMMA WishedAfter ==
  ASSUME who # Nobody, shelves \in Seq(Row), NEW s \in DOMAIN shelves, NEW X,
         NEW all \in Seq(Row), DOMAIN all = DOMAIN shelves, BooksOnly(shelves, s, X, all)
  PROVE  Wished(all) = Wished(shelves) \/ (Wished(all) = X /\ Wished(shelves) = shelves[s].books)
<1>1. WishedBut(shelves, s, X, who, all)
  BY RestockedList
<1> QED
  BY <1>1 DEF Wished, WishedBut

\* handleAddBookToShelf.
LEMMA HandleAddBookToShelfKeeps ==
  ASSUME ShopInv, HandleAddBookToShelf, OtherSame PROVE ShopInv'
<1>1. wire # <<>> /\ ServerDone /\ Cmd.do = "add"
  BY DEF HandleAddBookToShelf, Handle, Cmd
<1>2. CASE session = Nobody \/ ~ shelves[Cmd.shelf].live
  BY <1>1, <1>2, RefuseKeeps DEF HandleAddBookToShelf
<1>3. CASE ~ (session = Nobody \/ ~ shelves[Cmd.shelf].live)
  <2>1. PICK op, c, d, n, s, b, X, all :
          /\ op = Head(wire).op /\ c = Head(wire).cmd /\ d = Head(wire).depth /\ n = 0
          /\ s = Cmd.shelf /\ b = Cmd.book /\ X = shelves[s].books \cup {b}
          /\ all = [shelves EXCEPT ![s].books = X]
    OBVIOUS
  <2>2. Asks(op, c) /\ c.do = "add" /\ c.shelf = s /\ c.book = b
    BY <1>1, <2>1, AskedIs DEF Cmd
  <2>3. s \in DOMAIN shelves /\ b \in Books /\ c.do \in OfShelves /\ c.do # "create"
    BY <2>2 DEF Asks, OfShelves, OnShelf
  <2>4. /\ Answer(all, Listed(all, n)) /\ kept' = [kept EXCEPT ![shelves[s].owner] = @ \cup {b}]
        /\ session # Nobody /\ shelves[s].live
    BY <1>3, <2>1, <2>3 DEF HandleAddBookToShelf, AddBook, Serve
  <2>5. /\ shelves \in Seq(Row) /\ shelves[s] \in Row /\ who # Nobody
    BY <2>3, <2>4, ElementOfSeq, LenProperties, SessionIs DEF ShopInv, ServerInv
  <2>6. X \in SUBSET Books /\ shelves[s].owner \in Users
    BY <2>1, <2>3, <2>5 DEF Row
  <2>7. /\ all \in Seq(Row) /\ DOMAIN all = DOMAIN shelves
        /\ BooksOnly(shelves, s, X, all)
    <3>1. Restocks(shelves, s, X, all)
      BY <2>1 DEF Restocks
    <3> QED
      BY <2>3, <2>5, <2>6, <3>1, Restocked
  <2>8. \A u : OnShelves(shelves, u) \subseteq OnShelves(all, u)
    <3>1. \A t \in DOMAIN shelves : shelves[t].books \subseteq all[t].books
      BY <2>1, <2>7 DEF BooksOnly
    <3>2. /\ DOMAIN shelves \subseteq DOMAIN all
          /\ \A t \in DOMAIN shelves : /\ all[t].owner = shelves[t].owner
                                        /\ (shelves[t].live => all[t].live)
      BY <2>7 DEF BooksOnly
    <3> QED
      BY <3>1, <3>2, ShelvesHold
  <2>9. b \in OnShelves(all, shelves[s].owner)
    <3>1. s \in Mine(all, shelves[s].owner)
      BY <2>3, <2>4, <2>7 DEF Mine, BooksOnly
    <3>2. b \in X
      BY <2>1
    <3>3. b \in all[s].books
      BY <2>3, <2>7, <3>2 DEF BooksOnly
    <3> QED
      BY <3>1, <3>3 DEF OnShelves
  <2>10. op = "heart" => \/ Wished(all) = Wished(shelves)
                         \/ hearts = Wished(shelves) => Applied(c, hearts) = Wished(all)
    <3>1. shelves \in Seq(Row) /\ all \in Seq(Row) /\ DOMAIN all = DOMAIN shelves
      BY <2>5, <2>7
    <3>2. BooksOnly(shelves, s, X, all)
      BY <2>7
    <3>3. Wished(all) = Wished(shelves) \/ (Wished(all) = X /\ Wished(shelves) = shelves[s].books)
      BY <2>3, <2>5, <3>1, <3>2, WishedAfter
    <3> QED
      BY <2>1, <2>2, <3>3 DEF Applied
  <2>11. /\ kept' \in [Users -> SUBSET Books]
         /\ \A u \in Users : \A x \in kept'[u] :
              x \in OnShelves(all, u) \/ (x \in kept[u] /\ x \notin OnShelves(shelves, u))
    <3>1. kept \in [Users -> SUBSET Books]
      BY DEF ShopInv, ClientInv
    <3>2. kept' \in [Users -> SUBSET Books]
      BY <2>3, <2>4, <2>6, <3>1
    <3>3. ASSUME NEW u \in Users, NEW x \in kept'[u]
          PROVE  x \in kept[u] \/ (u = shelves[s].owner /\ x = b)
      BY <2>4, <2>6, <3>1, <3>3
    <3> QED
      BY <2>8, <2>9, <3>2, <3>3
  <2>12. op = Head(wire).op /\ c = Head(wire).cmd /\ d = Head(wire).depth
    BY <2>1
  <2>13. c.do # "get" /\ c.book \in OnShelves(all, OwnerOf(c.shelf))
    BY <2>2, <2>9 DEF OwnerOf
  <2>14. /\ DOMAIN shelves \subseteq DOMAIN all
         /\ \A t \in DOMAIN shelves : all[t].owner = shelves[t].owner
    BY <2>7 DEF BooksOnly
  <2>15. \/ op # "heart" \/ d = 0
         \/ Wished(all) = Wished(shelves)
         \/ c.do # "get" /\ (hearts = Wished(shelves) => Applied(c, hearts) = Wished(all))
    BY <2>10, <2>13
  <2>16. all \in Seq(Row)
    BY <2>7
  <2> QED
    BY <1>1, <2>3, <2>4, <2>11, <2>12, <2>13, <2>14, <2>15, <2>16, ListedKeeps
<1> QED
  BY <1>2, <1>3

\* A book that is taken off a shelf as half a move is not lost.
LEMMA HalfAMove ==
  ASSUME ShopInv, wire # <<>>, Cmd.do = "drop", Cmd.shelf \in DOMAIN shelves,
         \/ Head(wire).op = "move"
         \/ Head(wire).op = "toCart" /\ ~ Late /\ OwnerOf(Cmd.shelf) = session,
         session # Nobody
  PROVE  Held(Cmd.book, OwnerOf(Cmd.shelf))
<1>1. PICK op, c, d, b, u : /\ op = Head(wire).op /\ c = Cmd /\ d = Head(wire).depth
                            /\ b = Cmd.book /\ u = OwnerOf(Cmd.shelf)
  OBVIOUS
<1>2. wire[1].op = op /\ wire[1].cmd = c /\ wire[1].depth = d /\ 1 \in DOMAIN wire
  BY <1>1, AskedIs DEF Cmd
<1>3. d # 0 => d \in DOMAIN stack /\ stack[d].op = op /\ stack[d].cmd = c
  BY <1>2 DEF ShopInv, WaitsInv, Fits, Linked
<1>4. CASE op = "move" /\ d # 0
  <2>1. CarriesHome(stack[d], b, u)
    BY <1>1, <1>3, <1>4 DEF CarriesHome
  <2> QED
    BY <1>1, <1>3, <1>4, <2>1 DEF Held
<1>5. CASE op = "move" /\ d = 0
  <2>1. GivenUp(wire[1])
    BY <1>1, <1>2, <1>5 DEF GivenUp
  <2>2. wire[1].cmd.book \in torn \/ \E j \in DOMAIN stack : PutsDownAfter(1, j)
    BY <1>2, <2>1 DEF ShopInv, GivenUpInv
  <2>3. CASE b \in torn
    BY <1>1, <2>3 DEF Held, BoughtOrLost
  <2>4. ASSUME NEW j \in DOMAIN stack, PutsDownAfter(1, j) PROVE CarriesHome(stack[j], b, u)
    BY <1>1, <1>2, <2>4, Outcomes DEF PutsDownAfter, CarriesHome, Open, Good
  <2> QED
    BY <1>1, <1>2, <2>2, <2>3, <2>4 DEF Held
<1>6. CASE op = "toCart"
  <2>1. d # 0 /\ u = who
    BY <1>1, <1>6, SessionIs DEF Late
  <2>2. PastCart(stack[d])
    BY <1>1, <1>3, <1>6, <2>1 DEF PastCart
  <2>3. BoughtOrLost(b, who) \/ Carried(b)
    BY <1>1, <1>3, <2>1, <2>2 DEF ShopInv, PastCartInv
  <2> QED
    BY <1>1, <2>1, <2>3 DEF Held
<1> QED
  BY <1>1, <1>4, <1>5, <1>6

\* handleRemoveBookFromShelf: alone, as half a move, or after a move to the
\* cart.
LEMMA HandleRemoveBookFromShelfKeeps ==
  ASSUME ShopInv, HandleRemoveBookFromShelf, OtherSame PROVE ShopInv'
<1>1. wire # <<>> /\ ServerDone /\ Cmd.do = "drop"
  BY DEF HandleRemoveBookFromShelf, Handle, Cmd
<1>2. CASE session = Nobody
  BY <1>1, <1>2, RefuseKeeps DEF HandleRemoveBookFromShelf
<1>3. CASE session # Nobody
  <2>1. PICK op, c, d, n, s, b, X, all :
          /\ op = Head(wire).op /\ c = Head(wire).cmd /\ d = Head(wire).depth /\ n = 0
          /\ s = Cmd.shelf /\ b = Cmd.book /\ X = shelves[s].books \ {b}
          /\ all = [shelves EXCEPT ![s].books = X]
    OBVIOUS
  <2>2. Asks(op, c) /\ c.do = "drop" /\ c.shelf = s /\ c.book = b
    BY <1>1, <2>1, AskedIs DEF Cmd
  <2>3. /\ s \in DOMAIN shelves /\ b \in Books /\ c.do \in OfShelves /\ c.do # "create"
        /\ c.do # "add" /\ c.do # "get"
    BY <2>2 DEF Asks, OfShelves, OnShelf
  <2>4. Answer(all, Listed(all, n))
    BY <1>3, <2>1, <2>3 DEF HandleRemoveBookFromShelf, RemoveBook, Serve
  <2>5. /\ shelves \in Seq(Row) /\ shelves[s] \in Row /\ who # Nobody
    BY <1>3, <2>3, <2>4, ElementOfSeq, LenProperties, SessionIs DEF ShopInv, ServerInv
  <2>6. X \in SUBSET Books
    BY <2>1, <2>3, <2>5 DEF Row
  <2>7. /\ all \in Seq(Row) /\ DOMAIN all = DOMAIN shelves
        /\ BooksOnly(shelves, s, X, all)
    <3>1. Restocks(shelves, s, X, all)
      BY <2>1 DEF Restocks
    <3> QED
      BY <2>3, <2>5, <2>6, <3>1, Restocked
  <2>8. ASSUME NEW u, NEW x \in OnShelves(shelves, u), x \notin OnShelves(all, u)
        PROVE  x = b /\ u = OwnerOf(s)
    <3>1. PICK t \in Mine(shelves, u) : x \in shelves[t].books
      BY <2>8 DEF OnShelves
    <3>2. t \in Mine(all, u) /\ shelves[t].owner = u /\ t \in DOMAIN shelves
      BY <2>7, <3>1 DEF Mine, BooksOnly
    <3>3. x \notin all[t].books
      BY <2>8, <3>2 DEF OnShelves
    <3> QED
      BY <2>1, <2>7, <3>1, <3>2, <3>3 DEF OwnerOf, BooksOnly
  <2>9. op = "heart" => \/ Wished(all) = Wished(shelves)
                        \/ hearts = Wished(shelves) => Applied(c, hearts) = Wished(all)
    <3>1. Wished(all) = Wished(shelves) \/ (Wished(all) = X /\ Wished(shelves) = shelves[s].books)
      BY <2>3, <2>5, <2>7, WishedAfter
    <3> QED
      BY <2>1, <2>2, <3>1 DEF Applied
  <2>10. /\ kept' \in [Users -> SUBSET Books]
         /\ \A u \in Users : \A x \in kept'[u] :
              \/ x \in OnShelves(all, u)
              \/ x \in kept[u] /\ (x \in OnShelves(shelves, u) => Held(x, u))
    <3> DEFINE half == \/ Head(wire).op = "move"
                       \/ Head(wire).op = "toCart" /\ ~ Late /\ shelves[Cmd.shelf].owner = session
    <3>1. CASE ~ half
      <4>1. kept' = [u \in Users |-> kept[u] \cap OnShelves(all, u)]
        BY <1>3, <2>1, <3>1 DEF HandleRemoveBookFromShelf, RemoveBook
      <4> QED
        BY <4>1, CutShort
    <3>2. CASE half
      <4>1. kept' = kept
        BY <1>3, <3>2 DEF HandleRemoveBookFromShelf, RemoveBook
      <4>2. Held(b, OwnerOf(s))
        BY <1>1, <1>3, <2>1, <2>3, <3>2, HalfAMove DEF OwnerOf
      <4> QED
        BY <2>8, <4>1, <4>2 DEF ShopInv, ClientInv
    <3> QED
      BY <3>1, <3>2
  <2>11. op = Head(wire).op /\ c = Head(wire).cmd /\ d = Head(wire).depth
    BY <2>1
  <2>12. /\ DOMAIN shelves \subseteq DOMAIN all
         /\ \A t \in DOMAIN shelves : all[t].owner = shelves[t].owner
    BY <2>7 DEF BooksOnly
  <2>13. \/ op # "heart" \/ d = 0
         \/ Wished(all) = Wished(shelves)
         \/ c.do # "get" /\ (hearts = Wished(shelves) => Applied(c, hearts) = Wished(all))
    BY <2>3, <2>9
  <2>14. all \in Seq(Row)
    BY <2>7
  <2> QED
    BY <1>1, <1>3, <2>3, <2>4, <2>10, <2>11, <2>12, <2>13, <2>14, ListedKeeps, SMTT(90)
<1> QED
  BY <1>2, <1>3

\* Every request of the library may be served.
LEMMA ServerKeeps ==
  ASSUME ShopInv, Server, OtherSame PROVE ShopInv'
  BY HandleGetLibraryKeeps, HandleCreateShelfKeeps, HandleRenameShelfKeeps, HandleUpdateShelfKeeps,
     HandleDeleteShelfKeeps, HandleAddBookToShelfKeeps, HandleRemoveBookFromShelfKeeps DEF Server

-----------------------------------------------------------------------------
(* Commands go on, or end.                                                 *)

\* The k-th command, the innermost, has had its reply and goes on to another
\* request or is done.
Went(k, e) ==
  /\ k \in DOMAIN stack /\ e = stack[k] /\ k \in Nat \ {0}
  /\ ~ Open(e) /\ IsFrame(e) /\ Sound(e) /\ who \in Users
  /\ Fits(wire', stack') /\ Calm(k, stack, stack') /\ Len(stack') <= MaxDepth
  /\ k \in DOMAIN stack' => stack'[k].op = e.op /\ Open(stack'[k]) /\ Sound(stack[k])'
  /\ \A i \in DOMAIN stack : i # k => i \in DOMAIN stack' /\ stack'[i] = stack[i]
  /\ \A i \in DOMAIN wire : i \in DOMAIN wire' /\ wire'[i] = wire[i] /\ wire[i].depth # k
  /\ \A i \in DOMAIN wire' : \/ i \in DOMAIN wire
                             \/ /\ k \in DOMAIN stack' /\ wire'[i].depth = k
                                /\ wire'[i].op = stack'[k].op /\ wire'[i].cmd = stack'[k].cmd
  /\ k \in DOMAIN stack' => \A i \in DOMAIN wire :
                              \E c \in DOMAIN wire' : c > i /\ wire'[c].depth = k
ClientSame ==
  /\ UNCHANGED <<shelves, owned, session, who, cart, cartRow, reviews, kept>>
  /\ torn \subseteq torn'

LEMMA Waited ==
  ASSUME ShopInv, stack # <<>>, Innermost.got # None, NEW k, k = Len(stack), NEW e, e = Innermost
  PROVE  /\ k \in DOMAIN stack /\ k \in Nat \ {0} /\ e = stack[k] /\ IsFrame(e)
         /\ Sound(e) /\ ~ Open(e) /\ who \in Users /\ who # Nobody
         /\ Fits(wire, Front(stack)) /\ Len(Front(stack)) = k - 1
         /\ DOMAIN stack = 1 .. k /\ DOMAIN Front(stack) = 1 .. k - 1
         /\ \A i \in 1 .. k - 1 : Front(stack)[i] = stack[i]
         /\ \A i \in DOMAIN wire : wire[i].depth # k
         /\ Calm(k, stack, Front(stack)) /\ k <= MaxDepth
<1>1. Fits(wire, stack) /\ ~ Open(Last(stack))
  BY DEF ShopInv, WaitsInv, Innermost, Open
<1>2. /\ Fits(wire, Front(stack)) /\ k \in Nat \ {0} /\ Len(Front(stack)) = k - 1
      /\ DOMAIN stack = 1 .. k /\ DOMAIN Front(stack) = 1 .. k - 1
      /\ e = stack[k] /\ IsFrame(e)
      /\ \A i \in 1 .. k - 1 : Front(stack)[i] = stack[i]
      /\ \A i \in DOMAIN wire : wire[i].depth # k
      /\ Calm(k, stack, Front(stack))
  <2>1. LET n == Len(stack)
            f == Front(stack)
        IN /\ Fits(wire, f) /\ n \in Nat \ {0} /\ Len(f) = n - 1
           /\ DOMAIN stack = 1 .. n /\ DOMAIN f = 1 .. n - 1
           /\ Last(stack) = stack[n] /\ IsFrame(Last(stack))
           /\ \A i \in 1 .. n - 1 : f[i] = stack[i]
           /\ \A i \in DOMAIN wire : wire[i].depth # n
           /\ Calm(n, stack, f)
    BY <1>1, FrontFits
  <2> QED
    BY <2>1 DEF Innermost
<1>3. k \in DOMAIN stack
  BY <1>2
<1>4. Sound(e) /\ who \in Users /\ who # Nobody /\ k <= MaxDepth
  BY <1>2, <1>3 DEF ShopInv, WaitsInv, ServerInv
<1> QED
  BY <1>1, <1>2, <1>3, <1>4 DEF Innermost

\* A command that ends is one that went.
LEMMA EndsWent ==
  ASSUME ShopInv, stack # <<>>, Innermost.got # None, Ends, NEW k, k = Len(stack),
         NEW e, e = Innermost
  PROVE  Went(k, e) /\ k \notin DOMAIN stack'
<1> USE LibraryAssumption
<1>1. /\ k \in DOMAIN stack /\ k \in Nat \ {0} /\ e = stack[k] /\ IsFrame(e)
      /\ Sound(e) /\ ~ Open(e) /\ who \in Users
      /\ Fits(wire, Front(stack)) /\ Len(Front(stack)) = k - 1
      /\ DOMAIN stack = 1 .. k /\ DOMAIN Front(stack) = 1 .. k - 1
      /\ \A i \in 1 .. k - 1 : Front(stack)[i] = stack[i]
      /\ \A i \in DOMAIN wire : wire[i].depth # k
      /\ Calm(k, stack, Front(stack)) /\ k <= MaxDepth
  BY Waited
<1>2. stack' = Front(stack) /\ wire' = wire
  BY DEF Ends
<1>3. k \notin DOMAIN stack'
  BY <1>1, <1>2
<1>4. /\ Len(stack') <= MaxDepth
      /\ \A i \in DOMAIN stack : i # k => i \in DOMAIN stack' /\ stack'[i] = stack[i]
  BY <1>1, <1>2
<1> QED
  BY <1>1, <1>2, <1>3, <1>4 DEF Went

\* So is one that goes on to its next request.
LEMMA ResumeWent ==
  ASSUME ShopInv, stack # <<>>, Innermost.got # None, NEW k, k = Len(stack),
         NEW e, e = Innermost, NEW f, Resume(f), IsFrame(f), Open(f), f.op = e.op,
         Asks(f.op, f.cmd), Follows(f.op, f.cmd, f.more), ClientSame
  PROVE  Went(k, e) /\ k \in DOMAIN stack' /\ stack'[k] = f
<1> USE LibraryAssumption
<1>1. /\ k \in DOMAIN stack /\ k \in Nat \ {0} /\ e = stack[k] /\ IsFrame(e)
      /\ Sound(e) /\ ~ Open(e) /\ who \in Users
      /\ Fits(wire, Front(stack)) /\ Len(Front(stack)) = k - 1
      /\ DOMAIN stack = 1 .. k /\ DOMAIN Front(stack) = 1 .. k - 1
      /\ \A i \in 1 .. k - 1 : Front(stack)[i] = stack[i]
      /\ \A i \in DOMAIN wire : wire[i].depth # k
      /\ Calm(k, stack, Front(stack)) /\ k <= MaxDepth
  BY Waited
<1>2. PICK s, m : s = Front(stack) /\ m = Len(wire)
  OBVIOUS
<1>3. Pushes(wire, s, f, wire', stack')
  <2>1. Len(s) + 1 = Len(stack)
    BY <1>1, <1>2
  <2> QED
    BY <1>2, <2>1 DEF Resume, Pushes, Asking
<1>4. Pushed(wire, s, f, wire', stack')
  BY <1>1, <1>2, <1>3, PushFits
<1>5. /\ Fits(wire', stack') /\ m \in Nat /\ Len(stack') = k
      /\ DOMAIN stack' = 1 .. k /\ stack'[k] = f
      /\ \A i \in 1 .. k - 1 : stack'[i] = s[i]
      /\ DOMAIN wire = 1 .. m /\ DOMAIN wire' = 1 .. m + 1
      /\ wire'[m + 1] = Asking(f.op, f.cmd, k)
      /\ \A i \in 1 .. m : wire'[i] = wire[i]
  <2>1. Len(s) = k - 1 /\ k - 1 + 1 = k
    BY <1>1, <1>2
  <2> QED
    BY <1>2, <1>4, <2>1 DEF Pushed
<1>6. \A i \in DOMAIN stack : i # k => i \in DOMAIN stack' /\ stack'[i] = stack[i]
  BY <1>1, <1>2, <1>5
<1>7. Calm(k, stack, stack')
  BY <1>1, <1>5, <1>6, SameItself DEF Calm
<1>8. k \in DOMAIN stack' /\ Len(stack') <= MaxDepth
  BY <1>1, <1>5
<1>9. Sound(stack[k])'
  <2>1. Grows
    BY GrowsSame DEF ClientSame, ShopInv
  <2>2. Asks(f.op, f.cmd)' /\ Follows(f.op, f.cmd, f.more)'
    BY <2>1, GrowsKeeps
  <2>3. Told(f.cmd, f.got)' /\ Current(f.cmd, f.got)'
    BY Outcomes DEF Told, Current, Open
  <2>4. Sound(f)'
    BY <2>2, <2>3 DEF Sound
  <2> QED
    BY <1>5, <2>4
<1>10. \A i \in DOMAIN wire' : \/ i \in DOMAIN wire
                               \/ /\ wire'[i].depth = k
                                  /\ wire'[i].op = f.op /\ wire'[i].cmd = f.cmd
  BY <1>5 DEF Asking
<1>11. \A i \in DOMAIN wire : \E c \in DOMAIN wire' : c > i /\ wire'[c].depth = k
  <2>1. \A i \in DOMAIN wire : m + 1 \in DOMAIN wire' /\ m + 1 > i /\ wire'[m + 1].depth = k
    BY <1>5 DEF Asking
  <2> QED
    BY <2>1
<1>12. \A i \in DOMAIN wire : i \in DOMAIN wire' /\ wire'[i] = wire[i] /\ wire[i].depth # k
  BY <1>1, <1>5
<1> QED
  BY <1>1, <1>5, <1>6, <1>7, <1>8, <1>9, <1>10, <1>11, <1>12 DEF Went

-----------------------------------------------------------------------------
LEMMA WentWaits ==
  ASSUME ShopInv, ClientSame, NEW k, NEW e, Went(k, e)
  PROVE  WaitsInv' /\ ServerInv' /\ Grows /\ who # Nobody
<1> USE LibraryAssumption DEF ShopInv
<1>1. Grows /\ WorldSame
  BY GrowsSame DEF ClientSame, WorldSame
<1>2. UNCHANGED <<shelves, owned, session, who, cart, cartRow, reviews, kept>>
  BY DEF ClientSame
<1>3. who # Nobody
  BY DEF Went
<1>4. ServerInv'
  BY <1>2 DEF ServerInv, OwnedNotInCart
<1>5. \A i \in DOMAIN wire' : Asks(wire[i].op, wire[i].cmd)'
  <2> SUFFICES ASSUME NEW i \in DOMAIN wire' PROVE Asks(wire[i].op, wire[i].cmd)'
    OBVIOUS
  <2>1. CASE i \in DOMAIN wire
    BY <1>1, <2>1, GrowsKeeps DEF Went, WaitsInv
  <2>2. CASE i \notin DOMAIN wire
    BY <2>2 DEF Went, Sound
  <2> QED
    BY <2>1, <2>2
<1>6. WaitsInv'
  <2>1. k \in DOMAIN stack' => Sound(stack[k])'
    BY DEF Went
  <2>2. Fits(wire', stack') /\ Calm(k, stack, stack') /\ Len(stack') <= MaxDepth
    BY DEF Went
  <2> QED
    BY <1>1, <1>2, <1>3, <1>5, <2>1, <2>2, WaitsStay
<1> QED
  BY <1>1, <1>3, <1>4, <1>6

\* Its books are put down, or go on.
Rests(k, e) ==
  /\ \A b, u : CarriesHome(e, b, u) =>
       \/ b \in torn'
       \/ k \in DOMAIN stack' /\ CarriesHome(stack[k], b, u)'
  /\ \A b : CarriesBack(e, b) =>
       b \in torn' \/ (k \in DOMAIN stack' /\ CarriesBack(stack[k], b)')
  /\ \A b : e.op = "toCart" /\ k \in DOMAIN stack' /\ stack'[k].cmd.book = b =>
       b \in torn' \/ (PastCart(e) /\ e.cmd.book = b)

LEMMA WentMoves ==
  ASSUME ShopInv, ClientSame, NEW k, NEW e, Went(k, e), Rests(k, e)
  PROVE  KeptInv' /\ PastCartInv' /\ GivenUpInv'
<1> USE DEF ShopInv
<1>1. Grows /\ WaitsInv' /\ who \in Users
  BY WentWaits DEF Went
<1>2. UNCHANGED <<shelves, owned, session, who, cart, cartRow, reviews, kept>> /\ torn \subseteq torn'
  BY DEF ClientSame
<1>3. k \in DOMAIN stack /\ stack[k] = e /\ Calm(k, stack, stack')
  BY DEF Went
<1>4. KeptInv'
  <2>1. ASSUME NEW u \in Users, NEW b,
               CarriesHome(stack[k], b, u) \/ (u = who /\ CarriesBack(stack[k], b))
        PROVE  Has(b, u)'
    <3>1. CASE CarriesHome(stack[k], b, u)
      BY <1>3, <3>1 DEF Rests, Has, BoughtOrLost
    <3>2. CASE u = who /\ CarriesBack(stack[k], b)
      BY <1>2, <1>3, <3>2 DEF Rests, Has, BoughtOrLost, Carried
    <3> QED
      BY <2>1, <3>1, <3>2
  <2>2. \A u \in Users : /\ OnShelves(shelves, u) \subseteq OnShelves(shelves', u)
                         /\ cart[u] \cup owned[u] \subseteq cart'[u] \cup owned'[u]
                         /\ kept'[u] \subseteq kept[u] \cup OnShelves(shelves', u)
    BY <1>2
  <2> QED
    BY <1>1, <1>2, <1>3, <2>1, <2>2, KeptStay
<1>5. PastCartInv'
  <2>1. \A b \in Moving \cap (cart[who] \cup owned[who]) : BoughtOrLost(b, who)'
    BY <1>2 DEF BoughtOrLost
  <2>2. \A b : CarriesBack(stack[k], b) => BoughtOrLost(b, who)' \/ Carried(b)'
    BY <1>3 DEF Rests, BoughtOrLost, Carried
  <2>3. k \in DOMAIN stack' /\ PastCart(stack'[k]) =>
          \/ k \in DOMAIN stack /\ PastCart(stack[k]) /\ stack[k].cmd.book = stack'[k].cmd.book
          \/ \E b : b = stack'[k].cmd.book /\ (BoughtOrLost(b, who)' \/ Carried(b)')
    <3> SUFFICES ASSUME k \in DOMAIN stack', PastCart(stack'[k]),
                        ~ (PastCart(e) /\ e.cmd.book = stack'[k].cmd.book)
                 PROVE  \E b : b = stack'[k].cmd.book /\ (BoughtOrLost(b, who)' \/ Carried(b)')
      BY <1>3
    <3>1. e.op = "toCart"
      BY DEF Went, PastCart
    <3>2. PICK b : b = stack'[k].cmd.book
      OBVIOUS
    <3>3. b \in torn'
      BY <3>1, <3>2 DEF Rests
    <3> QED
      BY <3>2, <3>3 DEF BoughtOrLost
  <2> QED
    BY <1>1, <1>2, <1>3, <2>1, <2>2, <2>3, PastCartStay
<1>6. GivenUpInv'
  <2> SUFFICES ASSUME NEW i \in DOMAIN wire', GivenUp(wire'[i]), wire'[i].cmd.book \notin torn'
               PROVE  \E j \in DOMAIN stack' : PutsDownAfter(i, j)'
    BY DEF GivenUpInv
  <2>1. i \in DOMAIN wire /\ wire'[i] = wire[i] /\ wire'[i].cmd = wire[i].cmd
    BY DEF Went, GivenUp
  <2>2. GivenUp(wire[i]) /\ wire[i].cmd.book \notin torn
    BY <1>2, <2>1
  <2>3. PICK j \in DOMAIN stack : PutsDownAfter(i, j)
    BY <2>1, <2>2 DEF GivenUpInv
  <2>4. CASE j # k
    <3>1. j \in DOMAIN stack' /\ Same(stack[j], stack'[j])
      BY <2>4 DEF Went, SameItself, Calm
    <3>2. \A c \in DOMAIN wire : c \in DOMAIN wire' /\ wire'[c] = wire[c]
      BY DEF Went
    <3>3. PutsDownAfter(i, j)'
      BY <1>1, <2>1, <2>2, <2>3, <3>1, <3>2, PutsDownStill
    <3> QED
      BY <3>1, <3>3
  <2>5. CASE j = k
    <3>1. PICK b, u : b = wire[i].cmd.book /\ u = OwnerOf(wire[i].cmd.shelf)
      OBVIOUS
    <3>2. CarriesHome(e, b, u)
      BY <1>3, <2>3, <2>5, <3>1, Outcomes DEF PutsDownAfter, CarriesHome, Went, Good
    <3>3. k \in DOMAIN stack' /\ CarriesHome(stack[k], b, u)'
      BY <2>1, <3>1, <3>2 DEF Rests
    <3>4. Open(stack'[k]) /\ \E c \in DOMAIN wire' : c > i /\ wire'[c].depth = k
      BY <2>1, <3>3 DEF Went
    <3>5. wire'[i].cmd.book = b /\ OwnerOf(wire[i].cmd.shelf)' = u
      BY <1>2, <2>1, <3>1 DEF OwnerOf
    <3>6. PutsDownAfter(i, k)'
      BY <3>3, <3>4, <3>5 DEF PutsDownAfter, CarriesHome, OwnerOf, Open
    <3> QED
      BY <3>3, <3>6
  <2> QED
    BY <2>4, <2>5
<1> QED
  BY <1>4, <1>5, <1>6

LEMMA WentShelves ==
  ASSUME ShopInv, ClientSame, NEW k, NEW e, Went(k, e), skewed => skewed', lib' = lib,
         ~ Refilling(e)
  PROVE  ShelvesInv'
  BY ShelvesStay DEF ShopInv, ClientSame, Went

LEMMA WentPurchases ==
  ASSUME ShopInv, ClientSame, behind => behind', lib' = lib
  PROVE  PurchasesInv'
  BY PurchasesStay DEF ShopInv, ClientSame

LEMMA WentBasket ==
  ASSUME ShopInv, ClientSame, NEW k, NEW e, Went(k, e), misfilled => misfilled',
         basket' = basket \/ ~ basket'.any,
         ~ Filling(e) \/ (k \in DOMAIN stack' /\ e.op = "clear")
  PROVE  BasketInv'
  BY BasketStay DEF ShopInv, ClientSame, Went, Filling

LEMMA WentHearts ==
  ASSUME ShopInv, ClientSame, NEW k, NEW e, Went(k, e), drifted => drifted',
         hearts' = hearts \/ hearts' = {}, ~ Lands(e)
  PROVE  HeartsInv'
  BY HeartsStay DEF ShopInv, ClientSame, Went

LEMMA WentPage ==
  ASSUME ShopInv, ClientSame, NEW k, NEW e, Went(k, e), UNCHANGED pageVars, ~ OfPage(e)
  PROVE  PageInv'
<1> USE DEF ShopInv
<1>1. \A i \in DOMAIN wire' :
        wire'[i].cmd.do = "review" => \E j \in DOMAIN wire : wire'[i].cmd = wire[j].cmd
  <2> SUFFICES ASSUME NEW i \in DOMAIN wire', i \notin DOMAIN wire
               PROVE  wire'[i].cmd.do # "review"
    BY DEF Went
  <2>1. /\ k \in DOMAIN stack' /\ wire'[i].cmd = stack'[k].cmd /\ stack'[k].op = e.op
        /\ Sends(stack'[k].op, stack'[k].cmd.do)
    BY DEF Went, Sound, Asks
  <2> QED
    BY <2>1 DEF Sends, OnShelf, OfPage
<1>2. /\ UNCHANGED <<page, meant, crossed>> /\ reviews' = reviews /\ who' = who
      /\ k \in DOMAIN stack /\ stack[k] = e /\ Calm(k, stack, stack')
      /\ k \in DOMAIN stack' => stack'[k].op = e.op
  BY DEF pageVars, ClientSame, Went
<1> QED
  BY <1>1, <1>2, PageStay

\* What the client keeps, but for what the step is about.
LEMMA WentClient ==
  ASSUME ShopInv, ClientSame, page' = page, torn' \subseteq Books, hearts' \subseteq Books,
         NEW l, l = lib', IsLib(l),
         basket' \in [any : BOOLEAN, items : SUBSET Books], ~ basket'.any => basket' = NoBasket
  PROVE  ClientInv'
<1>1. Grows
  BY GrowsSame DEF ShopInv, ClientSame
<1>2. IsLib(l)'
  BY <1>1, LibGrows
<1>3. kept' \in [Users -> SUBSET Books]
  BY DEF ClientSame, ShopInv, ClientInv
<1> QED
  BY <1>2, <1>3 DEF ShopInv, ClientInv

\* The shelves of the reply are the user's unless it is old.
LEMMA WentRefilled ==
  ASSUME ShopInv, ClientSame, NEW k, NEW e, Went(k, e), e.cmd.do \in OfShelves, Good(e)
  PROVE  /\ IsListing(e.got.shelves) /\ e.got.owned \subseteq Books
         /\ (lib'.any => lib'.shelves = e.got.shelves /\ skewed' = e.old) => ShelvesInv'
         /\ e.old \/ (e.got.shelves = Listing(shelves, who) /\ e.got.owned = owned[who])
<1>1. /\ IsListing(e.got.shelves) /\ e.got.owned \subseteq Books
      /\ e.old \/ (e.got.shelves = Listing(shelves, who) /\ e.got.owned = owned[who])
  BY DEF Went, Sound, Told, Current, Good
<1>2. Listing(shelves, who)' = Listing(shelves, who)
  BY DEF ClientSame, Listing, Mine
<1>3. (lib'.any => lib'.shelves = e.got.shelves /\ skewed' = e.old) => ShelvesInv'
  BY <1>1, <1>2 DEF ShelvesInv
<1> QED
  BY <1>1, <1>3

\* The cart of the reply is the user's unless it is old.
LEMMA WentFilled ==
  ASSUME ShopInv, ClientSame, NEW k, NEW e, Went(k, e), e.cmd.do \in OfCart, Good(e)
  PROVE  /\ e.got.items \subseteq Books
         /\ basket'.items = e.got.items /\ misfilled' = e.old => BasketInv'
<1>1. e.got.items \subseteq Books /\ (e.old \/ e.got.items = cart[who])
  BY DEF Went, Sound, Told, Current, Good
<1> QED
  BY <1>1 DEF BasketInv, ClientSame

LEMMA NextIs ==
  ASSUME NEW e, IsFrame(e), NEW c, NEW more, NEW f,
         f = [e EXCEPT !.cmd = c, !.more = more, !.got = None, !.old = FALSE]
  PROVE  f = New(e.op, c, more)
<1>1. PICK a, b, m, g, o : e = [op |-> a, cmd |-> b, more |-> m, got |-> g, old |-> o]
  BY DEF IsFrame
<1>2. f \in [op : {a}, cmd : {c}, more : {more}, got : {None}, old : {FALSE}]
  BY <1>1
<1>3. e.op = a
  BY <1>1
<1> QED
  BY <1>2, <1>3 DEF New

LEMMA GoOnWent ==
  ASSUME ShopInv, stack # <<>>, Innermost.got # None, NEW k, k = Len(stack),
         NEW e, e = Innermost, ClientSame, NEW c, NEW more, GoOn(c, more),
         Asks(e.op, c), Follows(e.op, c, more)
  PROVE  Went(k, e) /\ k \in DOMAIN stack' /\ stack'[k] = New(e.op, c, more)
<1>3. PICK f : f = [e EXCEPT !.cmd = c, !.more = more, !.got = None, !.old = FALSE]
  OBVIOUS
<1>1. f = New(e.op, c, more)
  <2>1. IsFrame(e)
    BY Waited
  <2> QED
    BY <1>3, <2>1, NextIs
<1>4. Resume(f)
  BY <1>3 DEF GoOn
<1>5. IsFrame(f) /\ Open(f) /\ f.op = e.op /\ f.cmd = c /\ f.more = more
  BY <1>1, NewIs
<1>6. Asks(f.op, f.cmd) /\ Follows(f.op, f.cmd, f.more)
  BY <1>5
<1> QED
  BY <1>1, <1>4, <1>5, <1>6, ResumeWent

LEMMA NextWent ==
  ASSUME ShopInv, stack # <<>>, Innermost.got # None, NEW k, k = Len(stack),
         NEW e, e = Innermost, ClientSame, NEW more, NextRequest(more),
         more # <<>> => Asks(e.op, Head(more)) /\ Follows(e.op, Head(more), Tail(more))
  PROVE  /\ Went(k, e) /\ (more = <<>> => k \notin DOMAIN stack')
         /\ more # <<>> => k \in DOMAIN stack' /\ stack'[k] = New(e.op, Head(more), Tail(more))
<1>1. CASE more = <<>>
  BY <1>1, EndsWent DEF NextRequest
<1>2. CASE more # <<>>
  <2>1. PICK c, rest : c = Head(more) /\ rest = Tail(more)
    OBVIOUS
  <2>2. GoOn(c, rest)
    BY <1>2, <2>1 DEF NextRequest, GoOn
  <2> QED
    BY <1>2, <2>1, <2>2, GoOnWent
<1> QED
  BY <1>1, <1>2

\* A command of the library goes on or ends.
LEMMA LibraryWent ==
  ASSUME ShopInv, ClientSame, OtherSame, UNCHANGED <<hearts, drifted>>,
         NEW k, NEW e, Went(k, e), Rests(k, e), e.op \in {"read", "shelves", "move", "copy", "wish"},
         torn' \subseteq Books, NEW l, l = lib', IsLib(l), ShelvesInv', PurchasesInv'
  PROVE  ShopInv'
<1>1. e.cmd.do \in OfShelves
  BY DEF Went, Sound, Asks, Sends, OfShelves, OnShelf
<1>2. ~ Lands(e) /\ ~ Filling(e) /\ ~ OfPage(e)
  BY <1>1 DEF Lands, Filling, OfPage, OfShelves, OfCart, OnShelf
<1>3. /\ UNCHANGED <<cart, cartRow, basket, pageVars>> /\ (misfilled => misfilled')
      /\ UNCHANGED <<page, reviews, meant, crossed>>
  BY DEF OtherSame, pageVars
<1>4. BasketInv' /\ HeartsInv' /\ PageInv'
  BY <1>2, <1>3, WentBasket, WentHearts, WentPage
<1>5. KeptInv' /\ PastCartInv' /\ GivenUpInv' /\ WaitsInv' /\ ServerInv'
  BY WentMoves, WentWaits
<1>6. /\ hearts' \subseteq Books /\ basket' \in [any : BOOLEAN, items : SUBSET Books]
      /\ (~ basket'.any => basket' = NoBasket)
  BY <1>3 DEF ShopInv, ClientInv
<1>7. ClientInv'
  BY <1>3, <1>6, WentClient
<1> QED
  BY <1>4, <1>5, <1>7 DEF ShopInv

-----------------------------------------------------------------------------
(* Commands of LibraryService return.                                      *)

\* The shelves of the reply are merged into the cached library.
LEMMA MergeFits ==
  ASSUME ShopInv, ClientSame, NEW k, NEW e, Went(k, e), e = Innermost, Merge,
         e.cmd.do \in OfShelves, NEW l, l = lib'
  PROVE  IsLib(l) /\ ShelvesInv' /\ PurchasesInv'
<1>1. CASE Good(e)
  <2>1. PICK new, own : new = e.got.shelves /\ own = lib.owned
    OBVIOUS
  <2>2. /\ lib' = [lib EXCEPT !.any = TRUE, !.shelves = new] /\ skewed' = e.old
        /\ (behind' <=> behind \/ ~ lib.any)
    BY <1>1, <2>1 DEF Merge, Worked, Good
  <2>3. lib' = [any |-> TRUE, owned |-> own, shelves |-> new]
    BY <2>1, <2>2 DEF ShopInv, ClientInv, IsLib
  <2>4. IsListing(new) /\ ((lib'.any => lib'.shelves = new /\ skewed' = e.old) => ShelvesInv')
    BY <1>1, <2>1, WentRefilled
  <2>5. IsLib(l)
    BY <2>1, <2>3, <2>4 DEF ShopInv, ClientInv, IsLib
  <2>6. ShelvesInv'
    BY <2>2, <2>3, <2>4
  <2>7. PurchasesInv'
    <3>1. lib.any /\ who # Nobody => behind \/ own = owned[who]
      BY <2>1 DEF ShopInv, PurchasesInv
    <3>2. UNCHANGED <<who, owned>>
      BY DEF ClientSame
    <3>3. lib'.owned = own
      BY <2>3
    <3>4. who # Nobody => behind' \/ own = owned[who]
      BY <2>2, <3>1
    <3> QED
      BY <3>2, <3>3, <3>4 DEF PurchasesInv
  <2> QED
    BY <2>5, <2>6, <2>7
<1>2. CASE ~ Good(e)
  <2>1. lib' = lib /\ skewed' = skewed /\ behind' = behind
    BY <1>2 DEF Merge, Worked, Good
  <2>2. ~ Refilling(e)
    BY <1>2 DEF Refilling
  <2> QED
    BY <2>1, <2>2, WentShelves, WentPurchases DEF ShopInv, ClientInv
<1> QED
  BY <1>1, <1>2

LEMMA RefillsWith ==
  ASSUME ShopInv, ClientSame, NEW k, NEW e, Went(k, e), e.cmd.do \in OfShelves, Good(e),
         NEW l, l = lib', l = [any |-> TRUE, owned |-> e.got.owned, shelves |-> e.got.shelves],
         skewed' = e.old, behind' = e.old
  PROVE  IsLib(l) /\ ShelvesInv' /\ PurchasesInv'
<1>1. /\ IsListing(e.got.shelves) /\ e.got.owned \subseteq Books
      /\ (lib'.any => lib'.shelves = e.got.shelves /\ skewed' = e.old) => ShelvesInv'
      /\ e.old \/ e.got.owned = owned[who]
  BY WentRefilled
<1>2. UNCHANGED <<who, owned>>
  BY DEF ClientSame
<1> QED
  BY <1>1, <1>2 DEF IsLib, PurchasesInv

LEMMA Settles ==
  ASSUME NEW k, NEW e, e.op \notin {"move", "again", "toCart"} PROVE Rests(k, e)
  BY DEF Rests, CarriesHome, CarriesBack

\* The library was read.
LEMMA ReadReturnsKeeps ==
  ASSUME ShopInv, ReadReturns, OtherSame PROVE ShopInv'
<1>1. PICK k, e, l : k = Len(stack) /\ e = Innermost /\ l = lib'
  OBVIOUS
<1>2. /\ stack # <<>> /\ Innermost.got # None /\ e.op = "read" /\ Ends /\ torn' = torn
      /\ UNCHANGED <<hearts, drifted>>
  BY <1>1 DEF ReadReturns, Returned
<1>3. ClientSame
  BY DEF ReadReturns, AtClient, ClientSame, OtherSame, pageVars, data
<1>4. Went(k, e) /\ Rests(k, e)
  BY <1>1, <1>2, EndsWent, Settles
<1>5. e.cmd.do \in OfShelves
  BY <1>2, <1>4 DEF Went, Sound, Asks, Sends, OfShelves, OnShelf
<1>6. IsLib(l) /\ ShelvesInv' /\ PurchasesInv'
  <2>1. CASE Good(e)
    <3>1. /\ l = [any |-> TRUE, owned |-> e.got.owned, shelves |-> e.got.shelves]
          /\ skewed' = e.old /\ behind' = e.old
      BY <1>1, <2>1 DEF ReadReturns, Worked, Good
    <3> QED
      BY <1>1, <1>3, <1>4, <1>5, <2>1, <3>1, RefillsWith
  <2>2. CASE ~ Good(e)
    <3>1. lib' = lib /\ skewed' = skewed /\ behind' = behind
      BY <1>1, <2>2 DEF ReadReturns, Worked, Good
    <3>2. ~ Refilling(e)
      BY <2>2 DEF Refilling
    <3> QED
      BY <1>1, <1>3, <1>4, <3>1, <3>2, WentShelves, WentPurchases DEF ShopInv, ClientInv
  <2> QED
    BY <2>1, <2>2
<1>7. torn' \subseteq Books /\ e.op \in {"read", "shelves", "move", "copy", "wish"}
  BY <1>2 DEF ShopInv, ClientInv
<1> QED
  BY <1>1, <1>2, <1>3, <1>4, <1>6, <1>7, LibraryWent

\* createShelf .. removeBook return and refill the cache.
LEMMA ShelvesReturnKeeps ==
  ASSUME ShopInv, ShelvesReturn, OtherSame PROVE ShopInv'
<1>1. PICK k, e, l, more : k = Len(stack) /\ e = Innermost /\ l = lib' /\ more = <<>>
  OBVIOUS
<1>2. /\ stack # <<>> /\ Innermost.got # None /\ e.op = "shelves" /\ NextRequest(more) /\ torn' = torn
      /\ UNCHANGED <<hearts, drifted>> /\ Merge
  BY <1>1 DEF ShelvesReturn, Returned
<1>3. ClientSame
  BY DEF ShelvesReturn, AtClient, ClientSame, OtherSame, pageVars, data
<1>4. Went(k, e) /\ Rests(k, e)
  BY <1>1, <1>2, <1>3, NextWent, Settles
<1>5. e.cmd.do \in OfShelves
  BY <1>2, <1>4 DEF Went, Sound, Asks, Sends, OfShelves, OnShelf
<1>6. IsLib(l) /\ ShelvesInv' /\ PurchasesInv'
  BY <1>1, <1>2, <1>3, <1>4, <1>5, MergeFits
<1>7. torn' \subseteq Books /\ e.op \in {"read", "shelves", "move", "copy", "wish"}
  BY <1>2 DEF ShopInv, ClientInv
<1> QED
  BY <1>1, <1>2, <1>3, <1>4, <1>6, <1>7, LibraryWent

\* toggleSaved's request returns.
LEMMA WishReturnsKeeps ==
  ASSUME ShopInv, WishReturns, OtherSame PROVE ShopInv'
<1>1. PICK k, e, l : k = Len(stack) /\ e = Innermost /\ l = lib'
  OBVIOUS
<1>2. /\ stack # <<>> /\ Innermost.got # None /\ e.op = "wish" /\ Ends /\ torn' = torn
      /\ UNCHANGED <<hearts, drifted, skewed, behind>> /\ lib' = IF Good(e) THEN Empty ELSE lib
  BY <1>1 DEF WishReturns, Returned, Worked, Good
<1>3. ClientSame
  BY DEF WishReturns, AtClient, ClientSame, OtherSame, pageVars, data
<1>4. Went(k, e) /\ Rests(k, e)
  BY <1>1, <1>2, EndsWent, Settles
<1>6. IsLib(l) /\ ShelvesInv' /\ PurchasesInv'
  <2>1. CASE Good(e)
    BY <1>1, <1>2, <2>1, EmptyFits, BasketTypes DEF ShelvesInv, PurchasesInv
  <2>2. CASE ~ Good(e)
    <3>1. lib' = lib /\ skewed' = skewed /\ behind' = behind
      BY <1>2, <2>2
    <3>2. ~ Refilling(e)
      BY <2>2 DEF Refilling
    <3> QED
      BY <1>1, <1>3, <1>4, <3>1, <3>2, WentShelves, WentPurchases DEF ShopInv, ClientInv
  <2> QED
    BY <2>1, <2>2
<1>7. torn' \subseteq Books /\ e.op \in {"read", "shelves", "move", "copy", "wish"}
  BY <1>2 DEF ShopInv, ClientInv
<1> QED
  BY <1>1, <1>2, <1>3, <1>4, <1>6, <1>7, LibraryWent

LEMMA One ==
  ASSUME NEW x, NEW s, s = <<x>>
  PROVE  s # <<>> /\ Head(s) = x /\ Tail(s) = <<>> /\ Len(s) = 1
  OBVIOUS

LEMMA AskedNext ==
  ASSUME NEW op, NEW s, AsksAll(op, s), s # <<>>
  PROVE  /\ Asks(op, Head(s)) /\ AsksAll(op, Tail(s))
         /\ \A do : (\A i \in DOMAIN s : s[i].do = do) =>
              Head(s).do = do /\ \A i \in DOMAIN Tail(s) : Tail(s)[i].do = do
<1>1. /\ IsSeq(s) /\ IsSeq(Tail(s)) /\ Len(s) \in Nat \ {0} /\ Len(Tail(s)) = Len(s) - 1
      /\ Head(s) = s[1] /\ \A i \in 1 .. Len(s) - 1 : Tail(s)[i] = s[i + 1]
  BY TailSeq DEF AsksAll
<1>2. DOMAIN s = 1 .. Len(s) /\ DOMAIN Tail(s) = 1 .. Len(s) - 1
  BY <1>1, SeqShape
<1>3. /\ 1 \in DOMAIN s /\ Head(s) = s[1]
      /\ \A i \in DOMAIN Tail(s) : i + 1 \in DOMAIN s /\ Tail(s)[i] = s[i + 1]
  BY <1>1, <1>2
<1> QED
  BY <1>1, <1>3 DEF AsksAll

\* moveBookBetweenShelves: the first half returns and the second is sent, or
\* the second returns.
LEMMA MoveReturnsKeeps ==
  ASSUME ShopInv, MoveReturns, OtherSame PROVE ShopInv'
<1>1. PICK k, e, l, more, c :
        k = Len(stack) /\ e = Innermost /\ l = lib' /\ more = e.more /\ c = e.cmd
  OBVIOUS
<1>2. /\ stack # <<>> /\ Innermost.got # None /\ e.op = "move" /\ NextRequest(more)
      /\ UNCHANGED <<hearts, drifted>> /\ Merge
      /\ torn' = IF more = <<>> /\ ~ Good(e) THEN torn \cup {c.book} ELSE torn
  BY <1>1 DEF MoveReturns, Returned, Worked, Good
<1>3. ClientSame
  BY <1>2 DEF MoveReturns, AtClient, ClientSame, OtherSame, pageVars, data
<1>4. Asks("move", c) /\ Follows("move", c, more)
  BY <1>1, <1>2, Waited DEF Sound
<1>5. c.do \in {"add", "drop"} /\ c.do \in OfShelves /\ c.book \in Books /\ c.shelf \in DOMAIN shelves
  BY <1>4 DEF Asks, Sends, OfShelves, OnShelf
<1>6. c.do = "drop" => \E t \in DOMAIN shelves :
                         /\ OwnerOf(t) = OwnerOf(c.shelf)
                         /\ more = <<[do |-> "add", shelf |-> t, book |-> c.book]>>
  BY <1>4 DEF Follows
<1>7. c.do = "add" => more = <<>>
  BY <1>4 DEF Follows
<1>8. ASSUME NEW t \in DOMAIN shelves, NEW a, a = [do |-> "add", shelf |-> t, book |-> c.book]
      PROVE  Asks("move", a) /\ Follows("move", a, <<>>)
  BY <1>5, <1>8 DEF Asks, Sends, OnShelf, Follows
<1>9. more # <<>> => Asks(e.op, Head(more)) /\ Follows(e.op, Head(more), Tail(more))
  <2> SUFFICES ASSUME more # <<>> PROVE Asks(e.op, Head(more)) /\ Follows(e.op, Head(more), Tail(more))
    OBVIOUS
  <2>1. PICK t \in DOMAIN shelves : more = <<[do |-> "add", shelf |-> t, book |-> c.book]>>
    BY <1>5, <1>6, <1>7
  <2>2. PICK a : a = [do |-> "add", shelf |-> t, book |-> c.book]
    OBVIOUS
  <2>3. Head(more) = a /\ Tail(more) = <<>>
    BY <2>1, <2>2, One
  <2> QED
    BY <1>2, <1>8, <2>2, <2>3
<1>10. /\ Went(k, e) /\ (more = <<>> => k \notin DOMAIN stack')
       /\ more # <<>> => k \in DOMAIN stack' /\ stack'[k] = New(e.op, Head(more), Tail(more))
  BY <1>1, <1>2, <1>3, <1>9, NextWent
<1>11. Rests(k, e)
  <2>1. ASSUME NEW b, NEW u, CarriesHome(e, b, u), b \notin torn'
        PROVE  k \in DOMAIN stack' /\ CarriesHome(stack[k], b, u)'
    <3>1. c.book = b /\ OwnerOf(c.shelf) = u /\ (c.do = "drop" \/ ~ Good(e))
      BY <1>1, <2>1 DEF CarriesHome
    <3>2. c.do = "drop"
      BY <1>2, <1>5, <1>7, <2>1, <3>1
    <3>3. PICK t \in DOMAIN shelves : /\ OwnerOf(t) = OwnerOf(c.shelf)
                                      /\ more = <<[do |-> "add", shelf |-> t, book |-> c.book]>>
      BY <1>6, <3>2
    <3>4. PICK a : a = [do |-> "add", shelf |-> t, book |-> c.book]
      OBVIOUS
    <3>5. more # <<>> /\ Head(more) = a
      BY <3>3, <3>4, One
    <3>6. k \in DOMAIN stack' /\ stack'[k].op = "move" /\ stack'[k].cmd = a /\ ~ Good(stack'[k])
      BY <1>2, <1>10, <3>5, NewIs
    <3>7. a.book = b /\ OwnerOf(a.shelf)' = u
      BY <1>3, <3>1, <3>3, <3>4 DEF OwnerOf, ClientSame
    <3> QED
      BY <3>6, <3>7 DEF CarriesHome, Good, OwnerOf
  <2> QED
    BY <1>2, <2>1 DEF Rests, CarriesBack
<1>12. IsLib(l) /\ ShelvesInv' /\ PurchasesInv'
  BY <1>1, <1>2, <1>3, <1>5, <1>10, MergeFits
<1>13. torn' \subseteq Books /\ e.op \in {"read", "shelves", "move", "copy", "wish"}
  BY <1>2, <1>5 DEF ShopInv, ClientInv
<1> QED
  BY <1>1, <1>2, <1>3, <1>10, <1>11, <1>12, <1>13, LibraryWent

\* The books of the cached shelf, one request each.
LEMMA AddEachFits ==
  ASSUME NEW books, IsSeq(books), ToSet(books) \subseteq Books, NEW s \in DOMAIN shelves,
         NEW more, more = AddEach(books, s)
  PROVE  AsksAll("copy", more) /\ \A i \in DOMAIN more : more[i].do = "add"
<1>1. Len(books) \in Nat /\ DOMAIN books = 1 .. Len(books) /\ \A i \in 1 .. Len(books) : books[i] \in Books
  BY SeqShape
<1>2. /\ DOMAIN more = 1 .. Len(books) /\ more \in [1 .. Len(books) -> ToSet(more)]
      /\ \A i \in 1 .. Len(books) : more[i] = [do |-> "add", shelf |-> s, book |-> books[i]]
  BY <1>1 DEF AddEach, ToSet
<1>3. IsSeq(more)
  BY <1>1, <1>2, SeqMade
<1>4. ASSUME NEW b \in Books, NEW a, a = [do |-> "add", shelf |-> s, book |-> b]
      PROVE  Asks("copy", a) /\ a.do = "add"
  BY <1>4 DEF Asks, Sends, OnShelf
<1> QED
  BY <1>1, <1>2, <1>3, <1>4 DEF AsksAll

\* duplicateShelf: the copy is made and its books are added one by one.
LEMMA DuplicateReturnsKeeps ==
  ASSUME ShopInv, DuplicateReturns, OtherSame PROVE ShopInv'
<1>1. PICK k, e, l, c :
        k = Len(stack) /\ e = Innermost /\ l = lib' /\ c = e.cmd
  OBVIOUS
<1>2. /\ stack # <<>> /\ Innermost.got # None /\ e.op = "copy"
      /\ UNCHANGED <<hearts, drifted>> /\ Merge /\ torn' = torn
  BY <1>1 DEF DuplicateReturns, Returned
<1>3. ClientSame
  BY DEF DuplicateReturns, AtClient, ClientSame, OtherSame, pageVars, data
<1>4. Sound(e) /\ Asks("copy", c) /\ Follows("copy", c, e.more)
  BY <1>1, <1>2, Waited DEF Sound
<1>5. c.do \in {"create", "add"} /\ c.do \in OfShelves
  BY <1>4 DEF Asks, Sends, OfShelves, OnShelf
<1>6. PICK more : /\ NextRequest(more)
                  /\ AsksAll("copy", more) /\ \A i \in DOMAIN more : more[i].do = "add"
  <2>1. AsksAll("copy", <<>>) /\ DOMAIN <<>> = {}
    BY DEF AsksAll, IsSeq, ToSet
  <2>2. CASE c.do # "create"
    <3>1. NextRequest(e.more)
      BY <1>1, <2>2 DEF DuplicateReturns
    <3> QED
      BY <1>4, <2>2, <3>1 DEF Follows
  <2>3. CASE c.do = "create" /\ ~ Good(e)
    <3>1. NextRequest(<<>>)
      BY <1>1, <2>3 DEF DuplicateReturns, Worked, Good
    <3> QED
      BY <2>1, <3>1
  <2>4. CASE c.do = "create" /\ Good(e)
    <3>1. PICK s, list, m : list = e.got.shelves /\ s = Last(list).id /\ m = AddEach(e.more, s)
      OBVIOUS
    <3>2. NextRequest(m)
      BY <1>1, <2>4, <3>1 DEF DuplicateReturns, Worked, Good
    <3>3. IsListing(list) /\ list # <<>>
      BY <1>1, <1>4, <2>4, <3>1 DEF Sound, Told, OfShelves, Good
    <3>4. s \in DOMAIN shelves
      <4>1. IsSeq(list)
        BY <3>3 DEF IsListing
      <4>2. Last(list) = list[Len(list)] /\ Len(list) \in DOMAIN list
        BY <3>3, <4>1, FrontSeq, SeqShape
      <4> QED
        BY <3>1, <3>3, <4>2 DEF IsListing, IsListed
    <3>5. IsSeq(e.more) /\ ToSet(e.more) \subseteq Books
      BY <1>4, <2>4 DEF Follows
    <3>6. AsksAll("copy", m) /\ \A i \in DOMAIN m : m[i].do = "add"
      BY <3>1, <3>4, <3>5, AddEachFits
    <3> QED
      BY <3>2, <3>6
  <2> QED
    BY <2>2, <2>3, <2>4
<1>7. more # <<>> => Asks(e.op, Head(more)) /\ Follows(e.op, Head(more), Tail(more))
  <2> SUFFICES ASSUME more # <<>> PROVE Asks("copy", Head(more)) /\ Follows("copy", Head(more), Tail(more))
    BY <1>2
  <2>1. PICK a, rest : a = Head(more) /\ rest = Tail(more)
    OBVIOUS
  <2>2. /\ Asks("copy", a) /\ AsksAll("copy", rest) /\ a.do = "add"
        /\ \A i \in DOMAIN rest : rest[i].do = "add"
    BY <1>6, <2>1, AskedNext
  <2> QED
    BY <2>1, <2>2 DEF Follows
<1>8. Went(k, e) /\ Rests(k, e)
  BY <1>1, <1>2, <1>3, <1>6, <1>7, NextWent, Settles
<1>9. IsLib(l) /\ ShelvesInv' /\ PurchasesInv'
  BY <1>1, <1>2, <1>3, <1>5, <1>8, MergeFits
<1>10. torn' \subseteq Books /\ e.op \in {"read", "shelves", "move", "copy", "wish"}
  BY <1>2 DEF ShopInv, ClientInv
<1> QED
  BY <1>1, <1>2, <1>3, <1>8, <1>9, <1>10, LibraryWent

-----------------------------------------------------------------------------
(* Commands of the hearts return.                                          *)

\* A command of the hearts goes on or ends.
LEMMA HeartWent ==
  ASSUME ShopInv, ClientSame, OtherSame, UNCHANGED <<lib, skewed, behind>>, torn' = torn,
         NEW k, NEW e, Went(k, e), e.op \in {"hearts", "heart"}, hearts' \subseteq Books, HeartsInv'
  PROVE  ShopInv'
<1>1. e.cmd.do \in OfShelves /\ Rests(k, e)
  BY Settles DEF Went, Sound, Asks, Sends, OfShelves, OnShelf
<1>2. ~ Refilling(e) /\ ~ Filling(e) /\ ~ OfPage(e)
  BY <1>1 DEF Refilling, Refills, Filling, OfPage, OfShelves, OfCart, OnShelf
<1>3. /\ UNCHANGED <<cart, cartRow, basket, pageVars>> /\ (misfilled => misfilled')
      /\ UNCHANGED <<page, reviews, meant, crossed>>
  BY DEF OtherSame, pageVars
<1>4. BasketInv' /\ ShelvesInv' /\ PurchasesInv' /\ PageInv'
  BY <1>2, <1>3, WentBasket, WentShelves, WentPurchases, WentPage
<1>5. KeptInv' /\ PastCartInv' /\ GivenUpInv' /\ WaitsInv' /\ ServerInv'
  BY <1>1, WentMoves, WentWaits
<1>6. /\ torn' \subseteq Books /\ basket' \in [any : BOOLEAN, items : SUBSET Books]
      /\ (~ basket'.any => basket' = NoBasket)
  BY <1>3 DEF ShopInv, ClientInv
<1>7. ClientInv'
  <2>1. PICK l : l = lib'
    OBVIOUS
  <2>2. IsLib(l)
    BY <2>1 DEF ShopInv, ClientInv
  <2> QED
    BY <1>3, <1>6, <2>1, <2>2, WentClient
<1> QED
  BY <1>4, <1>5, <1>7 DEF ShopInv

\* Books that are in the server's list may join the hearts, and those that are not
\* leave them: a heart that has its reply makes the list right as before.
LEMMA LandsStill ==
  ASSUME ShopInv, ClientSame, NEW k, NEW e, Went(k, e), NEW X, NEW Y, NEW W,
         W = Wished(shelves), X \subseteq W, Y \cap W = {}, hearts' = (hearts \cup X) \ Y
  PROVE  \A i \in DOMAIN stack : i # k /\ Lands(stack[i]) => i \in DOMAIN stack' /\ Lands(stack[i])'
<1>1. Wished(shelves)' = W
  BY DEF ClientSame, Wished, Listing, Mine
<1> SUFFICES ASSUME NEW i \in DOMAIN stack, i # k, Lands(stack[i])
             PROVE  i \in DOMAIN stack' /\ Lands(stack[i])'
  OBVIOUS
<1>2. PICK f, c, h : f = stack[i] /\ c = f.cmd /\ h = hearts'
  OBVIOUS
<1>3. i \in DOMAIN stack' /\ stack'[i] = f
  BY <1>2 DEF Went
<1>4. /\ f.op = "heart" /\ c.do # "get" /\ Good(f)
      /\ f.old \/ ~ Visible(f) \/ Applied(c, hearts) = W
  BY <1>2 DEF Lands
<1>5. Applied(c, hearts) = W => Applied(c, h) = W
  BY <1>2 DEF Applied
<1>6. Lands(f)'
  BY <1>1, <1>2, <1>4, <1>5 DEF Lands
<1> QED
  BY <1>2, <1>3, <1>6 DEF Lands

\* BookService's wishlist is fetched.
LEMMA HeartsReturnKeeps ==
  ASSUME ShopInv, HeartsReturn, OtherSame PROVE ShopInv'
<1>1. PICK k, e, W : k = Len(stack) /\ e = Innermost /\ W = Wished(shelves)
  OBVIOUS
<1>2. /\ stack # <<>> /\ Innermost.got # None /\ e.op = "hearts" /\ Ends /\ torn' = torn
      /\ UNCHANGED <<lib, skewed, behind>>
  BY <1>1 DEF HeartsReturn, Returned
<1>3. ClientSame
  BY DEF HeartsReturn, AtClient, ClientSame, OtherSame, pageVars, data
<1>4. Went(k, e)
  BY <1>1, <1>2, EndsWent
<1>5. e.cmd.do \in OfShelves /\ ~ Lands(e)
  BY <1>2, <1>4 DEF Went, Sound, Asks, Sends, OfShelves, OnShelf, Lands
<1>6. CASE ~ Good(e)
  <2>1. UNCHANGED <<hearts, drifted>>
    BY <1>1, <1>6 DEF HeartsReturn, Worked, Good
  <2>2. HeartsInv'
    BY <1>3, <1>4, <1>5, <2>1, WentHearts
  <2> QED
    BY <1>2, <1>3, <1>4, <2>1, <2>2, HeartWent DEF ShopInv, ClientInv
<1>7. CASE Good(e)
  <2>1. PICK now, list : list = e.got.shelves /\ now = WishBooks(list)
    OBVIOUS
  <2>2. hearts' = hearts \cup now /\ (drifted' <=> e.old \/ (hearts # {} /\ drifted))
    BY <1>1, <1>7, <2>1 DEF HeartsReturn, Worked, Good
  <2>3. IsListing(list) /\ (e.old \/ list = Listing(shelves, who)) /\ who # Nobody
    BY <1>3, <1>4, <1>5, <1>7, <2>1, WentRefilled, WentWaits
  <2>4. now \subseteq Books
    BY <2>1, <2>3, WishIs DEF IsListing, IsListed, WishBooks
  <2>5. HeartsInv'
    <3> SUFFICES ASSUME ~ drifted' PROVE HeartsInv'
      BY DEF HeartsInv
    <3>1. ~ e.old /\ now = W /\ (hearts = {} \/ ~ drifted)
      BY <1>1, <2>1, <2>2, <2>3 DEF Wished
    <3>2. Wished(shelves)' = W
      BY <1>1, <1>3 DEF ClientSame, Wished, Listing, Mine
    <3>3. CASE hearts = {} \/ hearts = W
      BY <2>2, <3>1, <3>2, <3>3 DEF HeartsInv
    <3>4. CASE ~ (hearts = {} \/ hearts = W)
      <4>1. PICK i \in DOMAIN stack : Lands(stack[i])
        BY <1>1, <2>3, <3>1, <3>4 DEF ShopInv, HeartsInv
      <4>2. i # k
        BY <1>4, <1>5, <4>1 DEF Went
      <4>3. PICK Y : Y = {}
        OBVIOUS
      <4>4. now \subseteq W /\ Y \cap W = {} /\ hearts' = (hearts \cup now) \ Y
        BY <2>2, <3>1, <4>3
      <4>5. i \in DOMAIN stack' /\ Lands(stack[i])'
        BY <1>1, <1>3, <1>4, <4>1, <4>2, <4>4, LandsStill
      <4> QED
        BY <4>5 DEF HeartsInv
    <3> QED
      BY <3>3, <3>4
  <2>6. hearts' \subseteq Books
    BY <2>2, <2>4 DEF ShopInv, ClientInv
  <2> QED
    BY <1>2, <1>3, <1>4, <2>5, <2>6, HeartWent
<1> QED
  BY <1>6, <1>7

\* toggleWishlist: the list is there and the heart is sent.
LEMMA HeartGoesKeeps ==
  ASSUME ShopInv, HeartGoes, OtherSame PROVE ShopInv'
<1>1. PICK k, e, b, list :
        k = Len(stack) /\ e = Innermost /\ b = e.cmd.book /\ list = e.got.shelves
  OBVIOUS
<1>2. /\ stack # <<>> /\ Innermost.got # None /\ e.op = "heart" /\ e.cmd.do = "get"
      /\ UNCHANGED <<lib, skewed, behind>> /\ torn' = torn
  BY <1>1 DEF HeartGoes, Returned
<1>3. ClientSame
  BY DEF HeartGoes, AtClient, ClientSame, OtherSame, pageVars, data
<1>4. Sound(e) /\ b \in Books /\ e.cmd.do \in OfShelves
  BY <1>1, <1>2, Waited DEF Sound, Asks, OfShelves
<1>5. CASE Worked /\ WishPlace(list) # 0
  <2>1. PICK c, s, none : /\ none = <<>> /\ s = list[WishPlace(list)].id
                    /\ c = [do |-> IF b \in WishBooks(list) THEN "drop" ELSE "add",
                            shelf |-> s, book |-> b]
    OBVIOUS
  <2>2. /\ Resume([Innermost EXCEPT !.cmd = c, !.got = None, !.old = FALSE])
        /\ UNCHANGED <<hearts, drifted>>
    BY <1>1, <1>5, <2>1 DEF HeartGoes
  <2>3. PICK f : f = [e EXCEPT !.cmd = c, !.got = None, !.old = FALSE]
    OBVIOUS
  <2>4. IsFrame(f) /\ Open(f) /\ f.op = e.op /\ f.cmd = c
    <3>1. IsFrame(e)
      BY <1>1, <1>2, Waited
    <3>2. PICK a, x, m, g, o : e = [op |-> a, cmd |-> x, more |-> m, got |-> g, old |-> o]
      BY <3>1 DEF IsFrame
    <3>3. f \in [op : {a}, cmd : {c}, more : {m}, got : {None}, old : {FALSE}] /\ e.op = a
      BY <2>3, <3>2
    <3> QED
      BY <3>3 DEF IsFrame, Open
  <2>5. s \in DOMAIN shelves
    <3>1. IsListing(list)
      BY <1>1, <1>4, <1>5 DEF Sound, Told, Worked
    <3> QED
      BY <1>5, <2>1, <3>1, WishIs DEF IsListing, IsListed
  <2>6. Asks("heart", c)
    BY <1>4, <2>1, <2>5 DEF Asks, Sends, OnShelf
  <2>7. Follows("heart", c, f.more)
    BY DEF Follows
  <2>8. Resume(f)
    BY <1>1, <2>2, <2>3
  <2>9. Went(k, e)
    BY <1>1, <1>2, <1>3, <2>4, <2>6, <2>7, <2>8, ResumeWent
  <2>10. HeartsInv'
    BY <1>2, <1>3, <2>2, <2>9, WentHearts DEF Lands
  <2> QED
    BY <1>2, <1>3, <2>2, <2>9, <2>10, HeartWent DEF ShopInv, ClientInv
<1>6. CASE ~ (Worked /\ WishPlace(list) # 0)
  <2>1. Ends /\ hearts' = Flip(hearts, b) /\ drifted' = TRUE
    BY <1>1, <1>6 DEF HeartGoes
  <2>2. Went(k, e)
    BY <1>1, <1>2, <2>1, EndsWent
  <2>3. hearts' \subseteq Books
    BY <1>4, <2>1 DEF Flip, ShopInv, ClientInv
  <2>4. HeartsInv'
    BY <2>1 DEF HeartsInv
  <2> QED
    BY <1>2, <1>3, <2>2, <2>3, <2>4, HeartWent
<1> QED
  BY <1>5, <1>6

\* toggleWishlist: the reply changes the cached hearts by the one book.
LEMMA HeartReturnsKeeps ==
  ASSUME ShopInv, HeartReturns, OtherSame PROVE ShopInv'
<1>1. PICK k, e, b, c, W, now :
        /\ k = Len(stack) /\ e = Innermost /\ c = e.cmd /\ b = c.book /\ W = Wished(shelves)
        /\ now = WishBooks(e.got.shelves)
  OBVIOUS
<1>2. /\ stack # <<>> /\ Innermost.got # None /\ e.op = "heart" /\ c.do # "get" /\ Ends
      /\ UNCHANGED <<lib, skewed, behind>> /\ torn' = torn
  BY <1>1 DEF HeartReturns, Returned
<1>3. ClientSame
  BY DEF HeartReturns, AtClient, ClientSame, OtherSame, pageVars, data
<1>4. Went(k, e)
  BY <1>1, <1>2, EndsWent
<1>5. b \in Books /\ c.do \in OfShelves /\ c.do \in {"add", "drop"} /\ who # Nobody
  BY <1>1, <1>2, <1>3, <1>4, WentWaits DEF Went, Sound, Asks, Sends, OfShelves, OnShelf
<1>6. CASE ~ Good(e)
  <2>1. UNCHANGED <<hearts, drifted>>
    BY <1>1, <1>6 DEF HeartReturns, Worked, Good
  <2>2. HeartsInv'
    BY <1>3, <1>4, <1>6, <2>1, WentHearts DEF Lands
  <2> QED
    BY <1>2, <1>3, <1>4, <2>1, <2>2, HeartWent DEF ShopInv, ClientInv
<1>7. CASE Good(e)
  <2>1. /\ hearts' = Applied(c, hearts)
        /\ drifted' <=> (drifted \/ HeartAstray)
    BY <1>1, <1>7 DEF HeartReturns, Worked, Good, Applied
  <2>2. hearts' \subseteq Books
    BY <1>1, <1>5, <2>1 DEF Applied, ShopInv, ClientInv
  <2>3. HeartsInv'
    <3> SUFFICES ASSUME ~ drifted' PROVE HeartsInv'
      BY DEF HeartsInv
    <3>1. /\ ~ drifted /\ ~ e.old /\ (hearts = {} => now \ {b} = {})
          /\ (b \in now) = (c.do = "add")
      BY <1>1, <2>1 DEF HeartAstray
    <3>2. now = W
      BY <1>1, <1>3, <1>4, <1>5, <1>7, <3>1, WentRefilled DEF Wished
    <3>3. Wished(shelves)' = W
      BY <1>1, <1>3 DEF ClientSame, Wished, Listing, Mine
    <3>4. CASE hearts = {} \/ hearts = W
      <4>1. Applied(c, hearts) = W \/ Applied(c, hearts) = {}
        BY <1>1, <1>5, <3>1, <3>2, <3>4 DEF Applied
      <4> QED
        BY <2>1, <3>3, <4>1 DEF HeartsInv
    <3>5. CASE ~ (hearts = {} \/ hearts = W)
      <4>1. PICK i \in DOMAIN stack : Lands(stack[i])
        BY <1>1, <1>5, <3>1, <3>5 DEF ShopInv, HeartsInv
      <4>2. CASE i = k
        <5>1. Applied(c, hearts) = W
          BY <1>1, <1>4, <3>1, <4>1, <4>2 DEF Lands, Visible, Went
        <5> QED
          BY <2>1, <3>3, <5>1 DEF HeartsInv
      <4>3. CASE i # k
        <5>1. PICK X, Y : /\ X = IF c.do = "add" THEN {b} ELSE {}
                          /\ Y = IF c.do = "add" THEN {} ELSE {b}
          OBVIOUS
        <5>2. X \subseteq W /\ Y \cap W = {}
          BY <1>5, <3>1, <3>2, <5>1
        <5>3. hearts' = (hearts \cup X) \ Y
          BY <1>1, <1>5, <2>1, <5>1 DEF Applied
        <5>4. i \in DOMAIN stack' /\ Lands(stack[i])'
          BY <1>1, <1>3, <1>4, <4>1, <4>3, <5>2, <5>3, LandsStill
        <5> QED
          BY <5>4 DEF HeartsInv
      <4> QED
        BY <4>2, <4>3
    <3> QED
      BY <3>4, <3>5
  <2> QED
    BY <1>2, <1>3, <1>4, <2>2, <2>3, HeartWent
<1> QED
  BY <1>6, <1>7

-----------------------------------------------------------------------------
(* Commands of the cart return.                                            *)

\* A command of the cart goes on or ends.
LEMMA CartWent ==
  ASSUME ShopInv, ClientSame, UNCHANGED <<lib, skewed, behind, pageVars>>,
         NEW k, NEW e, Went(k, e), Rests(k, e),
         e.op \in {"cart", "clear", "again", "checkout", "toCart"}, ~ Refilling(e),
         hearts' \in {hearts, {}}, drifted' = drifted, torn' \subseteq Books,
         basket' \in [any : BOOLEAN, items : SUBSET Books], ~ basket'.any => basket' = NoBasket,
         BasketInv'
  PROVE  ShopInv'
<1>1. ~ Lands(e) /\ ~ OfPage(e)
  BY DEF Lands, OfPage
<1>2. ShelvesInv' /\ PurchasesInv' /\ PageInv' /\ HeartsInv'
  BY <1>1, WentShelves, WentPurchases, WentPage, WentHearts
<1>3. KeptInv' /\ PastCartInv' /\ GivenUpInv' /\ WaitsInv' /\ ServerInv'
  BY WentMoves, WentWaits
<1>4. ClientInv'
  <2>1. PICK l : l = lib'
    OBVIOUS
  <2>2. IsLib(l) /\ hearts' \subseteq Books /\ page' = page
    BY <2>1 DEF ShopInv, ClientInv, pageVars
  <2> QED
    BY <2>1, <2>2, WentClient
<1> QED
  BY <1>2, <1>3, <1>4 DEF ShopInv

\* The cart of the reply fills the cache.
LEMMA FillFits ==
  ASSUME ShopInv, ClientSame, NEW k, NEW e, Went(k, e), e = Innermost, Fill,
         Good(e) => e.cmd.do \in OfCart, e.op # "clear"
  PROVE  /\ basket' \in [any : BOOLEAN, items : SUBSET Books] /\ (~ basket'.any => basket' = NoBasket)
         /\ BasketInv'
<1>1. CASE Good(e)
  <2>1. basket' = [any |-> TRUE, items |-> e.got.items] /\ misfilled' = e.old
    BY <1>1 DEF Fill, Worked, Good
  <2>2. e.got.items \subseteq Books /\ (basket'.items = e.got.items /\ misfilled' = e.old => BasketInv')
    BY <1>1, WentFilled
  <2> QED
    BY <2>1, <2>2
<1>2. CASE ~ Good(e)
  <2>1. basket' = basket /\ misfilled' = misfilled
    BY <1>2 DEF Fill, Worked, Good
  <2>2. ~ Filling(e)
    BY <1>2 DEF Filling
  <2> QED
    BY <2>1, <2>2, WentBasket DEF ShopInv, ClientInv
<1> QED
  BY <1>1, <1>2

LEMMA EmptiedFits ==
  ASSUME basket' = NoBasket
  PROVE  /\ basket' \in [any : BOOLEAN, items : SUBSET Books] /\ (~ basket'.any => basket' = NoBasket)
         /\ BasketInv'
  BY BasketTypes DEF BasketInv, NoBasket

LEMMA AsksCart ==
  /\ \A op : op \in {"cart", "clear", "checkout"} => Asks(op, FetchCart)
  /\ \A more : Follows("cart", FetchCart, more)
  /\ FetchCart.do = "cart"
  BY DEF Asks, Sends, OnShelf, FetchCart, Follows

\* A command of CartService returns and refills its cache.
LEMMA CartReturnsKeeps ==
  ASSUME ShopInv, CartReturns PROVE ShopInv'
<1>1. PICK k, e : k = Len(stack) /\ e = Innermost
  OBVIOUS
<1>2. /\ stack # <<>> /\ Innermost.got # None /\ e.op = "cart"
      /\ UNCHANGED <<lib, skewed, behind, pageVars, hearts, drifted, torn>>
  BY <1>1 DEF CartReturns, Returned, AddingReturns, LibraryKept, HeartsKept, MovesKept, ShopAtClient
<1>3. ClientSame
  BY <1>2 DEF CartReturns, ShopAtClient, AtClient, ClientSame, pageVars, data
<1>4. Sound(e) /\ e.cmd.do \in OfCart
  BY <1>1, <1>2, Waited DEF Sound, Asks, Sends, OfCart, OnShelf
<1>5. /\ Went(k, e) /\ BasketInv'
      /\ basket' \in [any : BOOLEAN, items : SUBSET Books] /\ (~ basket'.any => basket' = NoBasket)
  <2>1. CASE Fill /\ Ends
    <3>1. Went(k, e)
      BY <1>1, <1>2, <2>1, EndsWent
    <3> QED
      BY <1>1, <1>2, <1>3, <1>4, <2>1, <3>1, FillFits
  <2>2. CASE basket' = NoBasket /\ GoOn(FetchCart, Innermost.more)
    <3>1. PICK more, c : more = Innermost.more /\ c = FetchCart
      OBVIOUS
    <3>2. Asks("cart", c) /\ Follows("cart", c, more)
      BY <3>1, AsksCart
    <3>3. Went(k, e)
      BY <1>1, <1>2, <1>3, <2>2, <3>1, <3>2, GoOnWent
    <3> QED
      BY <2>2, <3>3, EmptiedFits
  <2> QED
    BY <2>1, <2>2 DEF CartReturns, AddingReturns
<1>6. Rests(k, e) /\ ~ Refilling(e)
  BY <1>2, Settles DEF Refilling, Refills
<1> QED
  BY <1>2, <1>3, <1>5, <1>6, CartWent DEF ShopInv, ClientInv

\* The books of the cache, one request each.
LEMMA EachTakenFits ==
  ASSUME NEW items, items \subseteq Books, NEW takes, takes = EachTaken(items)
  PROVE  AsksAll("clear", takes)
<1> DEFINE S == {Take(b) : b \in items}
<1>1. IsFiniteSet(S)
  <2>1. IsFiniteSet(items)
    BY LibraryAssumption, FS_Subset DEF LibraryAssumption
  <2>2. PICK f : f = [b \in items |-> Take(b)]
    OBVIOUS
  <2>3. f \in Surjection(items, S)
    BY <2>2 DEF Surjection
  <2> QED
    BY <2>1, <2>3, FS_Surjection
<1>2. IsSeq(takes) /\ ToSet(takes) \subseteq S
  <2>1. takes = SetToSeq(S)
    BY DEF EachTaken
  <2> HIDE DEF S
  <2> QED
    BY <1>1, <2>1, SetSeq
<1>3. \A c \in S : Asks("clear", c)
  BY DEF Asks, Sends, OnShelf, Take
<1>4. \A i \in DOMAIN takes : takes[i] \in S
  BY <1>2 DEF ToSet
<1> QED
  BY <1>2, <1>3, <1>4 DEF AsksAll

\* clear, with a request for each book of the cache when the first failed.
LEMMA ClearReturnsKeeps ==
  ASSUME ShopInv, ClearReturns PROVE ShopInv'
<1>1. PICK k, e, c : k = Len(stack) /\ e = Innermost /\ c = e.cmd
  OBVIOUS
<1>2. /\ stack # <<>> /\ Innermost.got # None /\ e.op = "clear" /\ misfilled' = misfilled
      /\ UNCHANGED <<lib, skewed, behind, pageVars, hearts, drifted, torn>>
  BY <1>1 DEF ClearReturns, Returned, LibraryKept, HeartsKept, MovesKept, ShopAtClient
<1>3. ClientSame
  BY <1>2 DEF ClearReturns, ShopAtClient, AtClient, ClientSame, pageVars, data
<1>4. Sound(e) /\ c.do \in {"empty", "cart", "take"} /\ AsksAll("clear", e.more)
  <2>1. Sound(e)
    BY <1>1, <1>2, Waited
  <2>2. Sends("clear", c.do) /\ AsksAll("clear", e.more)
    BY <1>1, <1>2, <2>1 DEF Sound, Asks, Follows
  <2> QED
    BY <2>1, <2>2 DEF Sends
<1>5. \/ Ends /\ basket' = NoBasket
      \/ GoOn(FetchCart, <<>>) /\ basket' = basket
      \/ \E takes : AsksAll("clear", takes) /\ TakeEach(takes)
  <2>1. CASE c.do = "empty"
    <3>1. \/ Ends /\ basket' = NoBasket
          \/ TakeEach(EachTaken(basket.items))
          \/ GoOn(FetchCart, <<>>) /\ basket' = basket
      BY <1>1, <2>1 DEF ClearReturns
    <3>2. AsksAll("clear", EachTaken(basket.items))
      BY EachTakenFits DEF ShopInv, ClientInv
    <3> QED
      BY <3>1, <3>2
  <2>2. CASE c.do = "cart"
    <3>1. PICK items : items = IF Worked THEN Innermost.got.items ELSE basket.items
      OBVIOUS
    <3>2. TakeEach(EachTaken(items))
      BY <1>1, <2>2, <3>1 DEF ClearReturns
    <3>3. items \subseteq Books
      <4>1. Worked => Innermost.got.items \subseteq Books
        BY <1>1, <1>4, <2>2 DEF Sound, Told, Worked, OfCart
      <4> QED
        BY <3>1, <4>1 DEF ShopInv, ClientInv
    <3> QED
      BY <3>2, <3>3, EachTakenFits
  <2>3. CASE c.do = "take"
    <3>1. TakeEach(e.more)
      BY <1>1, <2>3 DEF ClearReturns
    <3> QED
      BY <1>4, <3>1
  <2> QED
    BY <1>4, <2>1, <2>2, <2>3
<1> DEFINE Cleared ==
             /\ Went(k, e) /\ BasketInv'
             /\ basket' \in [any : BOOLEAN, items : SUBSET Books]
             /\ (~ basket'.any => basket' = NoBasket)
<1>6. Cleared
  <2>1. ASSUME NEW a, NEW more, GoOn(a, more), basket' = basket, Asks("clear", a), AsksAll("clear", more)
        PROVE  Cleared
    <3>1. Follows("clear", a, more)
      BY <2>1 DEF Follows
    <3>2. Went(k, e) /\ k \in DOMAIN stack'
      BY <1>1, <1>2, <1>3, <2>1, <3>1, GoOnWent
    <3> QED
      BY <1>2, <1>3, <2>1, <3>2, WentBasket DEF ShopInv, ClientInv
  <2>2. CASE Ends /\ basket' = NoBasket
    BY <1>1, <1>2, <2>2, EndsWent, EmptiedFits
  <2>3. CASE GoOn(FetchCart, <<>>) /\ basket' = basket
    <3>1. AsksAll("clear", <<>>) /\ Asks("clear", FetchCart)
      BY AsksCart DEF AsksAll, IsSeq, ToSet
    <3> QED
      BY <2>1, <2>3, <3>1
  <2>4. ASSUME NEW takes, AsksAll("clear", takes), TakeEach(takes), ~ (Ends /\ basket' = NoBasket)
        PROVE  Cleared
    <3>1. PICK a, more : a = Head(takes) /\ more = Tail(takes)
      OBVIOUS
    <3>2. takes # <<>> /\ GoOn(a, more) /\ basket' = basket
      BY <2>4, <3>1 DEF TakeEach
    <3>3. Asks("clear", a) /\ AsksAll("clear", more)
      BY <2>4, <3>1, <3>2, AskedNext
    <3> QED
      BY <2>1, <3>2, <3>3
  <2> QED
    BY <1>5, <2>2, <2>3, <2>4
<1>7. Rests(k, e) /\ ~ Refilling(e)
  BY <1>2, Settles DEF Refilling, Refills
<1> QED
  BY <1>2, <1>3, <1>6, <1>7, CartWent DEF ShopInv, ClientInv

LEMMA Joined ==
  ASSUME NEW x, NEW s, s = <<x>>, NEW t, t \in {s, <<>>}, NEW v, v = s \o t
  PROVE  v # <<>> /\ Head(v) = x /\ Tail(v) = t
<1> DEFINE S == {x}
<1>1. s \in Seq(S) /\ t \in Seq(S) /\ Len(s) = 1 /\ s[1] = x
  <2>1. Len(s) = 1 /\ s[1] = x
    OBVIOUS
  <2>2. s \in Seq(S) /\ <<>> \in Seq(S)
    OBVIOUS
  <2> QED
    BY <2>1, <2>2
<1> HIDE DEF S
<1>2. /\ v \in Seq(S) /\ Len(v) = Len(s) + Len(t)
      /\ \A i \in 1 .. Len(s) : v[i] = s[i]
      /\ \A i \in 1 .. Len(t) : v[Len(s) + i] = t[i]
  BY <1>1, ConcatProperties
<1>3. Len(t) \in Nat /\ Len(v) = 1 + Len(t) /\ v[1] = x
      /\ \A i \in 1 .. Len(t) : v[i + 1] = t[i]
  BY <1>1, <1>2, LenProperties
<1>4. v # <<>>
  BY <1>2, <1>3, EmptySeq
<1>5. /\ Head(v) = x /\ Tail(v) \in Seq(S) /\ Len(Tail(v)) = Len(t)
      /\ \A i \in 1 .. Len(t) : Tail(v)[i] = t[i]
  BY <1>2, <1>3, <1>4, HeadTailProperties
<1>6. Tail(v) = t
  BY <1>1, <1>5, SeqEqual
<1> QED
  BY <1>4, <1>5, <1>6

\* setQuantity: the book was taken off and is put in again.
LEMMA AgainReturnsKeeps ==
  ASSUME ShopInv, AgainReturns PROVE ShopInv'
<1>1. PICK k, e, c, b, more, put :
        /\ k = Len(stack) /\ e = Innermost /\ c = e.cmd /\ b = c.book /\ more = e.more
        /\ put = Put(b)
  OBVIOUS
<1>2. /\ stack # <<>> /\ Innermost.got # None /\ e.op = "again"
      /\ UNCHANGED <<lib, skewed, behind, pageVars, hearts, drifted>>
      /\ torn' = IF c.do = "put" /\ ~ Good(e) /\ more = <<>> THEN torn \cup {b} ELSE torn
  BY <1>1 DEF AgainReturns, Returned, LibraryKept, HeartsKept, ShopAtClient, Worked, Good
<1>3. ClientSame
  BY <1>2 DEF AgainReturns, ShopAtClient, AtClient, ClientSame, pageVars, data
<1>4. /\ Sound(e) /\ c.do \in {"take", "put"} /\ b \in Books /\ c.do \in OfCart
      /\ more = <<put>> \/ (c.do = "put" /\ more = <<>>)
  <2>1. Sound(e)
    BY <1>1, <1>2, Waited
  <2>2. Asks("again", c) /\ Follows("again", c, more)
    BY <1>1, <1>2, <2>1 DEF Sound
  <2> QED
    BY <1>1, <2>1, <2>2 DEF Asks, Sends, Follows, OnShelf, OfCart
<1>5. /\ Asks("again", put) /\ put.do = "put" /\ put.book = b
      /\ Follows("again", put, <<>>) /\ Follows("again", put, <<put>>)
  BY <1>1, <1>4 DEF Asks, Sends, OnShelf, Follows, Put
<1>6. PICK next :
        /\ NextRequest(next) /\ (next # <<>> => Head(next) = put /\ Tail(next) \in {<<>>, <<put>>})
        /\ (c.do = "take" /\ Good(e)) \/ (c.do = "put" /\ ~ Good(e) /\ more # <<>>) => next # <<>>
  <2>1. CASE c.do = "take"
    <3>1. PICK t : t = IF b \in basket.items THEN more ELSE <<>>
      OBVIOUS
    <3>2. PICK v : v = IF Good(e) THEN more \o t ELSE <<>>
      OBVIOUS
    <3>3. NextRequest(v)
      BY <1>1, <2>1, <3>1, <3>2 DEF AgainReturns, Worked, Good
    <3>4. Good(e) => v # <<>> /\ Head(v) = put /\ Tail(v) = t
      <4>1. t \in {more, <<>>} /\ more = <<put>>
        BY <1>4, <2>1, <3>1
      <4>2. Good(e) => v = more \o t
        BY <3>2
      <4> QED
        BY <4>1, <4>2, Joined
    <3>5. t \in {<<>>, <<put>>}
      BY <1>4, <2>1, <3>1
    <3> QED
      BY <2>1, <3>2, <3>3, <3>4, <3>5
  <2>2. CASE c.do = "put"
    <3>1. PICK v : v = IF Good(e) THEN <<>> ELSE more
      OBVIOUS
    <3>2. NextRequest(v)
      BY <1>1, <2>2, <3>1 DEF AgainReturns, Worked, Good
    <3>3. v # <<>> => Head(v) = put /\ Tail(v) = <<>>
      BY <1>4, <3>1, One
    <3> QED
      BY <2>2, <3>1, <3>2, <3>3
  <2> QED
    BY <1>4, <2>1, <2>2
<1>7. /\ Went(k, e) /\ (next = <<>> => k \notin DOMAIN stack')
      /\ next # <<>> => k \in DOMAIN stack' /\ stack'[k] = New("again", put, Tail(next))
  <2>1. next # <<>> => Asks(e.op, Head(next)) /\ Follows(e.op, Head(next), Tail(next))
    BY <1>2, <1>5, <1>6
  <2> QED
    BY <1>1, <1>2, <1>3, <1>6, <2>1, NextWent
<1>8. Rests(k, e)
  <2>1. ASSUME NEW x, CarriesBack(e, x), x \notin torn'
        PROVE  k \in DOMAIN stack' /\ CarriesBack(stack[k], x)'
    <3>1. b = x /\ who \in cartRow /\ ((c.do = "take" /\ Good(e)) \/ (c.do = "put" /\ ~ Good(e)))
      BY <1>1, <2>1 DEF CarriesBack
    <3>2. next # <<>>
      BY <1>2, <1>4, <1>6, <2>1, <3>1
    <3>3. /\ k \in DOMAIN stack' /\ stack'[k].op = "again" /\ stack'[k].cmd = put
          /\ ~ Good(stack'[k])
      BY <1>7, <3>2, NewIs
    <3>4. UNCHANGED <<who, cartRow>>
      BY <1>3 DEF ClientSame
    <3> QED
      BY <1>5, <3>1, <3>3, <3>4 DEF CarriesBack, Good
  <2> QED
    BY <1>2, <2>1 DEF Rests, CarriesHome
<1>9. /\ basket' \in [any : BOOLEAN, items : SUBSET Books] /\ (~ basket'.any => basket' = NoBasket)
      /\ BasketInv'
  <2>1. CASE c.do = "take"
    <3>1. basket' = basket /\ (misfilled' <=> misfilled \/ Good(e))
      BY <1>1, <2>1 DEF AgainReturns, Worked, Good
    <3>2. CASE Good(e)
      BY <3>1, <3>2 DEF BasketInv, ShopInv, ClientInv
    <3>3. CASE ~ Good(e)
      <4>1. ~ Filling(e)
        BY <1>2, <3>3 DEF Filling
      <4> QED
        BY <1>3, <1>7, <3>1, <4>1, WentBasket DEF ShopInv, ClientInv
    <3> QED
      BY <3>2, <3>3
  <2>2. CASE c.do = "put"
    <3>1. Fill
      BY <1>1, <2>2 DEF AgainReturns
    <3> QED
      BY <1>1, <1>2, <1>3, <1>4, <1>7, <3>1, FillFits
  <2> QED
    BY <1>4, <2>1, <2>2
<1>10. ~ Refilling(e) /\ torn' \subseteq Books
  BY <1>2, <1>4 DEF Refilling, Refills, ShopInv, ClientInv
<1> QED
  BY <1>2, <1>3, <1>7, <1>8, <1>9, <1>10, CartWent

\* checkout, or buyNow before it, returns.
LEMMA CheckoutReturnsKeeps ==
  ASSUME ShopInv, CheckoutReturns PROVE ShopInv'
<1>1. PICK k, e, c, more, pay, none :
        /\ k = Len(stack) /\ e = Innermost /\ c = e.cmd /\ more = e.more
        /\ pay = [do |-> "checkout"] /\ none = <<>>
  OBVIOUS
<1>2. /\ stack # <<>> /\ Innermost.got # None /\ e.op = "checkout"
      /\ UNCHANGED <<lib, skewed, behind, pageVars>> /\ torn' = torn
      /\ hearts' \in {hearts, {}} /\ drifted' = drifted
  BY <1>1 DEF CheckoutReturns, AddingReturns, Returned, LibraryKept, HeartsKept, MovesKept, ShopAtClient
<1>3. ClientSame
  BY <1>2 DEF CheckoutReturns, ShopAtClient, AtClient, ClientSame, pageVars, data
<1>4. Sound(e) /\ c.do \in OfCart /\ more \in {none, <<pay>>}
  <2>1. Sound(e)
    BY <1>1, <1>2, Waited
  <2>2. Asks("checkout", c) /\ Follows("checkout", c, more)
    BY <1>1, <1>2, <2>1 DEF Sound
  <2> QED
    BY <1>1, <2>1, <2>2 DEF Asks, Sends, Follows, OfCart
<1>5. /\ Asks("checkout", pay) /\ Asks("checkout", FetchCart)
      /\ \A a : \A m : m \in {none, <<pay>>} => Follows("checkout", a, m)
  BY <1>1, AsksCart DEF Asks, Sends, OnShelf, Follows
<1>6. \/ Fill /\ NextRequest(more)
      \/ basket' = NoBasket /\ \E m \in {none, <<pay>>} : GoOn(FetchCart, m)
      \/ Ends /\ ~ Good(e) /\ UNCHANGED <<basket, misfilled>>
  BY <1>1, <1>4 DEF CheckoutReturns, AddingReturns, Worked, Good
<1>7. /\ Went(k, e) /\ BasketInv'
      /\ basket' \in [any : BOOLEAN, items : SUBSET Books] /\ (~ basket'.any => basket' = NoBasket)
  <2>1. CASE Fill /\ NextRequest(more)
    <3>1. more # <<>> => Head(more) = pay /\ Tail(more) = none
      BY <1>1, <1>4, One
    <3>2. more # <<>> => Asks(e.op, Head(more)) /\ Follows(e.op, Head(more), Tail(more))
      BY <1>2, <1>5, <3>1
    <3>3. Went(k, e)
      BY <1>1, <1>2, <1>3, <2>1, <3>2, NextWent
    <3> QED
      BY <1>1, <1>2, <1>3, <1>4, <2>1, <3>3, FillFits
  <2>2. ASSUME basket' = NoBasket, NEW m \in {none, <<pay>>}, GoOn(FetchCart, m)
        PROVE  Went(k, e)
    <3>1. PICK a : a = FetchCart
      OBVIOUS
    <3>2. Asks(e.op, a) /\ Follows(e.op, a, m) /\ GoOn(a, m)
      BY <1>2, <1>5, <2>2, <3>1
    <3> QED
      BY <1>1, <1>2, <1>3, <3>2, GoOnWent
  <2>3. CASE Ends /\ ~ Good(e) /\ UNCHANGED <<basket, misfilled>>
    <3>1. Went(k, e)
      BY <1>1, <1>2, <2>3, EndsWent
    <3>2. ~ Filling(e)
      BY <1>2, <2>3 DEF Filling
    <3> QED
      BY <1>3, <2>3, <3>1, <3>2, WentBasket DEF ShopInv, ClientInv
  <2> QED
    BY <1>6, <2>1, <2>2, <2>3, EmptiedFits
<1>8. Rests(k, e) /\ ~ Refilling(e)
  BY <1>2, Settles DEF Refilling, Refills
<1> QED
  BY <1>2, <1>3, <1>7, <1>8, CartWent DEF ShopInv, ClientInv

-----------------------------------------------------------------------------
(* The move from the wishlist to the cart.                                 *)

\* The book is looked up on the wishlist, and taken off it.
LEMMA UnwishWent ==
  ASSUME ShopInv, stack # <<>>, Innermost.got # None, NEW k, k = Len(stack),
         NEW e, e = Innermost, ClientSame, e.op = "toCart", NEW l, NEW b, b = e.cmd.book,
         IsListing(l.shelves), Unwish(l, b)
  PROVE  Went(k, e) /\ (k \in DOMAIN stack' => stack'[k].cmd.book = b)
<1>1. b \in Books
  BY Waited DEF Sound, Asks
<1>2. ASSUME NEW c, Asks("toCart", c), c.book = b, NEW none, none = <<>>, GoOn(c, none)
      PROVE  Went(k, e) /\ (k \in DOMAIN stack' => stack'[k].cmd.book = b)
  <2>1. Follows("toCart", c, none)
    BY DEF Follows
  <2>2. Went(k, e) /\ k \in DOMAIN stack' /\ stack'[k] = New(e.op, c, none)
    BY <1>2, <2>1, GoOnWent
  <2> QED
    BY <1>2, <2>2, NewIs
<1>3. CASE Ends
  BY <1>3, EndsWent
<1>4. CASE ~ Ends
  <2>1. PICK list, p, s, none : /\ list = l.shelves /\ p = WishPlace(list) /\ s = list[p].id
                                /\ none = <<>>
    OBVIOUS
  <2>2. PICK get, drop : /\ get = [do |-> "get", book |-> b]
                         /\ drop = [do |-> "drop", shelf |-> s, book |-> b]
    OBVIOUS
  <2>3. GoOn(get, none) \/ (p # 0 /\ GoOn(drop, none))
    BY <1>4, <2>1, <2>2 DEF Unwish
  <2>4. Asks("toCart", get) /\ get.book = b
    BY <1>1, <2>2 DEF Asks, Sends, OnShelf
  <2>5. p # 0 => s \in DOMAIN shelves
    BY <2>1, WishIs DEF IsListing, IsListed
  <2>6. p # 0 => Asks("toCart", drop) /\ drop.book = b
    BY <1>1, <2>2, <2>5 DEF Asks, Sends, OnShelf
  <2> QED
    BY <1>2, <2>1, <2>3, <2>4, <2>6
<1> QED
  BY <1>3, <1>4

LEMMA ToCartRests ==
  ASSUME NEW k, NEW e, e.op = "toCart", PastCart(e) \/ e.cmd.book \in torn',
         k \in DOMAIN stack' => stack'[k].cmd.book = e.cmd.book
  PROVE  Rests(k, e)
  BY DEF Rests, CarriesHome, CarriesBack

\* moveToCart: the book was put in the cart, or refused.
LEMMA ToCartAddedKeeps ==
  ASSUME ShopInv, ToCartAdded PROVE ShopInv'
<1>1. PICK k, e, c, b, more : /\ k = Len(stack) /\ e = Innermost /\ c = e.cmd /\ b = c.book
                              /\ more = <<>>
  OBVIOUS
<1>2. /\ stack # <<>> /\ Innermost.got # None /\ e.op = "toCart" /\ c.do = "put"
      /\ UNCHANGED <<lib, skewed, behind, pageVars, hearts, drifted>>
      /\ torn' = IF e.got.is = "conflict" \/ (Good(e) /\ b \in e.got.items) THEN torn
                 ELSE torn \cup {b}
  BY <1>1 DEF ToCartAdded, Returned, LibraryKept, ToCartKept, HeartsKept, Conflicting, Worked, Good
<1>3. ClientSame
  BY <1>2 DEF ToCartAdded, ToCartKept, AtClient, ClientSame, pageVars, data
<1>4. Sound(e) /\ c.do \in OfCart /\ b \in Books
  BY <1>1, <1>2, Waited DEF Sound, Asks, OfCart
<1>5. \/ \E a : /\ a = [do |-> "cart", book |-> b] /\ basket' = NoBasket /\ GoOn(a, more)
      \/ Fill /\ Unwish(lib, b)
  BY <1>1 DEF ToCartAdded
<1>6. /\ Went(k, e) /\ (k \in DOMAIN stack' => stack'[k].cmd.book = b) /\ BasketInv'
      /\ basket' \in [any : BOOLEAN, items : SUBSET Books] /\ (~ basket'.any => basket' = NoBasket)
  <2>1. CASE Fill /\ Unwish(lib, b)
    <3>1. PICK l : l = lib
      OBVIOUS
    <3>2. Unwish(l, b) /\ IsListing(l.shelves)
      BY <2>1, <3>1 DEF ShopInv, ClientInv, IsLib
    <3>3. Went(k, e) /\ (k \in DOMAIN stack' => stack'[k].cmd.book = b)
      BY <1>1, <1>2, <1>3, <3>2, UnwishWent
    <3> QED
      BY <1>1, <1>2, <1>3, <1>4, <2>1, <3>3, FillFits
  <2>2. ASSUME NEW a, a = [do |-> "cart", book |-> b], basket' = NoBasket, GoOn(a, more)
        PROVE  Went(k, e) /\ (k \in DOMAIN stack' => stack'[k].cmd.book = b)
    <3>1. Asks("toCart", a) /\ Follows("toCart", a, more) /\ a.book = b
      BY <1>4, <2>2 DEF Asks, Sends, OnShelf, Follows
    <3>2. Went(k, e) /\ k \in DOMAIN stack' /\ stack'[k] = New(e.op, a, more)
      BY <1>1, <1>2, <1>3, <2>2, <3>1, GoOnWent
    <3> QED
      BY <3>1, <3>2, NewIs
  <2> QED
    BY <1>5, <2>1, <2>2, EmptiedFits
<1>7. Rests(k, e)
  <2>1. PastCart(e) \/ e.cmd.book \in torn'
    BY <1>1, <1>2 DEF PastCart
  <2> QED
    BY <1>1, <1>2, <1>6, <2>1, ToCartRests
<1>8. ~ Refilling(e) /\ torn' \subseteq Books
  BY <1>1, <1>2, <1>4 DEF Refilling, OfShelves, OnShelf, ShopInv, ClientInv
<1> QED
  BY <1>2, <1>3, <1>6, <1>7, <1>8, CartWent

\* moveToCart: the cart is fetched again.
LEMMA ToCartRefreshedKeeps ==
  ASSUME ShopInv, ToCartRefreshed PROVE ShopInv'
<1>1. PICK k, e, c, b, l : /\ k = Len(stack) /\ e = Innermost /\ c = e.cmd /\ b = c.book
                           /\ l = lib
  OBVIOUS
<1>2. /\ stack # <<>> /\ Innermost.got # None /\ e.op = "toCart" /\ c.do = "cart"
      /\ UNCHANGED <<lib, skewed, behind, pageVars, hearts, drifted, torn>>
      /\ Fill /\ Unwish(l, b)
  BY <1>1 DEF ToCartRefreshed, Returned, LibraryKept, ToCartKept, HeartsKept
<1>3. ClientSame
  BY <1>2 DEF ToCartRefreshed, ToCartKept, AtClient, ClientSame, pageVars, data
<1>4. c.do \in OfCart /\ IsListing(l.shelves)
  BY <1>1, <1>2 DEF OfCart, ShopInv, ClientInv, IsLib
<1>5. Went(k, e) /\ (k \in DOMAIN stack' => stack'[k].cmd.book = b)
  BY <1>1, <1>2, <1>3, <1>4, UnwishWent
<1>6. /\ BasketInv'
      /\ basket' \in [any : BOOLEAN, items : SUBSET Books] /\ (~ basket'.any => basket' = NoBasket)
  BY <1>1, <1>2, <1>3, <1>4, <1>5, FillFits
<1>7. Rests(k, e)
  <2>1. PastCart(e)
    BY <1>1, <1>2 DEF PastCart
  <2> QED
    BY <1>1, <1>2, <1>5, <2>1, ToCartRests
<1>8. ~ Refilling(e) /\ torn' \subseteq Books
  BY <1>1, <1>2, <1>4 DEF Refilling, OfShelves, OnShelf, ShopInv, ClientInv
<1> QED
  BY <1>2, <1>3, <1>5, <1>6, <1>7, <1>8, CartWent

\* The library is fetched, or dropped.
LEMMA ToCartWent ==
  ASSUME ShopInv, ClientSame, UNCHANGED <<pageVars, hearts, drifted, basket, misfilled, torn>>,
         NEW k, NEW e, Went(k, e), e.op = "toCart", e.cmd.do \in {"get", "drop"},
         k \in DOMAIN stack' => stack'[k].cmd.book = e.cmd.book,
         NEW l, l = lib', IsLib(l), ShelvesInv', PurchasesInv'
  PROVE  ShopInv'
<1>1. Rests(k, e)
  <2>1. PastCart(e)
    BY DEF PastCart
  <2> QED
    BY <2>1, ToCartRests
<1>2. ~ Lands(e) /\ ~ Filling(e) /\ ~ OfPage(e)
  BY DEF Lands, Filling, OfPage, OfCart
<1>3. BasketInv' /\ HeartsInv' /\ PageInv'
  BY <1>2, WentBasket, WentHearts, WentPage
<1>4. KeptInv' /\ PastCartInv' /\ GivenUpInv' /\ WaitsInv' /\ ServerInv'
  BY <1>1, WentMoves, WentWaits
<1>5. /\ hearts' \subseteq Books /\ basket' \in [any : BOOLEAN, items : SUBSET Books]
      /\ (~ basket'.any => basket' = NoBasket) /\ torn' \subseteq Books /\ page' = page
  BY DEF ShopInv, ClientInv, pageVars
<1>6. ClientInv'
  BY <1>5, WentClient
<1> QED
  BY <1>3, <1>4, <1>6 DEF ShopInv

\* moveToCart: the library is fetched to find the wishlist.
LEMMA ToCartReadKeeps ==
  ASSUME ShopInv, ToCartRead PROVE ShopInv'
<1>1. PICK k, e, c, b, l : /\ k = Len(stack) /\ e = Innermost /\ c = e.cmd /\ b = c.book
                           /\ l = lib'
  OBVIOUS
<1>2. /\ stack # <<>> /\ Innermost.got # None /\ e.op = "toCart" /\ c.do = "get"
      /\ UNCHANGED <<pageVars, hearts, drifted, torn, basket, misfilled>> /\ Unwish(l, b)
  BY <1>1 DEF ToCartRead, Returned, ToCartKept, HeartsKept
<1>3. ClientSame
  BY <1>2 DEF ToCartRead, ToCartKept, AtClient, ClientSame, pageVars, data
<1>4. Sound(e) /\ c.do \in OfShelves
  BY <1>1, <1>2, Waited DEF OfShelves
<1>5. \/ /\ Good(e) /\ l = [any |-> TRUE, owned |-> e.got.owned, shelves |-> e.got.shelves]
         /\ skewed' = e.old /\ behind' = e.old
      \/ ~ Good(e) /\ UNCHANGED <<lib, skewed, behind>>
  BY <1>1 DEF ToCartRead, Worked, Good
<1>6. IsListing(l.shelves)
  <2>1. Good(e) => IsListing(e.got.shelves)
    BY <1>1, <1>4 DEF Sound, Told, Good
  <2> QED
    BY <1>1, <1>5, <2>1 DEF ShopInv, ClientInv, IsLib
<1>7. Went(k, e) /\ (k \in DOMAIN stack' => stack'[k].cmd.book = b)
  BY <1>1, <1>2, <1>3, <1>6, UnwishWent
<1>8. IsLib(l) /\ ShelvesInv' /\ PurchasesInv'
  <2>1. CASE Good(e)
    <3>1. /\ l = [any |-> TRUE, owned |-> e.got.owned, shelves |-> e.got.shelves]
          /\ skewed' = e.old /\ behind' = e.old
      BY <1>5, <2>1
    <3> QED
      BY <1>1, <1>3, <1>4, <1>7, <2>1, <3>1, RefillsWith
  <2>2. CASE ~ Good(e)
    <3>1. lib' = lib /\ skewed' = skewed /\ behind' = behind /\ ~ Refilling(e)
      BY <1>5, <2>2 DEF Refilling
    <3> QED
      BY <1>1, <1>3, <1>7, <3>1, WentShelves, WentPurchases DEF ShopInv, ClientInv
  <2> QED
    BY <2>1, <2>2
<1> QED
  BY <1>1, <1>2, <1>3, <1>7, <1>8, ToCartWent

\* moveToCart: the book is off the wishlist.
LEMMA ToCartReturnsKeeps ==
  ASSUME ShopInv, ToCartReturns PROVE ShopInv'
<1>1. PICK k, e, c, l : k = Len(stack) /\ e = Innermost /\ c = e.cmd /\ l = lib'
  OBVIOUS
<1>2. /\ stack # <<>> /\ Innermost.got # None /\ e.op = "toCart" /\ c.do = "drop" /\ Ends
      /\ UNCHANGED <<skewed, behind, pageVars, hearts, drifted, torn, basket, misfilled>>
      /\ lib' = IF Good(e) THEN Empty ELSE lib
  BY <1>1 DEF ToCartReturns, Returned, ToCartKept, HeartsKept, Worked, Good
<1>3. ClientSame
  BY <1>2 DEF ToCartReturns, ToCartKept, AtClient, ClientSame, pageVars, data
<1>4. Went(k, e) /\ k \notin DOMAIN stack'
  BY <1>1, <1>2, EndsWent
<1>5. IsLib(l) /\ ShelvesInv' /\ PurchasesInv'
  <2>1. CASE Good(e)
    BY <1>1, <1>2, <2>1, EmptyFits, BasketTypes DEF ShelvesInv, PurchasesInv
  <2>2. CASE ~ Good(e)
    <3>1. lib' = lib /\ skewed' = skewed /\ behind' = behind
      BY <1>2, <2>2
    <3>2. ~ Refilling(e)
      BY <2>2 DEF Refilling
    <3> QED
      BY <1>1, <1>3, <1>4, <3>1, <3>2, WentShelves, WentPurchases DEF ShopInv, ClientInv
  <2> QED
    BY <2>1, <2>2
<1> QED
  BY <1>1, <1>2, <1>3, <1>4, <1>5, ToCartWent

\* A command of the page goes on or ends.
PageRest == UNCHANGED <<lib, hearts, skewed, behind, drifted, torn, basket, misfilled, meant, crossed>>

-----------------------------------------------------------------------------
(* The loads of the page return.                                           *)

LEMMA PageWent ==
  ASSUME ShopInv, ClientSame, PageRest, NEW k, NEW e, Went(k, e), OfPage(e),
         PageTypes(page'), PageInv'
  PROVE  ShopInv'
<1>1. e.op \in {"page", "review"} /\ e.cmd.do \in {"details", "review"}
  BY DEF OfPage, Went, Sound, Asks, Sends, OnShelf
<1>2. ~ Lands(e) /\ ~ Filling(e) /\ ~ Refilling(e) /\ Rests(k, e)
  <2>1. ~ Lands(e)
    BY <1>1 DEF Lands
  <2>2. ~ Filling(e)
    BY <1>1 DEF Filling, OfCart
  <2>3. ~ Refilling(e)
    BY <1>1 DEF Refilling, Refills
  <2> QED
    BY <1>1, <2>1, <2>2, <2>3, Settles
<1>3. ShelvesInv' /\ PurchasesInv' /\ BasketInv' /\ HeartsInv'
  BY <1>2, WentShelves, WentPurchases, WentBasket, WentHearts DEF PageRest
<1>4. KeptInv' /\ PastCartInv' /\ GivenUpInv' /\ WaitsInv' /\ ServerInv' /\ RestSame
  BY <1>2, WentMoves, WentWaits DEF PageRest, RestSame, ClientSame
<1>5. ClientInv'
  BY <1>4, RestClient
<1> QED
  BY <1>3, <1>4, <1>5 DEF ShopInv

\* It is the only one of the page, unless another book was opened meanwhile.
LEMMA PageOne ==
  ASSUME ShopInv, ClientSame, NEW k, NEW e, Went(k, e), OfPage(e)
  PROVE  /\ page.id # NoBook /\ Loading
         /\ ~ crossed =>
              /\ PageFits /\ ~ page.timer /\ e.cmd.book = page.id
              /\ \A i \in DOMAIN stack' : OfPage(stack'[i]) => i = k
              /\ e.op = "page" /\ e.more = <<>> => page.book \in {page.id, NoBook}
              /\ e.op = "review" => Settled(page)
<1>1. k \in DOMAIN stack /\ stack[k] = e /\ Loading
  BY LoadingIs DEF Went
<1>2. page.id # NoBook /\ (crossed \/ PageFits)
  BY <1>1 DEF ShopInv, PageInv
<1>3. \A i \in DOMAIN stack' : i # k => i \in DOMAIN stack /\ stack'[i] = stack[i]
  BY DEF Went, Calm
<1>4. PageFits => /\ ~ page.timer /\ e.cmd.book = page.id
                  /\ \A i \in DOMAIN stack : OfPage(stack[i]) => i = k
                  /\ e.op = "page" /\ e.more = <<>> => page.book \in {page.id, NoBook}
                  /\ e.op = "review" => Settled(page)
  BY <1>1 DEF PageFits
<1> QED
  BY <1>1, <1>2, <1>3, <1>4

LEMMA PageGoesOn ==
  ASSUME ShopInv, ClientSame, PageRest, NEW k, NEW e, Went(k, e), OfPage(e),
         k \in DOMAIN stack', stack'[k].cmd = Details(page.id),
         NEW p, p = page', p.id = page.id, p.busy = page.busy, p.timer = page.timer,
         ~ crossed => (IF e.op = "page" THEN p.book \in {p.id, NoBook} ELSE Settled(p))
  PROVE  PageInv'
<1>1. Loading' /\ stack'[k].op = e.op
  BY DEF Loading, Went, OfPage
<1>2. who # Nobody /\ who' = who /\ reviews' = reviews /\ meant' = meant /\ (crossed' <=> crossed)
  BY WentWaits DEF ClientSame, PageRest
<1>3. page.id # NoBook
  BY PageOne
<1>4. ASSUME ~ crossed PROVE PageFits'
  <2>1. /\ PageFits /\ ~ page.timer
        /\ \A i \in DOMAIN stack' : OfPage(stack'[i]) => i = k
    BY <1>4, PageOne
  <2>2. page.busy
    <3>1. k \in DOMAIN stack /\ stack[k] = e
      BY DEF Went
    <3> QED
      BY <2>1, <3>1 DEF PageFits
  <2>3. stack'[k].cmd.book = p.id /\ stack'[k].cmd.do = "details"
    BY DEF Details
  <2>4. \A i \in DOMAIN stack' : OfPage(stack'[i]) =>
          /\ page'.busy /\ stack'[i].cmd.book = page'.id
          /\ \A j \in DOMAIN stack' : OfPage(stack'[j]) => i = j
          /\ stack'[i].op = "page" /\ stack'[i].more = <<>> => page'.book \in {page'.id, NoBook}
          /\ stack'[i].op = "review" => Settled(page')
    <3> SUFFICES ASSUME NEW i \in DOMAIN stack', OfPage(stack'[i])
                 PROVE  /\ page'.busy /\ stack'[i].cmd.book = page'.id
                        /\ \A j \in DOMAIN stack' : OfPage(stack'[j]) => i = j
                        /\ stack'[i].op = "page" /\ stack'[i].more = <<>> =>
                             page'.book \in {page'.id, NoBook}
                        /\ stack'[i].op = "review" => Settled(page')
      OBVIOUS
    <3>1. i = k
      BY <2>1
    <3>2. e.op = "page" => page'.book \in {page'.id, NoBook}
      BY <1>4
    <3>3. e.op = "review" => Settled(page')
      BY <1>4
    <3>4. page'.busy /\ \A j \in DOMAIN stack' : OfPage(stack'[j]) => i = j
      BY <2>1, <2>2, <3>1
    <3> QED
      BY <1>1, <2>3, <3>1, <3>2, <3>3, <3>4
  <2>5. \A i \in DOMAIN wire' :
          wire'[i].cmd.do = "review" => <<who, wire'[i].cmd.book>> \in meant
    <3>1. \A i \in DOMAIN wire' :
            wire'[i].cmd.do = "review" => i \in DOMAIN wire /\ wire'[i] = wire[i]
      BY <2>3 DEF Went
    <3> QED
      BY <2>1, <3>1 DEF PageFits
  <2>6. reviews \subseteq meant /\ ~ p.timer
    BY <2>1 DEF PageFits
  <2> QED
    BY <1>1, <1>2, <2>4, <2>5, <2>6 DEF PageFits, OfPage
<1>5. crossed' \/ PageFits'
  BY <1>2, <1>4
<1> QED
  BY <1>1, <1>2, <1>3, <1>5 DEF PageInv

LEMMA PageDone ==
  ASSUME ShopInv, ClientSame, PageRest, NEW k, NEW e, Went(k, e), OfPage(e), Ends,
         k \notin DOMAIN stack',
         NEW p, p = page', p.id = page.id, p.busy = FALSE, p.timer = page.timer,
         ~ crossed => Settled(p)
  PROVE  PageInv'
<1>2. who # Nobody /\ who' = who /\ reviews' = reviews /\ meant' = meant /\ (crossed' <=> crossed)
  BY WentWaits DEF ClientSame, PageRest
<1>3. page.id # NoBook
  BY PageOne
<1>4. ASSUME ~ crossed PROVE PageFits'
  <2>1. /\ PageFits /\ ~ page.timer
        /\ \A i \in DOMAIN stack' : ~ OfPage(stack'[i])
    BY <1>4, PageOne
  <2>2. \A i \in DOMAIN wire' :
          wire'[i].cmd.do = "review" => <<who, wire'[i].cmd.book>> \in meant
    BY <2>1 DEF PageFits, Ends
  <2>3. reviews \subseteq meant /\ ~ p.timer /\ Settled(p)
    BY <1>4, <2>1 DEF PageFits
  <2> QED
    BY <1>2, <2>1, <2>2, <2>3 DEF PageFits, OfPage
<1>5. crossed' \/ PageFits'
  BY <1>2, <1>4
<1> QED
  BY <1>2, <1>3, <1>5 DEF PageInv

\* What a reply shows.
LEMMA ShowingIs ==
  ASSUME ShopInv, NEW k, NEW e, Went(k, e), e = Innermost, e.cmd.do = "details"
  PROVE  /\ Showing \in {e.cmd.book, NoBook} /\ Showing \in Pages \cup {NoBook}
         /\ PageTypes(WithBook(page)) /\ PageTypes(WithReviews(page))
         /\ WithReviews(page).mine \in {e.cmd.book, NoBook}
<1>1. /\ Good(e) => e.got.book = e.cmd.book /\ e.got.mine \in BOOLEAN
      /\ e.cmd.book \in Pages
  <2>1. Asks(e.op, e.cmd) /\ Told(e.cmd, e.got)
    BY DEF Went, Sound
  <2> QED
    BY <2>1 DEF Asks, Told, Good
<1>2. Showing \in {e.cmd.book, NoBook}
  BY <1>1 DEF Showing, Worked, Good
<1>3. PageTypes(page)
  BY DEF ShopInv, ClientInv, PageTypes
<1>4. PICK m : /\ m = (IF Worked /\ Innermost.got.mine THEN Innermost.got.book ELSE NoBook)
               /\ m \in {e.cmd.book, NoBook}
  BY <1>1 DEF Worked, Good
<1>5. PICK s : s = Showing
  OBVIOUS
<1>6. WithReviews(page) = [page EXCEPT !.reviews = s, !.mine = m]
  BY <1>4, <1>5 DEF WithReviews
<1>7. WithBook(page) = [page EXCEPT !.book = s]
  BY <1>5 DEF WithBook
<1>8. {s, m} \subseteq Pages \cup {NoBook}
  BY <1>1, <1>2, <1>4, <1>5
<1>9. PageTypes(WithBook(page))
  BY <1>3, <1>7, <1>8 DEF PageTypes
<1>10. PageTypes(WithReviews(page)) /\ WithReviews(page).mine = m
  BY <1>3, <1>6, <1>8 DEF PageTypes
<1> QED
  BY <1>2, <1>4, <1>5, <1>8, <1>9, <1>10

Reasks(f, e, c, t) == f = [e EXCEPT !.cmd = c, !.more = t, !.got = None]

LEMMA Reasked ==
  ASSUME NEW e, IsFrame(e), NEW c, NEW t, NEW f, Reasks(f, e, c, t)
  PROVE  IsFrame(f) /\ Open(f) /\ f.op = e.op /\ f.cmd = c
<1>1. PICK a, x, m, g, o : e = [op |-> a, cmd |-> x, more |-> m, got |-> g, old |-> o]
  BY DEF IsFrame
<1>2. PICK n : n = None
  OBVIOUS
<1>3. f = [e EXCEPT !.cmd = c, !.more = t, !.got = n]
  BY <1>2 DEF Reasks
<1>4. /\ f = [op |-> a, cmd |-> c, more |-> t, got |-> n, old |-> o]
      /\ e.op = a /\ e.old = o
  BY <1>1, <1>3
<1>5. /\ f = [op |-> f.op, cmd |-> f.cmd, more |-> f.more, got |-> f.got, old |-> f.old]
      /\ f.got = None /\ f.op = e.op /\ f.cmd = c /\ f.old = e.old
  BY <1>2, <1>4
<1>6. e.old \in BOOLEAN
  BY DEF IsFrame
<1> QED
  BY <1>5, <1>6 DEF IsFrame, Open

\* The page's command goes on to ask for the book the page is of.
LEMMA RefreshWent ==
  ASSUME ShopInv, stack # <<>>, Innermost.got # None, NEW k, k = Len(stack),
         NEW e, e = Innermost, ClientSame, OfPage(e), RefreshNext
  PROVE  Went(k, e) /\ k \in DOMAIN stack' /\ stack'[k].cmd = Details(page.id)
<1> USE ShopAssumption
<1>1. IsFrame(e) /\ k \in DOMAIN stack /\ e = stack[k] /\ Sound(e)
  BY Waited
<1>3. PICK c : c = Details(page.id)
  OBVIOUS
<1>2. PICK f : f = [e EXCEPT !.cmd = c, !.more = Tail(@), !.got = None]
  OBVIOUS
<1>5. IsFrame(f) /\ Open(f) /\ f.op = e.op /\ f.cmd = c
  <2>1. IsFrame(e)
    BY <1>1
  <2>2. PICK t : t = Tail(e.more)
    OBVIOUS
  <2>3. Reasks(f, e, c, t)
    BY <1>2, <2>2 DEF Reasks
  <2> QED
    BY <2>1, <2>3, Reasked
<1>6. page.id \in Pages
  <2>1. Loading
    BY <1>1, LoadingIs
  <2> QED
    BY <2>1 DEF ShopInv, PageInv, ClientInv
<1>7. Asks(f.op, f.cmd) /\ Follows(f.op, f.cmd, f.more)
  BY <1>3, <1>5, <1>6 DEF OfPage, Asks, Sends, OnShelf, Details, Follows
<1>8. Resume(f)
  BY <1>2, <1>3 DEF RefreshNext
<1>9. Went(k, e) /\ k \in DOMAIN stack' /\ stack'[k] = f
  BY <1>5, <1>7, <1>8, ResumeWent
<1> QED
  BY <1>3, <1>5, <1>9

\* The page's first load returns.
LEMMA LoadReturnsKeeps ==
  ASSUME ShopInv, LoadReturns PROVE ShopInv'
<1>1. PICK k, e, p : k = Len(stack) /\ e = Innermost /\ p = page'
  OBVIOUS
<1>2. /\ stack # <<>> /\ Innermost.got # None /\ e.op = "page" /\ OfPage(e)
      /\ PageRest /\ ClientSame
  BY <1>1 DEF LoadReturns, OnPage, Returned, AtClient, ClientSame, PageRest, OfPage, local, data
<1>3. Sound(e) /\ e.cmd.do = "details"
  <2>1. Sound(e)
    BY <1>1, <1>2, Waited
  <2> QED
    BY <1>2, <2>1 DEF Sound, Asks, Sends, OnShelf
<1>4. PageTypes(page)
  BY DEF ShopInv, ClientInv, PageTypes
<1>5. CASE e.more # <<>>
  <2>1. page' = WithBook(page) /\ RefreshNext
    BY <1>1, <1>5 DEF LoadReturns
  <2>2. Went(k, e) /\ k \in DOMAIN stack' /\ stack'[k].cmd = Details(page.id)
    BY <1>1, <1>2, <2>1, RefreshWent
  <2>3. Showing \in {e.cmd.book, NoBook} /\ PageTypes(page')
    BY <1>1, <1>3, <2>1, <2>2, ShowingIs
  <2>4. /\ p.id = page.id /\ p.busy = page.busy /\ p.timer = page.timer /\ p.book = Showing
    BY <1>1, <1>4, <2>1 DEF WithBook, PageTypes
  <2>5. ~ crossed => p.book \in {p.id, NoBook}
    BY <1>2, <2>2, <2>3, <2>4, PageOne
  <2>6. PageInv'
    BY <1>1, <1>2, <2>2, <2>4, <2>5, PageGoesOn
  <2> QED
    BY <1>2, <2>2, <2>3, <2>6, PageWent
<1>6. CASE e.more = <<>>
  <2>1. PICK q : q = WithReviews(page)
    OBVIOUS
  <2>2. p = [[q EXCEPT !.pending = "none", !.busy = FALSE] EXCEPT !.mine = NoBook] /\ Ends
    BY <1>1, <1>6, <2>1 DEF LoadReturns, Finished
  <2>3. Went(k, e) /\ k \notin DOMAIN stack'
    BY <1>1, <1>2, <2>2, EndsWent
  <2>4. Showing \in {e.cmd.book, NoBook} /\ PageTypes(q)
    BY <1>1, <1>3, <2>1, <2>3, ShowingIs
  <2>5. q.id = page.id /\ q.timer = page.timer /\ q.book = page.book /\ q.reviews = Showing
    BY <1>4, <2>1 DEF WithReviews, PageTypes
  <2>6. /\ p.id = q.id /\ p.busy = FALSE /\ p.timer = q.timer /\ p.book = q.book
        /\ p.reviews = q.reviews /\ p.mine = NoBook /\ PageTypes(p)
    BY <2>2, <2>4 DEF PageTypes
  <2>7. ~ crossed => Settled(p)
    BY <1>2, <1>6, <2>3, <2>4, <2>5, <2>6, PageOne DEF Settled
  <2>8. PageInv'
    BY <1>1, <1>2, <2>2, <2>3, <2>5, <2>6, <2>7, PageDone
  <2> QED
    BY <1>1, <1>2, <2>3, <2>6, <2>8, PageWent
<1> QED
  BY <1>5, <1>6

\* A review was sent, or one of the two loads after it returns.
LEMMA ReviewReturnsKeeps ==
  ASSUME ShopInv, ReviewReturns PROVE ShopInv'
<1>1. PICK k, e, p : k = Len(stack) /\ e = Innermost /\ p = page'
  OBVIOUS
<1>2. /\ stack # <<>> /\ Innermost.got # None /\ e.op = "review" /\ OfPage(e)
      /\ PageRest /\ ClientSame
  BY <1>1 DEF ReviewReturns, OnPage, Returned, AtClient, ClientSame, PageRest, OfPage, local, data
<1>3. e.cmd.do \in {"details", "review"}
  <2>1. Sound(e)
    BY <1>1, <1>2, Waited
  <2> QED
    BY <1>2, <2>1 DEF Sound, Asks, Sends, OnShelf
<1>4. PageTypes(page)
  BY DEF ShopInv, ClientInv, PageTypes
<1>5. CASE e.cmd.do = "review"
  <2>1. page' = page /\ RefreshNext
    BY <1>1, <1>5 DEF ReviewReturns
  <2>2. Went(k, e) /\ k \in DOMAIN stack' /\ stack'[k].cmd = Details(page.id)
    BY <1>1, <1>2, <2>1, RefreshWent
  <2>3. ~ crossed => Settled(p)
    BY <1>1, <1>2, <2>1, <2>2, PageOne
  <2>4. PageInv'
    BY <1>1, <1>2, <2>1, <2>2, <2>3, PageGoesOn
  <2> QED
    BY <1>2, <1>4, <2>1, <2>2, <2>4, PageWent
<1>6. CASE e.cmd.do = "details" /\ e.more # <<>>
  <2>1. page' = WithReviews(page) /\ RefreshNext
    BY <1>1, <1>6 DEF ReviewReturns
  <2>2. Went(k, e) /\ k \in DOMAIN stack' /\ stack'[k].cmd = Details(page.id)
    BY <1>1, <1>2, <2>1, RefreshWent
  <2>3. /\ Showing \in {e.cmd.book, NoBook} /\ PageTypes(page')
        /\ p.mine \in {e.cmd.book, NoBook}
    BY <1>1, <1>6, <2>1, <2>2, ShowingIs
  <2>4. /\ p.id = page.id /\ p.busy = page.busy /\ p.timer = page.timer /\ p.book = page.book
        /\ p.reviews = Showing
    BY <1>1, <1>4, <2>1 DEF WithReviews, PageTypes
  <2>5. ~ crossed => Settled(p)
    BY <1>2, <2>2, <2>3, <2>4, PageOne DEF Settled
  <2>6. PageInv'
    BY <1>1, <1>2, <2>2, <2>4, <2>5, PageGoesOn
  <2> QED
    BY <1>2, <2>2, <2>3, <2>6, PageWent
<1>7. CASE e.cmd.do = "details" /\ e.more = <<>>
  <2>1. PICK q : q = WithBook(page)
    OBVIOUS
  <2>2. p = [q EXCEPT !.pending = "none", !.busy = FALSE] /\ Ends
    BY <1>1, <1>7, <2>1 DEF ReviewReturns, Finished
  <2>3. Went(k, e) /\ k \notin DOMAIN stack'
    BY <1>1, <1>2, <2>2, EndsWent
  <2>4. Showing \in {e.cmd.book, NoBook} /\ PageTypes(q)
    BY <1>1, <1>7, <2>1, <2>3, ShowingIs
  <2>5. /\ q.id = page.id /\ q.timer = page.timer /\ q.book = Showing /\ q.reviews = page.reviews
        /\ q.mine = page.mine
    BY <1>4, <2>1 DEF WithBook, PageTypes
  <2>6. /\ p.id = q.id /\ p.busy = FALSE /\ p.timer = q.timer /\ p.book = q.book
        /\ p.reviews = q.reviews /\ p.mine = q.mine /\ PageTypes(p)
    BY <2>2, <2>4 DEF PageTypes
  <2>7. ~ crossed => Settled(p)
    BY <1>2, <2>3, <2>4, <2>5, <2>6, PageOne DEF Settled
  <2>8. PageInv'
    BY <1>1, <1>2, <2>2, <2>3, <2>5, <2>6, <2>7, PageDone
  <2> QED
    BY <1>1, <1>2, <2>3, <2>6, <2>8, PageWent
<1> QED
  BY <1>3, <1>5, <1>6, <1>7

-----------------------------------------------------------------------------
(* Requests that time out, connections that are lost, users who take turns. *)

\* A wait without a reply ends, whatever it waited for.
LEMMA FaultKeeps ==
  ASSUME ShopInv, OtherSame, UNCHANGED <<data, who, local, history>>, session' \in {session, Nobody},
         Fits(wire', stack'), Len(stack') = Len(stack), who # Nobody,
         Calm(0, stack, stack'), 0 \notin DOMAIN stack,
         \A i \in DOMAIN wire' : i \in DOMAIN wire /\ wire'[i].op = wire[i].op
                                 /\ wire'[i].cmd = wire[i].cmd,
         GivenUpInv'
  PROVE  ShopInv'
<1> USE DEF ShopInv
<1>1. /\ UNCHANGED <<shelves, owned, who, lib, hearts, cart, cartRow, basket, page, reviews, meant>>
      /\ UNCHANGED <<crossed, skewed, behind, drifted, kept, torn>> /\ (misfilled => misfilled')
  BY DEF OtherSame, data, local, history, pageVars
<1>2. Grows /\ WorldSame /\ who \in Users
  BY <1>1, GrowsSame DEF WorldSame, ServerInv
<1>3. WaitsInv'
  <2>1. \A i \in DOMAIN wire' : Asks(wire[i].op, wire[i].cmd)'
    <3>1. \A i \in DOMAIN wire' : Asks(wire'[i].op, wire'[i].cmd)
      BY DEF WaitsInv
    <3> QED
      BY <1>2, <3>1, GrowsKeeps
  <2>2. Fits(wire', stack') /\ Len(stack') <= MaxDepth
    BY DEF WaitsInv
  <2>3. 0 \notin DOMAIN stack'
    BY DEF Calm, Fits, Stacked, IsSeq
  <2> QED
    BY <1>1, <1>2, <2>1, <2>2, <2>3, WaitsStay
<1>4. ServerInv'
  BY <1>1 DEF ServerInv, OwnedNotInCart
<1>5. ShelvesInv' /\ PurchasesInv' /\ BasketInv' /\ HeartsInv'
  BY <1>1, ShelvesStay, PurchasesStay, BasketStay, HeartsStay
<1>6. PageInv'
  <2>1. 0 \notin DOMAIN stack'
    BY SeqShape DEF Fits, Stacked
  <2> QED
    BY <1>1, <2>1, PageStay
<1>7. KeptInv'
  BY <1>1, <1>2, KeptStay
<1>8. PastCartInv'
  <2>1. \A b \in Moving \cap (cart[who] \cup owned[who]) : BoughtOrLost(b, who)'
    BY <1>1 DEF BoughtOrLost
  <2>2. 0 \notin DOMAIN stack'
    BY SeqShape DEF Fits, Stacked
  <2> QED
    BY <1>1, <1>2, <2>1, <2>2, PastCartStay
<1>9. ClientInv'
  <2>1. PICK l : l = lib
    OBVIOUS
  <2>2. IsLib(l)'
    BY <1>2, <2>1, LibGrows DEF ClientInv
  <2> QED
    BY <1>1, <2>1, <2>2 DEF ClientInv
<1> QED
  BY <1>3, <1>4, <1>5, <1>6, <1>7, <1>8, <1>9

\* A request times out; the server may still serve it.
LEMMA TimesOutKeeps ==
  ASSUME ShopInv, NEW k \in DOMAIN stack, TimesOut(k), OtherSame PROVE ShopInv'
<1> USE DEF ShopInv
<1>1. /\ Fits(wire', stack') /\ Len(stack') = Len(stack) /\ DOMAIN stack' = DOMAIN stack
      /\ Open(stack[k]) /\ stack'[k].got = Failed
      /\ DOMAIN wire' = DOMAIN wire
      /\ \A i \in DOMAIN wire :
           /\ wire'[i].op = wire[i].op /\ wire'[i].cmd = wire[i].cmd
           /\ wire'[i].depth = IF wire[i].depth = k THEN 0 ELSE wire[i].depth
      /\ Calm(0, stack, stack') /\ 0 \notin DOMAIN stack
  BY TimesOutFits DEF WaitsInv
<1>2. UNCHANGED <<data, session, who, local, history>>
  BY DEF TimesOut
<1>3. who # Nobody
  BY DEF WaitsInv
<1>4. Grows /\ torn' = torn /\ shelves' = shelves
  BY <1>2, GrowsSame DEF data, history
<1>5. GivenUpInv'
  <2> SUFFICES ASSUME NEW i \in DOMAIN wire', GivenUp(wire'[i]), wire'[i].cmd.book \notin torn'
               PROVE  \E j \in DOMAIN stack' : PutsDownAfter(i, j)'
    BY DEF GivenUpInv
  <2>1. /\ i \in DOMAIN wire /\ wire'[i].op = wire[i].op /\ wire'[i].cmd = wire[i].cmd
        /\ wire'[i].depth = IF wire[i].depth = k THEN 0 ELSE wire[i].depth
        /\ k # 0
    BY <1>1
  <2>2. CASE wire[i].depth = k
    <3>1. Linked(wire, stack)
      BY DEF WaitsInv, Fits
    <3>2. stack[k].op = "move" /\ stack[k].cmd = wire[i].cmd /\ wire[i].cmd.do = "drop"
      BY <2>1, <2>2, <3>1 DEF Linked, GivenUp
    <3>3. stack'[k].op = stack[k].op /\ stack'[k].cmd = stack[k].cmd
      BY <1>1 DEF Calm, Same
    <3>4. PutsDownAfter(i, k)'
      BY <2>1, <3>2, <3>3 DEF PutsDownAfter
    <3> QED
      BY <1>1, <3>4
  <2>3. CASE wire[i].depth # k
    <3>1. GivenUp(wire[i]) /\ wire[i].cmd.book \notin torn
      BY <1>4, <2>1, <2>3 DEF GivenUp
    <3>2. PICK j \in DOMAIN stack : PutsDownAfter(i, j)
      BY <2>1, <3>1 DEF GivenUpInv
    <3>3. j \in DOMAIN stack' /\ Same(stack[j], stack'[j])
      BY <1>1 DEF Calm
    <3>4. \A h \in DOMAIN wire : h > i /\ wire[h].depth = j =>
            stack'[j].got = Failed \/ \E c \in DOMAIN wire' : c > i /\ wire'[c].depth = j
      <4> SUFFICES ASSUME NEW h \in DOMAIN wire, h > i, wire[h].depth = j, j # k
                   PROVE  \E c \in DOMAIN wire' : c > i /\ wire'[c].depth = j
        BY <1>1
      <4>1. wire'[h].depth = j /\ h \in DOMAIN wire'
        BY <1>1
      <4> QED
        BY <4>1
    <3>5. PutsDownAfter(i, j)'
      BY <1>4, <2>1, <3>1, <3>2, <3>3, <3>4, PutsDownStill
    <3> QED
      BY <3>3, <3>5
  <2> QED
    BY <2>2, <2>3
<1>6. session' \in {session, Nobody}
  BY <1>2
<1>7. \A i \in DOMAIN wire' : i \in DOMAIN wire /\ wire'[i].op = wire[i].op
                              /\ wire'[i].cmd = wire[i].cmd
  BY <1>1
<1> QED
  BY <1>1, <1>2, <1>3, <1>5, <1>6, <1>7, FaultKeeps

\* The connection is lost with everything under way.
LEMMA LoseKeeps ==
  ASSUME ShopInv, Lose, OtherSame PROVE ShopInv'
<1> USE DEF ShopInv
<1>1. /\ Fits(wire', stack') /\ Len(stack') = Len(stack) /\ DOMAIN wire' = {}
      /\ Calm(0, stack, stack') /\ 0 \notin DOMAIN stack
  BY LoseFits DEF WaitsInv
<1>2. /\ UNCHANGED <<data, who, local, history>> /\ session' \in {session, Nobody}
      /\ who # Nobody
  BY DEF Lose, ServerInv
<1>3. GivenUpInv'
  BY <1>1 DEF GivenUpInv
<1> QED
  BY <1>1, <1>2, <1>3, FaultKeeps

\* A user signs out, the next signs in; the caches of the services stay.
LEMMA TurnsKeep ==
  ASSUME ShopInv, SignOut \/ \E u \in Users : SignIn(u), who' # who => ~ page.timer,
         UNCHANGED <<cart, cartRow, basket, pageVars>>, misfilled' <=> misfilled \/ who' # who
  PROVE  ShopInv'
<1> USE LibraryAssumption DEF ShopInv
<1>1. /\ stack = <<>> /\ wire = <<>> /\ stack' = <<>> /\ wire' = <<>> /\ DOMAIN stack = {}
      /\ DOMAIN stack' = {} /\ DOMAIN wire' = {} /\ who' # who /\ ~ page.timer
      /\ who' \in Users \cup {Nobody} /\ session' = who'
      /\ UNCHANGED <<shelves, owned, lib, hearts, kept, torn, cart, cartRow, basket>>
      /\ UNCHANGED <<page, reviews, meant, crossed>> /\ misfilled'
      /\ who' # Nobody => skewed' /\ behind' /\ drifted'
  <2>1. CASE SignOut
    <3>1. AtRest /\ who # Nobody /\ session' = Nobody /\ who' = Nobody
      BY <2>1 DEF SignOut
    <3>2. UNCHANGED <<data, local, stack, wire, bounds, history>>
      BY <2>1 DEF SignOut
    <3> QED
      BY <3>1, <3>2 DEF AtRest, data, local, history, pageVars
  <2>2. ASSUME NEW u \in Users, SignIn(u)
        PROVE  /\ AtRest /\ who = Nobody /\ session' = u /\ who' = u
               /\ skewed' /\ behind' /\ drifted'
               /\ UNCHANGED <<data, local, stack, wire, bounds, kept, torn>>
    BY <2>2 DEF SignIn
  <2>3. CASE \E u \in Users : SignIn(u)
    BY <2>2, <2>3 DEF AtRest, data, local, pageVars
  <2> QED
    BY <2>1, <2>3
<1>2. Grows
  BY <1>1, GrowsSame
<1>3. WaitsInv'
  BY <1>1 DEF WaitsInv, Fits, Stacked, Wired, Linked
<1>4. ServerInv'
  BY <1>1 DEF ServerInv, OwnedNotInCart
<1>5. ClientInv'
  <2>1. PICK l : l = lib
    OBVIOUS
  <2>2. IsLib(l)'
    BY <1>2, <2>1, LibGrows DEF ClientInv
  <2> QED
    BY <1>1, <2>1, <2>2 DEF ClientInv
<1>6. ShelvesInv' /\ PurchasesInv' /\ BasketInv' /\ HeartsInv'
  BY <1>1 DEF ShelvesInv, PurchasesInv, BasketInv, HeartsInv
<1>7. PageInv'
  <2>1. ~ Loading /\ ~ Loading'
    BY <1>1 DEF Loading
  <2>2. PageFits => PageFits'
    BY <1>1, <2>1 DEF PageFits
  <2> QED
    BY <1>1, <2>1, <2>2 DEF PageInv
<1>8. KeptInv'
  <2> SUFFICES ASSUME NEW u \in Users, NEW b \in kept'[u] PROVE Has(b, u)'
    BY DEF KeptInv
  <2>1. b \in OnShelves(shelves, u) \/ BoughtOrLost(b, u)
    BY <1>1 DEF KeptInv, Has, Carried
  <2>2. OnShelves(shelves, u)' = OnShelves(shelves, u)
    BY <1>1 DEF OnShelves, Mine
  <2> QED
    BY <1>1, <2>1, <2>2 DEF Has, BoughtOrLost
<1>9. GivenUpInv' /\ PastCartInv'
  BY <1>1 DEF GivenUpInv, PastCartInv
<1> QED
  BY <1>3, <1>4, <1>5, <1>6, <1>7, <1>8, <1>9

-----------------------------------------------------------------------------
\* Every command of the library and of the hearts may go on.
LEMMA LibraryReturnsKeep ==
  ASSUME ShopInv, OtherSame,
         \/ ReadReturns \/ ShelvesReturn \/ MoveReturns \/ DuplicateReturns \/ WishReturns
         \/ HeartsReturn \/ HeartGoes \/ HeartReturns
  PROVE  ShopInv'
  BY ReadReturnsKeeps, ShelvesReturnKeeps, MoveReturnsKeeps, DuplicateReturnsKeeps,
     WishReturnsKeeps, HeartsReturnKeeps, HeartGoesKeeps, HeartReturnsKeeps

\* Every step of Library keeps the invariant, the rest of the shop being there.
LEMMA LibraryStepsKeep ==
  ASSUME ShopInv, LibrarySteps PROVE ShopInv'
<1>1. UNCHANGED <<cart, cartRow, basket, pageVars>> /\ (misfilled => misfilled') /\ OtherSame
  BY DEF LibrarySteps, OtherSame
<1>2. CASE \/ ReadReturns \/ ShelvesReturn \/ MoveReturns \/ DuplicateReturns \/ WishReturns
           \/ HeartsReturn \/ HeartGoes \/ HeartReturns
  BY <1>1, <1>2, LibraryReturnsKeep
<1>3. CASE \/ ReadLibrary \/ Refresh \/ EnsureWishlistCache \/ ShowWishlist
           \/ \E b \in Books : ToggleWishlist(b) \/ ToggleSaved(b) \/ RemoveFromWishlist(b)
           \/ \E n \in NewNames : CreateShelf(n) \/ \E s \in CachedIds : RenameShelf(s, n)
           \/ \E i \in DOMAIN lib.shelves : MoveShelfUp(i) \/ MoveShelfDown(i) \/ DuplicateShelf(i)
           \/ \E s \in CachedIds : DeleteShelf(s) \/ SetShelfLook(s)
           \/ \E s \in CachedIds, b \in Books :
                AddToShelf(s, b) \/ RemoveFromShelf(s, b) \/ \E t \in CachedIds : MoveBook(s, t, b)
  BY <1>1, <1>3, LibraryBegins, LibraryBeginsKeep
<1>4. CASE Server
  BY <1>1, <1>4, ServerKeeps
<1>5. ASSUME NEW i \in DOMAIN stack, TimesOut(i) PROVE ShopInv'
  BY <1>1, <1>5, TimesOutKeeps
<1>6. CASE Lose
  BY <1>1, <1>6, LoseKeeps
<1>7. CASE SignOut \/ \E u \in Users : SignIn(u)
  BY <1>7, TurnsKeep DEF LibrarySteps
<1>8. Next
  BY DEF LibrarySteps
<1> QED
  BY <1>2, <1>3, <1>4, <1>5, <1>6, <1>7, <1>8 DEF Next, LibraryService, BookService

\* So does every step of the shop.
LEMMA ShopStepsKeep ==
  ASSUME ShopInv, CartService \/ WishlistViewModel \/ BookDetailViewModel \/ ShopServer
  PROVE  ShopInv'
<1>1. CASE \/ ReadCart \/ RefreshCart \/ Clear \/ Checkout
           \/ \E b \in Books : Add(b) \/ RemoveFromCart(b) \/ SetQuantity(b) \/ BuyNow(b)
                               \/ MoveToCart(b)
  BY <1>1, ShopBegins
<1>2. CASE CartReturns \/ ClearReturns \/ AgainReturns \/ CheckoutReturns
  BY <1>2, CartReturnsKeeps, ClearReturnsKeeps, AgainReturnsKeeps, CheckoutReturnsKeeps
<1>3. CASE ToCartAdded \/ ToCartRefreshed \/ ToCartRead \/ ToCartReturns
  BY <1>3, ToCartAddedKeeps, ToCartRefreshedKeeps, ToCartReadKeeps, ToCartReturnsKeeps
<1>4. CASE SubmitReview \/ OnAsyncReady \/ LoadReturns \/ ReviewReturns
  BY <1>4, SubmitReviewKeeps, OnAsyncReadyKeeps, LoadReturnsKeeps, ReviewReturnsKeeps
<1>5. CASE \E b \in Pages : LoadBook(b)
  BY <1>5, LoadBookKeeps
<1>6. CASE ShopServer
  BY <1>6, ShopServerKeeps
<1> QED
  BY <1>1, <1>2, <1>3, <1>4, <1>5, <1>6 DEF CartService, WishlistViewModel, BookDetailViewModel

\* And a step of nothing modelled here.
LEMMA StutterKeeps ==
  ASSUME ShopInv, UNCHANGED allVars PROVE ShopInv'
<1>1. /\ RestSame /\ stack' = stack /\ wire' = wire
      /\ UNCHANGED <<page, reviews, meant, crossed, who>>
  BY DEF allVars, vars, shopVars, pageVars, data, local, bounds, history, RestSame
<1>2. PageTypes(page') /\ PageInv'
  <2>1. PageTypes(page')
    BY <1>1 DEF ShopInv, ClientInv, PageTypes
  <2>2. (Loading' <=> Loading) /\ (PageFits => PageFits')
    BY <1>1 DEF Loading, PageFits, Settled, OfPage
  <2> QED
    BY <1>1, <2>1, <2>2 DEF PageInv, ShopInv
<1> QED
  BY <1>1, <1>2, PageOnly, RestClient DEF ShopInv

\* It holds at first: one user has a wishlist with a book on it, and nothing
\* waits.
LEMMA ShopInits ==
  ASSUME ShopInit PROVE ShopInv
<1> USE LibraryAssumption, ShopAssumption DEF ShopInit, Init
<1>1. /\ stack = <<>> /\ wire = <<>> /\ DOMAIN stack = {} /\ DOMAIN wire = {} /\ Len(stack) = 0
      /\ who = Nobody /\ session = Nobody /\ lib = Empty /\ hearts = {} /\ basket = NoBasket
  OBVIOUS
<1>2. WaitsInv
  BY <1>1 DEF WaitsInv, Fits, Stacked, Wired, Linked, IsSeq, ToSet
<1>3. PICK u \in Users :
        /\ shelves = <<Shelf(u, Wishlist - 2, 0), [Shelf(u, Wishlist, 1) EXCEPT !.books = {Shelved}]>>
        /\ kept = [v \in Users |-> IF v = u THEN {Shelved} ELSE {}]
  OBVIOUS
<1>4. PICK s, t : /\ s = Shelf(u, Wishlist - 2, 0)
                  /\ t = [Shelf(u, Wishlist, 1) EXCEPT !.books = {Shelved}]
  OBVIOUS
<1>5. /\ s \in Row /\ t \in Row /\ t.owner = u /\ t.live /\ t.books = {Shelved}
  <2>1. Wishlist \in Nat /\ Wishlist - 2 \in Nat /\ Shelved \in Books
    OBVIOUS
  <2>2. s = [owner |-> u, name |-> Wishlist - 2, sort |-> 0, books |-> {}, live |-> TRUE]
    BY <1>4 DEF Shelf
  <2>3. t = [owner |-> u, name |-> Wishlist, sort |-> 1, books |-> {Shelved}, live |-> TRUE]
    BY <1>4 DEF Shelf
  <2> QED
    BY <2>1, <2>2, <2>3 DEF Row
<1>6. shelves \in Seq(Row) /\ 2 \in DOMAIN shelves /\ shelves[2] = t
  <2>1. shelves = <<s, t>>
    BY <1>3, <1>4
  <2> HIDE DEF ShopInit, Init
  <2> QED
    BY <1>5, <2>1
<1>7. cartRow \subseteq Users
  OBVIOUS
<1>8. ServerInv
  BY <1>1, <1>6, <1>7 DEF ServerInv, OwnedNotInCart
<1>9. ClientInv
  <2>1. kept \in [Users -> SUBSET Books]
    BY <1>3
  <2>2. IsLib(lib)
    BY <1>1, EmptyFits
  <2>3. page \in [id : Pages \cup {NoBook}, book : Pages \cup {NoBook},
               reviews : Pages \cup {NoBook}, mine : Pages \cup {NoBook},
               pending : {"none", "load", "submit"}, busy : BOOLEAN, timer : BOOLEAN]
    OBVIOUS
  <2>4. basket \in [any : BOOLEAN, items : SUBSET Books] /\ (~ basket.any => basket = NoBasket)
    BY <1>1 DEF NoBasket
  <2> QED
    BY <1>1, <2>1, <2>2, <2>3, <2>4 DEF ClientInv
<1>10. ShelvesInv /\ PurchasesInv /\ BasketInv /\ HeartsInv
  BY <1>1 DEF ShelvesInv, PurchasesInv, BasketInv, HeartsInv
<1>11. PageInv
  <2>1. ~ Loading
    BY <1>1 DEF Loading
  <2>2. /\ ~ page.busy /\ ~ page.timer /\ page.id = NoBook /\ page.book = NoBook
        /\ page.reviews = NoBook /\ page.mine = NoBook /\ reviews = {}
    OBVIOUS
  <2> QED
    BY <1>1, <2>1, <2>2 DEF PageInv, PageFits, Settled
<1>12. KeptInv
  <2> SUFFICES ASSUME NEW v \in Users, NEW b \in kept[v] PROVE Has(b, v)
    BY DEF KeptInv
  <2>1. v = u /\ b = Shelved
    BY <1>3
  <2>2. 2 \in Mine(shelves, u)
    BY <1>5, <1>6 DEF Mine
  <2>3. b \in OnShelves(shelves, v)
    BY <1>5, <1>6, <2>1, <2>2 DEF OnShelves
  <2> QED
    BY <2>3 DEF Has
<1>13. GivenUpInv /\ PastCartInv
  BY <1>1 DEF GivenUpInv, PastCartInv
<1> QED
  BY <1>2, <1>8, <1>9, <1>10, <1>11, <1>12, <1>13 DEF ShopInv

-----------------------------------------------------------------------------
(* The theorems.                                                           *)

\* The inductive invariant holds of every behaviour of the client and the
\* server, for any readers, books, shelves and bounds, however deep the waits
\* of the services nest.
THEOREM ShopInvariant == ShopSpec => []ShopInv
<1>1. ShopInit => ShopInv
  BY ShopInits
<1>2. ShopInv /\ [ShopNext]_allVars => ShopInv'
  BY LibraryStepsKeep, ShopStepsKeep, StutterKeeps DEF ShopNext
<1> QED
  BY <1>1, <1>2, PTL DEF ShopSpec

\* At rest no command waits.
LEMMA NothingWaits ==
  ASSUME AtRest PROVE DOMAIN stack = {}
  BY DEF AtRest

\* The invariant gives the types.
LEMMA TypesHold ==
  ASSUME ShopInv PROVE ShopTypeOK
<1> USE DEF ShopInv
<1>1. CachedIds \subseteq DOMAIN shelves
  BY DEF CachedIds, ClientInv, IsLib, IsListing, IsListed
<1>2. \A w \in DOMAIN wire : wire[w].depth \in 0 .. Len(stack)
  <2> SUFFICES ASSUME NEW w \in DOMAIN wire PROVE wire[w].depth \in 0 .. Len(stack)
    OBVIOUS
  <2>1. Len(stack) \in Nat /\ DOMAIN stack = 1 .. Len(stack) /\ wire[w].depth \in Nat
    BY SeqShape DEF WaitsInv, Fits, Stacked, Wired, IsRequest
  <2>2. wire[w].depth # 0 => wire[w].depth \in DOMAIN stack
    BY DEF WaitsInv, Fits, Linked
  <2> QED
    BY <2>1, <2>2
<1>3. shelves \in Seq([owner : Users, name : Nat, sort : Int, books : SUBSET Books,
                       live : BOOLEAN])
  BY DEF ServerInv, Row
<1>4. /\ lib.owned \subseteq Books /\ (~ lib.any => lib = Empty)
      /\ hearts \subseteq Books /\ Len(stack) <= MaxDepth /\ torn \subseteq Books
  BY DEF ClientInv, IsLib, WaitsInv
<1>5. TypeOK
  BY <1>1, <1>2, <1>3, <1>4 DEF TypeOK, ServerInv
<1> QED
  BY <1>5 DEF ShopTypeOK, ServerInv, ClientInv

\* At rest the library LibraryService shows is the server's, shelf by shelf in
\* findByUser's order, unless a merge or a fault is known to have spoilt it,
\* and so are the purchases, unless bought since.
THEOREM ShopLibraryShown == ShopSpec => []LibraryShown
<1>1. ShopInv => LibraryShown
  <2> SUFFICES ASSUME ShopInv PROVE LibraryShown
    OBVIOUS
  <2>1. ShelvesShown
    BY NothingWaits DEF ShelvesShown, ShopInv, ShelvesInv
  <2>2. PurchasesShown
    BY DEF PurchasesShown, ShopInv, PurchasesInv
  <2> QED
    BY <2>1, <2>2, TypesHold DEF LibraryShown
<1> QED
  BY <1>1, ShopInvariant, PTL

\* At rest the hearts BookService::toggleWishlist keeps are the books of the
\* server's wishlist, unless the code is known to have applied a heart to a
\* list that was not it.
THEOREM ShopHeartsAgree == ShopSpec => []HeartsAgree
<1>1. ShopInv => HeartsAgree
  BY NothingWaits DEF HeartsAgree, ShopInv, HeartsInv
<1> QED
  BY <1>1, ShopInvariant, PTL

\* At rest every book a reader had is still on a shelf of theirs, in the cart
\* or bought: neither moveBookBetweenShelves nor moveToCart nor setQuantity
\* loses one, unless a request of theirs was given up half way or somebody took
\* the book away meanwhile.
THEOREM ShopMovesLoseNothing == ShopSpec => []MovesLoseNothing
<1>1. ShopInv => MovesLoseNothing
  BY NothingWaits DEF MovesLoseNothing, ShopInv, KeptInv, Has, BoughtOrLost, Carried
<1> QED
  BY <1>1, ShopInvariant, PTL

\* No bought book is in the cart, and at rest the cache of CartService is the
\* server's cart, unless a fault is known to have spoilt it.
THEOREM ShopCartsAgree == ShopSpec => []CartsAgree
<1>1. ShopInv => CartsAgree
  BY NothingWaits DEF CartsAgree, BasketShown, ShopInv, BasketInv, ServerInv
<1> QED
  BY <1>1, ShopInvariant, PTL

\* At rest the page of BookDetailViewModel is not busy and shows the book it is
\* of and the reviews of that book, and every review stored is of the book its
\* reader meant, unless the loads of two books crossed.
THEOREM ShopPageAgrees == ShopSpec => []PageAgrees
<1>1. ShopInv => PageAgrees
  <2> SUFFICES ASSUME ShopInv PROVE PageAgrees
    OBVIOUS
  <2>1. PageInv
    BY DEF ShopInv
  <2>2. AtRest => ~ Loading
    BY NothingWaits DEF Loading
  <2>3. PageWhole
    BY <2>1, <2>2 DEF PageWhole, PageInv, PageFits, Settled
  <2>4. ReviewsMeant
    BY <2>1 DEF ReviewsMeant, PageInv, PageFits
  <2> QED
    BY <2>3, <2>4 DEF PageAgrees
<1> QED
  BY <1>1, ShopInvariant, PTL

=============================================================================
